SPECIFICATION PartsSpec
CONSTANTS
    MaxSessions = 2
    Busid = {b1, b2}
    UsbDevice = {d1, d2}
    NumIfaces = 2
    Free = Free
    Kernel = Kernel
    Unbound = Unbound
    Clients = {"wire"}
    Servers = {"rust", "android"}
    Shapes <- MCShapes
    EntryWords = 3
    TreeWords = 6
    PayloadWords = 20
    TreeCommand = "RET_UNLINK"
    MaxCommands = 2
    MaxMessage = 10
    Lengths = {1, 2, 10}
    MaxFrames = 2
    MaxBatch = 3
    Capacity = 3
    Sizes <- MCSizes
    Seqnums = 3
    MaxUrbs = 4
    Page = {p1, p2}
    PortMax = 2
    CliPort = 1
    MaxBoots = 3
    Attempt = {x1, x2, x3, x4}
    NumPorts = 2
    Vacant = Vacant
    Holder = {h1, h2}
    MinSize = 1
    MaxSize = 3
    Rate = 1
    Second = 3
    Amounts = {1, 2, 5}
    MaxTime = 9
INVARIANTS
    UsbTypeOK
    DriversKept
    StreamsKept
    PartsTypeOK
    InOrder
    BatchWellFormed
    Accounted
    FileIsMemory
    LimitsHold
    SessionGivesBack
    PortsAreOwn
PROPERTIES
    BackendIsLease
    BlockingEnds
    IdSurvives
CHECK_DEADLOCK FALSE

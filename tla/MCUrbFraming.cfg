SPECIFICATION FramingSpec
CONSTANTS
    Clients = {"forwarding"}
    Servers = {"rust"}
    Shapes <- MCShapes
    EntryWords = 3
    TreeWords = 6
    PayloadWords = 20
    TreeCommand = "RET_UNLINK"
    MaxCommands = 1
CHECK_DEADLOCK FALSE
INVARIANTS
    InSync

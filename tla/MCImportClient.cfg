SPECIFICATION ClientSpec
CONSTANTS
    Conn = {c1, c2, c3}
    Busid = {d1}
    d1 = d1
    None = None
    Gone = Gone
    Client = {k1, k2}
    Device <- SameDevice
    AutoReconnect = TRUE
    MaxRetries = 1
SYMMETRY Symmetry
INVARIANTS
    OneForwarder
    RetryBudget
    RefusedByOther
PROPERTIES
    ServerUnderClients

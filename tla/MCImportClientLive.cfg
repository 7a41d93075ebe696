SPECIFICATION ClientFairSpec
CONSTANTS
    Conn = {c1, c2}
    Busid = {d1}
    d1 = d1
    None = None
    Gone = Gone
    Client = {k1}
    Device <- SameDevice
    AutoReconnect = TRUE
    MaxRetries = 2
PROPERTIES
    ImportSettles

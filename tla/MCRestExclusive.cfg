SPECIFICATION RestSpec
CONSTANTS
    Conn = {c1, c2}
    Busid = {b1}
    None = None
    Gone = Gone
INVARIANT ExclusiveSession

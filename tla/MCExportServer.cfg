SPECIFICATION FairSpec
CONSTANTS
    Conn = {c1, c2}
    Busid = {b1, b2}
    None = None
    Gone = Gone
INVARIANTS
    SessionOwnsEntry
    ExclusiveSession
    ClaimsAgree
PROPERTIES
    EntryChangesByOwner
    ImplementsLease
    PeerGoneEndsSession

SPECIFICATION FairSpec
CONSTANTS
    ULLONG_MAX = 47
    Garbage = TRUE
    NULL = NULL
    Socket = socket
    c1 = c1
    c2 = c2
    Conns = {c1, c2}
    Scripts <- Texts
    Sizes = {"small", "long", "large"}
    PlainUse = TRUE
    MaxClients = 2
CHECK_DEADLOCK FALSE
INVARIANTS
    TypeOK
    EntryPerLink
    CallsAreRequests
    WholeReadServed
PROPERTIES
    Exchanges
    Ends

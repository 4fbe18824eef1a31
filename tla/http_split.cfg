SPECIFICATION Spec
CONSTANTS
    ULLONG_MAX = 47
    Garbage = FALSE
    NULL = NULL
    Socket = socket
    c1 = c1
    c2 = c2
    Conns = {c1, c2}
    Scripts <- Texts
    Sizes = {"small"}
    PlainUse = TRUE
    MaxClients = 2
CHECK_DEADLOCK FALSE
INVARIANT RequestServed

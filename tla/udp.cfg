SPECIFICATION Spec
CONSTANTS
    Sockets = {hs, h1, h2}
    ServerSocket = hs
    Links = {l1, l2}
    Items = {i1, i2}
    NULL = NULL
    MaxSends = 2
    PlainUse = TRUE
SYMMETRY Symmetry
CHECK_DEADLOCK FALSE
INVARIANTS
    TypeOK
    HeldIsAlive
    AnswersAreMine
    ItemsAccounted

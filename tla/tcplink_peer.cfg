SPECIFICATION Spec
CONSTANTS
    Handles = {h1}
    NULL = NULL
    PeerLink = TRUE
    ConnectReactions = {"none", "send"}
    Reactions = {"none", "send", "close"}
    MayReconnect = FALSE
    SyncErrors = FALSE
    WriteErrors = TRUE
    MaxPending = 16
    MaxFaults = 3
SYMMETRY Symmetry
CHECK_DEADLOCK FALSE
INVARIANTS
    TypeOK
    PeerReleases

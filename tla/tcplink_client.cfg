SPECIFICATION FairSpec
CONSTANTS
    Handles = {h1, h2, h3, h4, h5}
    NULL = NULL
    PeerLink = FALSE
    ConnectReactions = {"none", "send"}
    Reactions = {"none", "send", "close"}
    MayReconnect = FALSE
    SyncErrors = TRUE
    WriteErrors = TRUE
    MaxPending = 2
    MaxFaults = 3
CHECK_DEADLOCK FALSE
INVARIANTS
    NoCrash
    CurrentIsLive
    ReadingIsCurrent
    ConnectedIsOpen
    OneAttempt
    OrphansBounded
    CloseIsFinal
    ReconnectArmed
PROPERTIES
    LossHasCause
    Recovers
    Implements

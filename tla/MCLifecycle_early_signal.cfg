SPECIFICATION FairSpec
CONSTANTS
    IngestionEnabled = TRUE
    DirectBus = FALSE
    Optional = {}
    MaxRequests = 1
    EarlyShutdownLost = TRUE
CHECK_DEADLOCK FALSE
PROPERTY SignalEnds

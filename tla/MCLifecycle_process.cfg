SPECIFICATION FairSpec
CONSTANTS
    IngestionEnabled = TRUE
    DirectBus = FALSE
    Optional = {"geo", "query_reader", "property_catalog"}
    MaxRequests = 2
    EarlyShutdownLost = FALSE
CHECK_DEADLOCK FALSE
INVARIANT TypeOK
INVARIANT ReleasedAtEnd
INVARIANT HandlersDrainedFirst
PROPERTY WorkerFailureEnds
PROPERTY SignalEnds

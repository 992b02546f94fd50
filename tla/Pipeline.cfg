SPECIFICATION FairSpec
CONSTANTS
    Brokers = {"exness", "icmarkets"}
    SourceLists <- MCSourceLists
    InitBackoff = 2
    MaxBackoff = 3
    NoBroker = "none"
    MaxRestarts = 2
    MaxFailures = 2
INVARIANTS
    OneEngine
    HealthIsTrue
    StopIsClean
    AloneIsIsolated
PROPERTIES
    EngineComesUp
    StopEnds
CHECK_DEADLOCK FALSE

SPECIFICATION Spec
CONSTANTS
    Symbols = {"XAU"}
    Pairs = {"H1", "M30"}
    Ltf <- OneLtf
    Zones <- PositionZones
    MultiTf = FALSE
    MaxSignalCount = 2
    SignalExpiry = 2
    DayLength = 4
    MaxConsecutiveLosses = 1
    PauseLength = 1
    MoveSlToBe = TRUE
    MaxEmitLag = 0
    CrashPoints = {"free", "evaluate", "record", "append", "announce"}
    StoreFaults = {}
    MaxTime = 4
INVARIANTS
    TypeOK
    OneOpenPerDirection
    LocksMatchWatchlist
    StoreTracksWatchlist
PROPERTIES
    RejectionFiresOnce

SPECIFICATION Spec
CONSTANTS
    Symbols = {"EUR", "XAU"}
    Pairs = {"H1"}
    Ltf <- OneLtf
    Zones <- SessionZones
    MultiTf = FALSE
    MaxSignalCount = 1
    SignalExpiry = 2
    DayLength = 2
    MaxConsecutiveLosses = 1
    PauseLength = 2
    MoveSlToBe = TRUE
    MaxEmitLag = 1
    CrashPoints = {"free", "evaluate", "append", "announce"}
    StoreFaults = {}
    MaxTime = 4
PROPERTY PauseLastsItsHours

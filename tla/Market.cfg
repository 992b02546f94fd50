SPECIFICATION Spec
CONSTANTS
    Strip <- MCStrip
    AssetClass <- MCAssetClass
    Minutes <- MCMinutes
    Rejected = Rejected
    NoPair = "none"
    Symbols = {"XAU/USD", "BTCUSD"}
    Names <- MCNames
    Setups <- MCSetups
    Requests <- MCRequests
    OutputSize = 3
    Unloaded = Unloaded
    Unresolved = Unresolved
    Unknown = Unknown
    NoTick = NoTick
    Idle = Idle
INVARIANTS
    ClockTrue
    ProfilesResolve
CHECK_DEADLOCK FALSE

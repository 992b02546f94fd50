SPECIFICATION Spec
CONSTANTS
    Charts <- MCCharts
    Pairs <- MCPairs
    Configs <- MCConfigs
    Quotes <- MCQuotes
    FileRows <- MCFileRows
    Accounts <- MCAccounts
    Levels = {5, 10, 20}
    PivotBars = 1
    MaxZones = 2
    MaxSignalCount = 2
    WarmUp = 3
    MaxRows = 4
    SignalExpiry = 3
    StartBalance = 100000
    DayLength = 4
    BufferDiv = 50000
    NoSignal = NoSignal
    NoEntry = NoEntry
    NoQuote = NoQuote
INVARIANTS
    LevelsOrdered
    OverlapIsShort
    TrailingKeepsLosses
    RiskSweepSound
    CurvesAgree
    ReportsAgree
    MitigationIsCausal
PROPERTY SettledBreaks
CHECK_DEADLOCK FALSE

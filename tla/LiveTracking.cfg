SPECIFICATION Spec
CONSTANTS
    SignalExpiry = 3
    MaxCandles = 4
INVARIANTS
    Tp1AnnouncedOnce
    NoLossAfterTp1
    ClosedTradeIsPriced
    LiveMatchesQuery
    WinsAndLossesMatchQuery
    LiveMatchesBacktest

SPECIFICATION FairSpec
CONSTANTS
    Symbols = {"XAU", "BTC"}
    Supported = {"XAU"}
    MaxClients = 2
    NoSymbol = ""
    NoClient = 0
    Brokers = {b1, b2, b3}
    Signals <- MCSignals
    Window = 1
    DrainPeriod = 1
    Event = Event
    MaxTasks = 3
    Limits <- MCLimits
INVARIANTS
    ReportsCountOnce
    OpenStaysRegistered
PROPERTIES
    ImplementsAgreement
    SubscriberReceives
    StopEnds
CHECK_DEADLOCK FALSE

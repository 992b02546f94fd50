CONSTANTS
    Symbols = {eur}
    Subscribers = {pipeline, client}
    Chains = {c1, c2, c3}
    NoTimer = NoTimer
    Week = 6
    Interval = 2
    Buffer = 1
    BrokerOffset = 1
    Offsets <- ThreeOffsets
    MaxCalls = 3
    Weekends <- ThreeWeekends
SPECIFICATION Spec
INVARIANT NoOverlappingTicks

SPECIFICATION Spec
CONSTANTS
    SignalExpiry = 3
    MaxCandles = 4
INVARIANT LiveQueryParity

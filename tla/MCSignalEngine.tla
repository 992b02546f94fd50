--------------------------- MODULE MCSignalEngine ----------------------------
EXTENDS SignalEngine

Zone(s, p, d, t) == [sym |-> s, pair |-> p, dir |-> d, ts |-> t]

OneLtf == [p \in Pairs |-> 1]

\* Two pairs of a symbol on the same LTF compete for one lock; the opposite
\* direction has its own.
PositionZones ==
    {Zone("XAU", "H1", "LONG", 1), Zone("XAU", "M30", "LONG", 1),
     Zone("XAU", "H1", "SHORT", 1)}

\* Two symbols share the session; one zone can be tried again.
SessionZones ==
    {Zone("EUR", "H1", "LONG", 1), Zone("XAU", "H1", "LONG", 1)}
==============================================================================

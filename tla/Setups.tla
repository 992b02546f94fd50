------------------------------- MODULE Setups -------------------------------
(***************************************************************************)
(* From a zone to a trade: the CRT rejection that triggers it              *)
(* (domain/market/rejection.py, domain/signals/entry.py), the session      *)
(* filter (domain/assets/profiles.py) and the gates of the builder         *)
(* (domain/signals/builder.py, app/engine/decision_engine.py).             *)
(*                                                                         *)
(* Prices are integers, so fine that a hundredth of the smallest price     *)
(* step and the buffer of a stop are whole units; ratios (min_rr, max_rr,  *)
(* rr, max_sl_zone_mult) are in thousandths; one candle is one hour, so a  *)
(* candle's hour of day is its time modulo 24.                             *)
(***************************************************************************)
EXTENDS Structure

CONSTANTS
    BufferDiv,   \* 1 / stop_buffer_pct
    NoSignal,    \* build_signal returned None
    NoEntry,     \* find_entry returned None
    NoQuote      \* no live tick was supplied

ASSUME BufferDivAssumption == BufferDiv \in Nat \ {0}

\* The prices of candles and quotes.
Price == {n \in Nat : n % 100 = 0 /\ n >= BufferDiv}

\* a / b to the nearest integer, for b > 0.
Nearest(a, b) == (2 * a + b) \div (2 * b)

Dist(a, b) == IF a >= b THEN a - b ELSE b - a

-----------------------------------------------------------------------------
(***************************************************************************)
(* The rejection: the candle sweeps the previous candle's extreme, closes  *)
(* back inside, and touches the zone.                                      *)
(***************************************************************************)
InsideHtf(c, zone) == c.low <= zone.range_high /\ c.high >= zone.range_low

Check(c, prev, dir, zone) ==
    /\ InsideHtf(c, zone)
    /\ IF dir = "SHORT" THEN c.high > prev.high /\ c.close < prev.high
       ELSE c.low < prev.low /\ c.close > prev.low

\* find_most_recent over the LTF candles of the zone; the first of them has
\* no predecessor and is never tested.
FindEntry(cs, dir, zone) ==
    LET hits == {i \in 2..Len(cs) : Check(cs[i], cs[i - 1], dir, zone)}
    IN IF hits = {} THEN NoEntry ELSE cs[Max(hits)]

WickTip(rejection, dir) ==
    IF dir = "SHORT" THEN rejection.high ELSE rejection.low

-----------------------------------------------------------------------------
(***************************************************************************)
(* The session filter: an hour counts when one enabled session holds it    *)
(* and does not block it; a session that ends at midnight ends at 24.      *)
(***************************************************************************)
HourOf(time) == time % 24

InSession(profile, time) ==
    \/ ~profile.use_session_filter
    \/ \E s \in profile.sessions :
          /\ s.enabled
          /\ HourOf(time) \notin s.blocked_hours
          /\ HourOf(time) >= s.start
          /\ s.end = 0 \/ HourOf(time) < s.end

-----------------------------------------------------------------------------
(***************************************************************************)
(* build_signal                                                            *)
(***************************************************************************)
\* Toward the target is up for a LONG and down for a SHORT.
Toward(dir, price, by) == IF dir = "LONG" THEN price + by ELSE price - by

Beyond(dir, a, b) == IF dir = "LONG" THEN a > b ELSE a < b

\* The quote of the side that fills, when the profile asks for live prices.
EntryPrice(rejection, dir, profile, quote) ==
    CASE profile.signal_price_source # "live_bidask" \/ quote = NoQuote ->
            rejection.close
      [] OTHER -> IF dir = "SHORT" THEN quote.bid ELSE quote.ask

StopLoss(rejection, dir) ==
    LET tip == WickTip(rejection, dir)
    IN Toward(dir, tip, -(tip \div BufferDiv))

\* The target, capped at max_rr times the risk when there is a cap.
CapTp2(entry, tp2, risk, dir, profile) ==
    IF profile.max_rr > 0 /\ Dist(tp2, entry) * 1000 > profile.max_rr * risk
    THEN [tp2 |-> Toward(dir, entry, (profile.max_rr * risk) \div 1000),
          rr |-> profile.max_rr]
    ELSE [tp2 |-> tp2, rr |-> Nearest(Dist(tp2, entry) * 1000, risk)]

Tp1Level(dir, entry, tp2, pct) ==
    Toward(dir, entry, (Dist(tp2, entry) * pct) \div 100)

\* Mutant: the side of the target is not tested.
GatesAnyTarget(dir, entry, sl, zone, profile) ==
    LET risk == Dist(entry, sl)
        height == zone.range_high - zone.range_low
    IN /\ Beyond(dir, entry, sl)
       /\ height > 0 => 1000 * risk <= height * profile.max_sl_zone_mult
       /\ 1000 * Dist(zone.tp_level, entry) >= profile.min_rr * risk

\* The gates before the cap: the stop and the target lie on their sides of
\* the entry, the risk fits the zone, and the uncapped ratio meets min_rr.
Gates(dir, entry, sl, zone, profile) ==
    LET risk == Dist(entry, sl)
        height == zone.range_high - zone.range_low
    IN /\ Beyond(dir, entry, sl)
       /\ height > 0 => 1000 * risk <= height * profile.max_sl_zone_mult
       /\ Beyond(dir, zone.tp_level, entry)
       /\ 1000 * Dist(zone.tp_level, entry) >= profile.min_rr * risk

BuildSignal(zone, rejection, profile, quote) ==
    LET dir    == SignalDirection(zone.bos_direction)
        entry  == EntryPrice(rejection, dir, profile, quote)
        sl     == StopLoss(rejection, dir)
        risk   == Dist(entry, sl)
        capped == CapTp2(entry, zone.tp_level, risk, dir, profile)
    IN IF ~Gates(dir, entry, sl, zone, profile) \/ ~InSession(profile, rejection.time)
       THEN NoSignal
       ELSE [direction |-> dir, entry |-> entry, sl |-> sl,
             tp1 |-> Tp1Level(dir, entry, capped.tp2, profile.tp1_trigger_pct),
             tp2 |-> capped.tp2, rr |-> capped.rr, risk |-> risk,
             created_at |-> rejection.time]

=============================================================================

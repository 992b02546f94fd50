------------------------------ MODULE MCMarket ------------------------------
EXTENDS Market, TLC

MCStrip == [s \in {"XAUUSD", "XAU/USD", "BTCUSD", "XAUUSDm", "*"} |->
                IF s = "XAU/USD" THEN "XAUUSD" ELSE s]

MCAssetClass == "XAUUSD" :> "COMMODITY"
MCMinutes == ("60/5" :> <<60, 5>>) @@ ("5/60" :> <<5, 60>>)
MCNames == <<"BTCUSD", "XAUUSDm">>
MCRequests == {[from |-> 1, to |-> 0], [from |-> 2, to |-> 3]}

Doc(single, rrr, overrides) == [single |-> single, rrr |-> rrr, overrides |-> overrides]
Plain == Doc(Nothing, <<>>, <<>>)
Creds == [aliases |-> Nothing, offset |-> 0]
Aliased == [aliases |-> ("BTCUSD" :> "XAUUSDm"), offset |-> 8]

\* The client on a broker some hours ahead, whose clock changes while it runs.
Ticking(creds, before, after, shift, horizon, symbols, listed) ==
    [base |-> Plain, over |-> Plain, creds |-> creds, pairs |-> {"60/5"},
     before |-> before, after |-> after, shift |-> shift, horizon |-> horizon,
     symbols |-> symbols, listed |-> listed, hidden |-> {},
     within |-> ("XAUUSDm" :> {"XAUUSD"}) @@ ("BTCUSD" :> {})]

Gold == {"XAU/USD"}
Both == {"XAU/USD", "BTCUSD"}

\* The documents, each table with entries at some of the places, and a broker
\* that lists nothing.
Reading(base, over) ==
    [Ticking(Creds, 8, 8, 0, 0, Both, {}) EXCEPT !.base = base, !.over = over]

Row(sym, tfs) == [sym |-> sym, tfs |-> tfs]

Tables(Entry(_, _)) ==
    {<<Row(sym, [k \in ks |-> Entry("s", k)]), Row("*", [k \in js |-> Entry("*", k)])>> :
        sym \in {"XAUUSD", "XAU/USD"}, ks, js \in SUBSET {"60/5", "*"}}

Code(sym, k) == (IF sym = "s" THEN 20 ELSE 10) + (IF k = "*" THEN 0 ELSE 5)
Ratio(sym, k) == IF k = "*" THEN ("min_rr" :> Code(sym, k)) ELSE ("max_rr" :> Code(sym, k))
BrokerRatio(sym, k) == ("min_rr" :> 1 + Code(sym, k)) @@ ("max_rr" :> 2 + Code(sym, k))
Trigger(sym, k) == IF k = "*" THEN ("tp1_trigger_pct" :> 9 * Code(sym, k))
                   ELSE ("tp1_trigger_pct" :> Code(sym, k)) @@ ("tp1_close_pct" :> 30)
BrokerTrigger(sym, k) == IF sym = "*" /\ k = "*" THEN ("max_rr" :> 10)
                         ELSE ("tp1_trigger_pct" :> 3 + Code(sym, k))

Readings ==
    {Reading(Doc(Nothing, t, <<>>), Doc(Nothing, u, <<>>)) :
        t \in Tables(Ratio), u \in {<<>>} \cup Tables(BrokerRatio)}
    \cup {Reading(Doc(Nothing, <<>>, t), Doc(single, <<>>, u)) :
        t \in Tables(Trigger), u \in {<<>>} \cup Tables(BrokerTrigger),
        single \in {Nothing, "tp1_trigger_pct" :> 45, "tp1_trigger_pct" :> 100,
                    "min_rr" :> 0, "pairs" :> {"5/60"}}}

MCSetups ==
    Readings
    \cup {Ticking(Creds, 8, 12, 3, 6, Gold, {"XAUUSDm"}),
          Ticking(Creds, 12, 8, 2, 6, Gold, {"XAUUSDm"}),
          Ticking(Aliased, 12, 12, 0, 3, {"BTCUSD"}, {"XAUUSDm", "BTCUSD"}),
          Ticking(Creds, 8, 8, 0, 1, Both, {"XAUUSDm", "BTCUSD"})}
    \cup {[Ticking(Creds, -12, -12, 0, 1, Gold, {"XAUUSDm"}) EXCEPT !.hidden = {"XAUUSDm"}]}
=============================================================================

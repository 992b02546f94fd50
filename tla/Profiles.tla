------------------------------ MODULE Profiles ------------------------------
(***************************************************************************)
(* Settings and the asset registry: how config.yaml and the broker's file  *)
(* become one configuration, what the configuration is refused for, and    *)
(* which parameters a symbol on a timeframe pair gets from it.             *)
(*                                                                         *)
(* A document has its single values (a function from the names it gives)   *)
(* and its two tables by symbol and timeframe, signal_quality.rrr and      *)
(* trade_management.tf_overrides, in the order in which they are written.  *)
(* A ratio is in tenths.  A timeframe pair is named by its key, "60/5";    *)
(* tf_max_rr and htf_lookback are values by that key, and an htf_lookback  *)
(* that is one number has it under Every.                                  *)
(***************************************************************************)
EXTENDS Integers, Sequences, FiniteSetsExt

CONSTANTS
    Strip,       \* a spelling in capitals without its slashes
    AssetClass,  \* ASSET_CLASS_MAP
    Minutes,     \* the two intervals of a pair's key
    Rejected,    \* the constructor raised
    NoPair       \* get was called without timeframes

Star == "*"

Every == "every"

Nothing == [k \in {} |-> 0]

\* Two sets of values by name; the first wins.
Over(f, g) ==
    [k \in DOMAIN f \cup DOMAIN g |-> IF k \in DOMAIN f THEN f[k] ELSE g[k]]

-----------------------------------------------------------------------------
(***************************************************************************)
(* Reading the documents                                                   *)
(***************************************************************************)
\* What _get falls back on.
Defaults ==
    [min_rr |-> 15, max_rr |-> 90, tp1_trigger_pct |-> 50, tp1_close_pct |-> 0,
     use_breakeven |-> TRUE, tf_max_rr |-> Nothing,
     htf_lookback |-> [k \in {Every} |-> 120], pairs |-> {"60/5"},
     max_signal_count |-> 1, apex_env |-> "paper", apex_live_confirm |-> "",
     max_spread_to_sl_ratio |-> 35, entry_model |-> "crt"]

MergeTfs(base, over) ==
    [k \in DOMAIN base \cup DOMAIN over |->
        CASE k \notin DOMAIN over -> base[k]
          [] k \notin DOMAIN base -> over[k]
          [] OTHER -> Over(over[k], base[k])]

\* A table is merged by its spelling of the symbol; a key keeps its place in
\* the order of the first document, and the new ones follow.
MergeTable(base, over) ==
    LET Same(row) == {i \in DOMAIN over : over[i].sym = row.sym}
        New == {i \in DOMAIN over : \A j \in DOMAIN base : base[j].sym # over[i].sym}
    IN [j \in DOMAIN base \cup {Len(base) + i : i \in New} |->
            CASE j \notin DOMAIN base -> over[j - Len(base)]
              [] j \in DOMAIN base /\ Same(base[j]) = {} -> base[j]
              [] OTHER -> [base[j] EXCEPT !.tfs =
                    MergeTfs(@, over[CHOOSE i \in Same(base[j]) : TRUE].tfs)]]

\* Of two mappings by pair the entries are merged too; what is one number or
\* a list replaces the other, and is replaced, whole.
MergeSingles(base, over) ==
    LET Mappings(k) == /\ k \in DOMAIN base \cap DOMAIN over \cap {"tf_max_rr", "htf_lookback"}
                       /\ Every \notin DOMAIN base[k] \cup DOMAIN over[k]
    IN [k \in DOMAIN base \cup DOMAIN over |->
            IF Mappings(k) THEN Over(over[k], base[k]) ELSE Over(over, base)[k]]

\* _resolve_broker_cfg: the broker's document wins on what it defines.
DeepMerge(base, over) ==
    [single |-> MergeSingles(base.single, over.single),
     rrr |-> MergeTable(base.rrr, over.rrr),
     overrides |-> MergeTable(base.overrides, over.overrides)]

Given(tfs) == {k \in DOMAIN tfs : tfs[k] # Nothing}

\* Empty entries and empty rows are left out; of two spellings of a symbol
\* the later row replaces the earlier one whole.
ParseTable(rows) ==
    LET Full == {i \in DOMAIN rows : Given(rows[i].tfs) # {}}
        Named(s) == {i \in Full : Strip[rows[i].sym] = s}
        Last(s) == CHOOSE i \in Named(s) : \A j \in Named(s) : j <= i
    IN [s \in {Strip[rows[i].sym] : i \in Full} |->
            [k \in Given(rows[Last(s)].tfs) |-> rows[Last(s)].tfs[k]]]

Single(doc, name) ==
    IF name \in DOMAIN doc.single THEN doc.single[name] ELSE Defaults[name]

Build(doc, creds) ==
    LET Value(name) == Single(doc, name)
    IN [min_rr |-> Value("min_rr"), max_rr |-> Value("max_rr"),
        tp1_trigger_pct |-> Value("tp1_trigger_pct"),
        tp1_close_pct |-> Value("tp1_close_pct"),
        move_sl_to_be_on_tp1 |->
            IF "move_sl_to_be_on_tp1" \in DOMAIN doc.single
            THEN doc.single["move_sl_to_be_on_tp1"] ELSE Value("use_breakeven"),
        tf_max_rr |-> Value("tf_max_rr"), htf_lookback |-> Value("htf_lookback"),
        pairs |-> Value("pairs"), max_signal_count |-> Value("max_signal_count"),
        apex_env |-> Value("apex_env"), apex_live_confirm |-> Value("apex_live_confirm"),
        max_spread_to_sl_ratio |-> Value("max_spread_to_sl_ratio"),
        entry_model |-> Value("entry_model"),
        symbol_rr_filter |-> ParseTable(doc.rrr),
        trade_management_tf_overrides |-> ParseTable(doc.overrides),
        aliases |-> creds.aliases, broker_time_offset |-> creds.offset]

-----------------------------------------------------------------------------
(***************************************************************************)
(* Settings.__post_init__                                                  *)
(***************************************************************************)
\* Each row of the overrides is tested as if it were an override itself: its
\* keys are timeframes, so a trigger in one of its entries is not looked at.
OverridesPass(table) ==
    \A s \in DOMAIN table :
        {"tp1_trigger_pct", "tp1_close_pct"} \cap DOMAIN table[s] = {}

Valid(s) ==
    /\ \A p \in s.pairs : Minutes[p][1] >= Minutes[p][2]
    /\ s.entry_model = "crt"
    /\ s.max_signal_count >= 1
    /\ s.max_spread_to_sl_ratio >= 0
    /\ s.apex_env \in {"paper", "live"}
    /\ s.apex_env = "live" => s.apex_live_confirm = "YES_I_ACCEPT_RISK"
    /\ s.tp1_trigger_pct \in 1..99
    /\ s.tp1_close_pct \in 0..100
    /\ OverridesPass(s.trade_management_tf_overrides)
    /\ LET filter == s.symbol_rr_filter
       IN \A sym \in DOMAIN filter : \A k \in DOMAIN filter[sym] :
            LET entry == filter[sym][k]
            IN /\ "min_rr" \in DOMAIN entry => entry["min_rr"] > 0
               /\ "max_rr" \in DOMAIN entry => entry["max_rr"] >= 0

Managed == {"tp1_trigger_pct", "tp1_close_pct", "move_sl_to_be_on_tp1"}

\* An override of anything else is refused by its parser.
Supported(rows) ==
    \A i \in DOMAIN rows : \A k \in DOMAIN rows[i].tfs :
        DOMAIN rows[i].tfs[k] \subseteq Managed

\* Settings.for_broker, and from_env with the environment's MT5_USE.
Load(base, over, creds) ==
    LET doc == DeepMerge(base, over)
        s == Build(doc, creds)
    IN IF Supported(doc.overrides) /\ Valid(s) THEN s ELSE Rejected

-----------------------------------------------------------------------------
(***************************************************************************)
(* AssetRegistry                                                           *)
(***************************************************************************)
\* normalize_symbol, of a spelling in capitals.
Normalize(symbol) ==
    IF Strip[symbol] \in DOMAIN AssetClass THEN Strip[symbol] ELSE symbol

ClassOf(symbol) ==
    IF symbol \in DOMAIN AssetClass THEN AssetClass[symbol] ELSE "FOREX"

ClassMaxRr == [c \in {"FOREX", "COMMODITY"} |-> IF c = "FOREX" THEN 25 ELSE 80]

\* Mutant: the timeframe is looked at before the symbol.
CandidatesTfFirst(symbol, pair) ==
    IF pair = NoPair THEN <<<<symbol, Star>>, <<Star, Star>>>>
    ELSE <<<<symbol, pair>>, <<Star, pair>>, <<symbol, Star>>, <<Star, Star>>>>

Candidates(symbol, pair) ==
    IF pair = NoPair THEN <<<<symbol, Star>>, <<Star, Star>>>>
    ELSE <<<<symbol, pair>>, <<symbol, Star>>, <<Star, pair>>, <<Star, Star>>>>

EntryAt(table, place) ==
    IF place[1] \in DOMAIN table /\ place[2] \in DOMAIN table[place[1]]
    THEN table[place[1]][place[2]] ELSE Nothing

\* The entry of the first candidate that gives one of the names, Nothing if
\* none does.
FirstEntry(table, symbol, pair, names) ==
    LET places == Candidates(symbol, pair)
        found == {i \in DOMAIN places : names \cap DOMAIN EntryAt(table, places[i]) # {}}
    IN IF found = {} THEN Nothing ELSE EntryAt(table, places[Min(found)])

\* _resolve_tf_trade_management: one entry, whole.
TradeManagement(s, symbol, pair) ==
    IF pair = NoPair THEN Nothing
    ELSE FirstEntry(s.trade_management_tf_overrides, symbol, pair, Managed)

\* _resolve_symbol_rr: each of the two bounds by itself.
SymbolRr(s, symbol, pair, name, current) ==
    LET entry == FirstEntry(s.symbol_rr_filter, symbol, pair, {name})
    IN IF entry = Nothing THEN current ELSE entry[name]

TfMaxRr(s, pair, fallback) ==
    IF pair # NoPair /\ pair \in DOMAIN s.tf_max_rr
    THEN s.tf_max_rr[pair] ELSE fallback

HtfLookback(s, pair) ==
    LET lb == s.htf_lookback
        places == <<Every, IF pair # NoPair THEN pair ELSE Star, Star>>
        given == {i \in DOMAIN places : places[i] \in DOMAIN lb}
    IN IF given = {} THEN 120 ELSE lb[places[Min(given)]]

Get(s, spelled, pair) ==
    LET symbol == Normalize(spelled)
        capped == TfMaxRr(s, pair, ClassMaxRr[ClassOf(symbol)])
        managed == Over(TradeManagement(s, symbol, pair), [name \in Managed |-> s[name]])
    IN [tp1_trigger_pct |-> managed["tp1_trigger_pct"],
        tp1_close_pct |-> managed["tp1_close_pct"],
        move_sl_to_be_on_tp1 |-> managed["move_sl_to_be_on_tp1"],
        min_rr |-> SymbolRr(s, symbol, pair, "min_rr", s.min_rr),
        max_rr |-> SymbolRr(s, symbol, pair, "max_rr", capped),
        htf_lookback |-> HtfLookback(s, pair)]
=============================================================================

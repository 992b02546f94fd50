----------------------------- MODULE MCDelivery ------------------------------
(***************************************************************************)
(* Three brokers that can see a setup of one symbol on two timeframe pairs *)
(* and a setup of another, that no client may subscribe to.  Many reports  *)
(* without clients; one signal, of any broker, for two clients; a signal   *)
(* and an event for two clients; two signals and an event for one.         *)
(***************************************************************************)
EXTENDS Delivery

Gold(pair) == [symbol |-> "XAU", setup |-> 1, pair |-> pair]
Bitcoin == [symbol |-> "BTC", setup |-> 1, pair |-> "M5"]

MCSignals == {Gold("M5"), Gold("M15"), Bitcoin}

MCLimits ==
    LET one == CHOOSE b \in Brokers : TRUE
        any == MCSignals \X Brokers
    IN  {[clients |-> 0, reports |-> 3, events |-> 0, triggers |-> any],
         [clients |-> 1, reports |-> 2, events |-> 0, triggers |-> {Gold("M5"), Bitcoin} \X {one}],
         [clients |-> 2, reports |-> 1, events |-> 1, triggers |-> {<<Gold("M5"), one>>}]}
==============================================================================

--------------------------- MODULE MCLiveTracking ----------------------------
(***************************************************************************)
(* Four candles after the setup candle and an expiry of three: enough for  *)
(* TP1, a touch of entry before it and after it, a tick between any two of *)
(* them, and an expiry in either open status.                              *)
(***************************************************************************)
EXTENDS LiveTracking
==============================================================================

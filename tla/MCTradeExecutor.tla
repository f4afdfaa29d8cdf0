--------------------------- MODULE MCTradeExecutor ---------------------------
(* TradeExecutor for TLC. *)
EXTENDS TradeExecutor, TLC

CONSTANTS e1, e2, e3

TwoRuns   == {e1, e2}
ThreeRuns == {e1, e2, e3}
=============================================================================

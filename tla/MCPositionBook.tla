--------------------------- MODULE MCPositionBook ---------------------------
(* PositionBook for TLC. *)
EXTENDS PositionBook

CONSTANTS p1, cron, ondemand, c1, c2

OnePosition  == {p1}
JustCron     == {cron}
BothSweeps   == {cron, ondemand}
OneCloser    == {c1}
TwoClosers   == {c1, c2}
TakeProfit   == {"take_profit"}
=============================================================================

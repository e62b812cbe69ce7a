--------------------------- MODULE MCRiskManager ---------------------------
(* Small instances of the risk manager: equities 5 and more percent apart,    *)
(* trips that lose 2 or win 1, so two losses stop the day.                    *)
EXTENDS RiskManager

MCEquities == {0, 94, 100}
MCPnls == {-3, 0, 3}
=============================================================================

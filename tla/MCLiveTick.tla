----------------------------- MODULE MCLiveTick -----------------------------
(* Small deviations around the threshold, one past the stop, and ticks one or *)
(* two units apart.                                                           *)
EXTENDS LiveTick

MCQty == {1}
MCExitReason == {"ForceClose", "MeanCross", "MaxHold"}
MCEmergencyReason == {"ExtendedEntryFailed", "LighterEntryFailed", "WsStale", "SkewBreach",
                      "SessionDdHalted", "LegMismatchTimeout"}
Devn(n) == [num |-> n, den |-> 1]
MCDevs == {Devn(0), Devn(3), Devn(-3)}
MCCaps == {[long |-> 3, short |-> -5]}
MCModes == {"mid", "touch"}
MCBooks == {{"ext", "lt"}, {}}
MCRefs == {{}, {{}}, {{"ext"}}}
MCGaps == {1, 2}
=============================================================================

---------------------------- MODULE MCLiveRunner ----------------------------
(* Small instances of the live runner.                                        *)
EXTENDS LiveRunner

OneLot == {1}
ThreeLots == {3}
MinLots == [l \in Leg |-> IF l = "ext" THEN 1 ELSE 2]
MCExitReason == {"MeanCross"}
MCEmergencyReason ==
    {"ExtendedEntryFailed", "LighterEntryFailed", "LegMismatchTimeout", "SkewBreach",
     "SessionDdHalted"}
=============================================================================

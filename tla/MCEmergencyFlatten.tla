------------------------- MODULE MCEmergencyFlatten -------------------------
(* Small instances of the emergency flatten.                                  *)
EXTENDS EmergencyFlatten

MCQty == 1..2
MCExitReason == {"MeanCross"}
MCEmergencyReason == {"ExtendedEntryFailed", "LighterEntryFailed", "SkewBreach"}
=============================================================================

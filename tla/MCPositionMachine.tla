-------------------------- MODULE MCPositionMachine --------------------------
(* Every event order on a machine with quantities 1..3: fills smaller than,   *)
(* equal to and larger than what is recorded all occur.                       *)
EXTENDS PositionMachine

MCQty == 1..3
MCExitReason == {"MeanCross", "MaxHold"}
MCEmergencyReason ==
    {"ExtendedEntryFailed", "LighterEntryFailed", "LegMismatchTimeout", "SkewBreach"}
=============================================================================

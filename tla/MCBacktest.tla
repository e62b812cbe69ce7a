----------------------------- MODULE MCBacktest -----------------------------
(* Short dumps whose Extended mid moves by one or two steps of ten basis      *)
(* points against a Lighter mid that stands still; Extended may miss a book.    *)
EXTENDS Backtest

MCMids == [v \in {"ext", "lt"} |-> IF v = "ext" THEN {0, 10000, 10010, 10020, 10050} ELSE {10000}]
\* Below, at and above the sizes of the books.
MCQty == {1, 5}
MCExitReason == {"ForceClose", "MeanCross", "MaxHold"}
MCEmergencyReason == {"ExtendedEntryFailed", "LighterEntryFailed"}
MCLengths == {3, 4}
Cap == {25}
\* Two usable books of different depth, a thin one, and a phantom one.
MCBooks == {[mid |-> 10000, bid |-> 9999, ask |-> 10001, bidSize |-> 1, askSize |-> 3],
            [mid |-> 10020, bid |-> 10010, ask |-> 10030, bidSize |-> 3, askSize |-> 2],
            [mid |-> 9990, bid |-> 9989, ask |-> 9991, bidSize |-> 1, askSize |-> 1],
            [mid |-> 10000, bid |-> 9000, ask |-> 11000, bidSize |-> 1, askSize |-> 1]}
=============================================================================

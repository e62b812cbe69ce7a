--------------------------- MODULE MCErrorDeferral ---------------------------
(* Two threads, windows of a few seconds and calls that may take one. *)
EXTENDS ErrorDeferral, TLC

CONSTANTS tick, ws
MCThreads == {tick, ws}
MCSymmetry == Permutations(MCThreads)
=============================================================================

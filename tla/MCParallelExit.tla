-------------------------- MODULE MCParallelExit --------------------------
(* Small instances of a leg, alone in an entry or one of two in an exit.      *)
EXTENDS ParallelExit

MCTarget == {2}
=============================================================================

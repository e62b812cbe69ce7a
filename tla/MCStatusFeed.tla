---------------------------- MODULE MCStatusFeed ----------------------------
(* Two balances a venue, two days and two restarts. *)
EXTENDS StatusFeed

MCBalances == {1, 3}
=============================================================================

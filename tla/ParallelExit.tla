---------------------------- MODULE ParallelExit ----------------------------
(***************************************************************************)
(* A leg under the coordinator of an exit (parallel_exit.rs): both legs run *)
(* at once, and the first to terminate starts a deadline for the second,    *)
(* which is dropped when it has not terminated by then.  One leg is the     *)
(* loop of LegExecutor; of the other only its end is modelled.  An entry    *)
(* awaits its legs one after the other, without a deadline.                 *)
(***************************************************************************)
EXTENDS LegExecutor

CONSTANT Mismatch       \* leg_mismatch_timeout_ms

ASSUME ExitAssumption == Mismatch \in Nat \ {0} /\ None \notin Nat

VARIABLES
    other,      \* the other leg: "running", "done", or "none" in an entry
    since,      \* time since the other leg terminated before this one, or None
    outcome     \* ParallelExitOutcome, "pending" until the exit ends

exitVars == <<legVars, other, since, outcome>>

ExitInit ==
    /\ LegInit
    /\ other = IF req.reduceOnly THEN "running" ELSE "none"
    /\ since = None /\ outcome = "pending"

\* The coordinator polls this leg.
LegRuns ==
    /\ Loop /\ outcome = "pending"
    /\ outcome' = IF pc' = "done" /\ other = "done" THEN "Both" ELSE "pending"
    /\ UNCHANGED <<other, since>>

OtherEnds ==
    /\ other = "running" /\ outcome = "pending"
    /\ other' = "done"
    /\ IF pc = "done" THEN outcome' = "Both" /\ UNCHANGED since
                      ELSE since' = 0 /\ UNCHANGED outcome
    /\ UNCHANGED legVars

\* Mutant: the deadline is one interval early.
EarlyDeadline == since \in Nat /\ since >= Mismatch - 1

DeadlinePassed == since = Mismatch

\* The loop goes no further, wherever it waits.  Its order, if it has one, stays
\* on the venue; one it was just placing may still get there, which is left to
\* LiveRunner (orphans): nothing here is asked of the venue after a drop.
LegDropped ==
    /\ DeadlinePassed /\ outcome = "pending" /\ pc # "done"
    /\ outcome' = "LegMismatchTimeout"
    /\ UNCHANGED <<legVars, other, since>>

OtherDropped ==
    /\ pc = "done" /\ other = "running" /\ outcome = "pending"
    /\ outcome' = "LegMismatchTimeout"
    /\ UNCHANGED <<legVars, other, since>>

\* A leg that ends at the deadline still counts: `timeout` polls it first.
LegWaits ==
    /\ Tick /\ outcome = "pending" /\ since # Mismatch
    /\ since' = IF since = None THEN None ELSE since + 1
    /\ UNCHANGED <<other, outcome>>

VenueActs == Venue /\ UNCHANGED <<other, since, outcome>>

ExitNext == LegRuns \/ OtherEnds \/ LegDropped \/ OtherDropped \/ LegWaits \/ VenueActs

ExitSpec == ExitInit /\ [][ExitNext]_exitVars

\* The task is polled, the clock advances, and the venue's updates arrive; the
\* other leg returns, as a leg that is awaited alone does.
ExitFairSpec ==
    /\ ExitSpec
    /\ WF_exitVars(LegRuns) /\ WF_exitVars(LegWaits) /\ WF_exitVars(LegDropped)
    /\ WF_exitVars(OtherEnds)
    /\ WF_exitVars(VenueActs /\ Show)
    /\ WF_exitVars(VenueActs /\ kind = "taker" /\ Expire)

(***************************************************************************)
(* Properties.                                                              *)
(***************************************************************************)
\* Every variable of the leg and of the coordinator has its type.
ExitTypeOK ==
    /\ LegTypeOK
    /\ other \in {"none", "running", "done"}
    /\ since \in (0..Mismatch) \cup {None}
    /\ outcome \in {"pending", "Both", "LegMismatchTimeout"}

\* The deadline fires on a leg that is still chasing, and leaves its order
\* working, only when the leg's rounds and graces together with the time the
\* venue took to answer its calls reach leg_mismatch_timeout_ms.  So "firing on
\* healthy fills" (parallel_exit.rs:55-57) needs a deadline within the budget or
\* a venue as slow as what the deadline leaves over it.
CoveredLegReturns ==
    outcome = "LegMismatchTimeout" /\ pc # "done" => Budget + awaited >= Mismatch

\* Every entry's leg returns, and every exit ends with both terminals or at the
\* deadline.
ExitReturns == <>(outcome # "pending" \/ (other = "none" /\ pc = "done"))
=============================================================================

----------------------------- MODULE RoundTrip -----------------------------
(***************************************************************************)
(* What the bot promises about one cross-venue round trip, apart from how   *)
(* its position machine keeps track of it: the legs open one after the      *)
(* other, the recorded exposure only shrinks once closing has begun, and    *)
(* the books are cleared only when nothing was opened, when both legs have  *)
(* drained, or when the venues have been read flat.                         *)
(***************************************************************************)
EXTENDS Integers

CONSTANTS
    Leg,        \* the two venues of a trip
    First,      \* the leg that is opened first, one of Leg
    Qty         \* positive quantities a leg may be opened with

VARIABLES
    stage,      \* where the trip is
    exposure    \* recorded open quantity of every leg

rtVars == <<stage, exposure>>

Stage == {"idle", "opening", "open", "closing", "unwinding"}
Nothing == [l \in Leg |-> 0]

RTInit == stage = "idle" /\ exposure = Nothing

Begin == stage = "idle" /\ stage' = "opening" /\ exposure' = Nothing

\* The first leg fills while nothing is open yet.
OpenFirst(q) ==
    /\ stage = "opening" /\ exposure = Nothing
    /\ exposure' = [Nothing EXCEPT ![First] = q]
    /\ UNCHANGED stage

\* The other leg fills on top of an open first leg: the trip is hedged.
OpenSecond(l, q) ==
    /\ stage = "opening" /\ l # First
    /\ exposure[First] > 0 /\ exposure[l] = 0
    /\ stage' = "open"
    /\ exposure' = [exposure EXCEPT ![l] = q]

\* A trip may be dropped only while nothing has been opened.
Abandon ==
    /\ stage = "opening" /\ exposure = Nothing
    /\ stage' = "idle" /\ UNCHANGED exposure

StartClosing == stage = "open" /\ stage' = "closing" /\ UNCHANGED exposure

StartUnwinding ==
    /\ stage \in {"opening", "open", "closing"}
    /\ stage' = "unwinding" /\ UNCHANGED exposure

\* While closing, one leg shrinks; the trip is over exactly when both are gone.
Shrink(l) ==
    /\ stage \in {"closing", "unwinding"}
    /\ exposure' \in [Leg -> Nat]
    /\ exposure'[l] <= exposure[l]
    /\ \A k \in Leg \ {l} : exposure'[k] = exposure[k]
    /\ stage' = IF stage = "closing" /\ exposure' = Nothing THEN "idle" ELSE stage

\* An unwinding ends only by an explicit confirmation that the venues are flat.
Confirm == stage = "unwinding" /\ stage' = "idle" /\ exposure' = Nothing

RTNext ==
    \/ Begin \/ Abandon \/ StartClosing \/ StartUnwinding \/ Confirm
    \/ \E q \in Qty : OpenFirst(q) \/ \E l \in Leg : OpenSecond(l, q)
    \/ \E l \in Leg : Shrink(l)

RTSpec == RTInit /\ [][RTNext]_rtVars
=============================================================================

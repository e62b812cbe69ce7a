------------------------------ MODULE Strategy ------------------------------
(***************************************************************************)
(* What the strategy promises about one symbol pair, whoever drives it and  *)
(* however a trip is carried out: a trip is opened only from flat, on a     *)
(* breach of the threshold that nothing seen for Persist has interrupted,   *)
(* and once it has been held for MaxHold the next look at the market ends   *)
(* it.                                                                      *)
(***************************************************************************)
EXTENDS Integers

CONSTANTS
    Dir,        \* directions of a trip
    Persist,    \* how long a breach has to last
    MaxHold,    \* how long a trip may be held
    Strict      \* the sample a trip is opened on has to breach as well

VARIABLES
    stage,      \* "flat", "held", or "closing" while a trip is unwound
    since,      \* the look the trip was opened at
    seen,       \* the last look
    runs        \* for a direction, the look its unbroken run of breaches
                \* began at, an option

stVars == <<stage, since, seen, runs>>

StInit ==
    /\ stage = "flat" /\ since = 0 /\ seen \in Nat
    /\ runs = [d \in Dir |-> {}]

\* A look at the market, at seen': the directions in B are breached.
Look(B) ==
    /\ seen' \in Nat /\ seen' >= seen
    /\ runs' = [d \in Dir |-> IF d \notin B THEN {} ELSE
                             IF runs[d] = {} THEN {seen'} ELSE runs[d]]

Stay ==
    /\ \E B \in SUBSET Dir : Look(B)
    /\ stage = "held" => seen' - since < MaxHold
    /\ UNCHANGED <<stage, since>>

Open(d) ==
    /\ stage = "flat" /\ stage' \in {"held", "closing"}
    /\ \E B \in SUBSET Dir : Look(B)
    /\ \E t \in IF Strict THEN runs'[d] ELSE runs[d] \cup runs'[d] : seen' - t >= Persist
    /\ since' = IF stage' = "held" THEN seen' ELSE 0

Close ==
    /\ stage \in {"held", "closing"} /\ stage' \in {"flat", "closing"}
    /\ \E B \in SUBSET Dir : Look(B)
    /\ since' = 0

StNext == Stay \/ Close \/ \E d \in Dir : Open(d)

StSpec == StInit /\ [][StNext]_stVars
=============================================================================

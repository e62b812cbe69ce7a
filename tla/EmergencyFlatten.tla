-------------------------- MODULE EmergencyFlatten --------------------------
(***************************************************************************)
(* The emergency flatten of src/src/xvenue/live.rs: once per runner tick    *)
(* handle_emergency_flatten_tick drives at most one round, which reads both *)
(* legs from the connectors' WS-fed position cache, sends reduce-only       *)
(* closes for the legs that look open, and declares EmergencyComplete after *)
(* a grace of zero reads.  The kill switch counts rejected closes.          *)
(*                                                                          *)
(* The venues are modelled with the two lags the code is written against    *)
(* (bot-strategy#287, #428): the position cache may trail the venue, and an *)
(* entry order reported unfilled may still fill.  Time is counted in units; *)
(* an elapsed time is kept only up to the threshold it is compared with.    *)
(***************************************************************************)
EXTENDS PositionMachine

CONSTANTS
    Interval,       \* retry_interval_ms
    MaxAttempts,    \* max_attempts
    Grace,          \* complete_grace_ms
    Kill,           \* reduce_only_consec_fail_to_kill
    Lag,            \* longest time the position cache trails the venue
    LateBy,         \* longest time after LighterFailed that its order may fill
    MaxFaults,      \* bound: failed reads, rejected closes and unfilled closes
    Operator,       \* the operator arms and clears the STUCK file
    DiskMayFail     \* writing the STUCK file may fail

ASSUME FlattenAssumption ==
    /\ Interval \in Nat \ {0} /\ MaxAttempts \in Nat \ {0}
    /\ Grace \in Nat /\ Kill \in Nat \ {0} /\ Lag \in Nat /\ LateBy \in Nat
    /\ MaxFaults \in Nat /\ Operator \in BOOLEAN /\ DiskMayFail \in BOOLEAN
    /\ "SkewBreach" \in EmergencyReason

VARIABLES
    arm,            \* which half of the tick runs next: "strategy" or "flatten"
    \* the runner's throttle state
    attempts,       \* emergency_attempts
    sinceAttempt,   \* time since last_emergency_attempt_ms; Interval if None
    zeroFor,        \* time since first_emergency_zero_ms; Never if None
    \* the kill switch
    stuck,          \* the STUCK file exists
    fails,          \* reduce_only_consec_fail, counted up to Kill
    \* the venues
    venue,          \* open size of every leg
    cache,          \* what get_positions answers
    stale,          \* for how long the cache has been wrong
    closing,        \* legs with an accepted close in flight
    late,           \* Lighter entry size reported unfilled and still working
    sinceFailed,    \* time since that report, while the order works
    faults          \* faults so far

throttle == <<attempts, sinceAttempt, zeroFor>>
switch   == <<stuck, fails>>
market   == <<venue, cache, stale, closing, late, sinceFailed>>
flattenVars == <<machine, arm, throttle, switch, market, faults>>

Never == -1
Zero == [l \in Leg |-> 0]
Least(a, b) == IF a < b THEN a ELSE b
InEmergency == machine.phase = "EmergencyFlattening"

FlattenInit ==
    /\ MachineInit
    /\ arm = "strategy"
    /\ attempts = 0 /\ sinceAttempt = Interval /\ zeroFor = Never
    /\ stuck = FALSE /\ fails = 0
    /\ venue = Zero /\ cache = Zero /\ stale = Zero
    /\ closing = {} /\ late = 0 /\ sinceFailed = 0
    /\ faults = 0

(***************************************************************************)
(* The venues and the clock.                                                *)
(***************************************************************************)
\* The venue moves to v; a leg the cache had right starts being wrong only now.
VenueMoves(v) ==
    /\ venue' = v
    /\ stale' = [l \in Leg |-> IF cache[l] = venue[l] THEN 0 ELSE stale[l]]

Refresh(l) ==
    /\ cache[l] # venue[l]
    /\ cache' = [cache EXCEPT ![l] = venue[l]]
    /\ stale' = [stale EXCEPT ![l] = 0]
    /\ UNCHANGED <<machine, arm, throttle, switch, venue, closing, late, sinceFailed, faults>>

\* A close is an IOC order: it takes the leg to r, usually zero, and is gone.
CloseFills(l, r) ==
    /\ l \in closing /\ r <= venue[l]
    /\ faults' = IF r = 0 THEN faults ELSE faults + 1
    /\ faults' <= MaxFaults
    /\ VenueMoves([venue EXCEPT ![l] = r])
    /\ closing' = closing \ {l}
    /\ UNCHANGED <<machine, arm, throttle, switch, cache, late, sinceFailed>>

\* The entry order the taker round gave up on fills after all, or dies.
LateFill ==
    /\ late > 0
    /\ VenueMoves([venue EXCEPT !["lt"] = @ + late])
    /\ late' = 0 /\ sinceFailed' = 0
    /\ UNCHANGED <<machine, arm, throttle, switch, cache, closing, faults>>

LateDies ==
    /\ late > 0 /\ late' = 0 /\ sinceFailed' = 0
    /\ UNCHANGED <<machine, arm, throttle, switch, venue, cache, stale, closing, faults>>

\* Time passes; the lags keep their bounds and IOC orders end within a unit.
Tick ==
    /\ closing = {}
    /\ late > 0 => sinceFailed < LateBy
    /\ \A l \in Leg : cache[l] # venue[l] => stale[l] < Lag
    /\ stale' = [l \in Leg |-> IF cache[l] = venue[l] THEN 0 ELSE stale[l] + 1]
    /\ sinceFailed' = IF late > 0 THEN sinceFailed + 1 ELSE 0
    /\ sinceAttempt' = Least(sinceAttempt + 1, Interval)
    /\ zeroFor' = IF zeroFor = Never THEN Never ELSE Least(zeroFor + 1, Grace)
    /\ UNCHANGED <<machine, arm, attempts, switch, venue, cache, closing, late, faults>>

Market ==
    \/ \E l \in Leg : Refresh(l)
    \/ \E l \in Leg : \E r \in 0..venue[l] : CloseFills(l, r)
    \/ LateFill \/ LateDies

(***************************************************************************)
(* The kill switch.                                                         *)
(***************************************************************************)

\* poll_sigusr1 arms; the operator removes the file once done.
OperatorArms ==
    /\ Operator /\ ~stuck /\ stuck' = TRUE
    /\ UNCHANGED <<machine, arm, throttle, fails, market, faults>>

OperatorClears ==
    /\ Operator /\ stuck /\ stuck' = FALSE
    /\ UNCHANGED <<machine, arm, throttle, fails, market, faults>>

(***************************************************************************)
(* The strategy half of the tick, as far as emergencies see it.             *)
(***************************************************************************)
Entered(q) == Apply(Apply(machine, EntrySignal), ExtendedFilled(q))

\* Entry: the Extended leg fills, the Lighter order reports no fill and w of
\* it is still working.
EntryFails(q, w) ==
    /\ machine.phase = "Flat" /\ ~stuck
    /\ machine' = Apply(Entered(q), LighterFailed)
    /\ VenueMoves([venue EXCEPT !["ext"] = @ + q])
    /\ late' = late + w /\ sinceFailed' = 0
    /\ UNCHANGED <<cache, closing>>

EntrySucceeds(q) ==
    /\ machine.phase = "Flat" /\ ~stuck
    /\ machine' = Apply(Entered(q), LighterFilled(q))
    /\ VenueMoves([l \in Leg |-> venue[l] + q])
    /\ UNCHANGED <<cache, closing, late, sinceFailed>>

Breach ==
    /\ machine.phase = "Held"
    /\ machine' = Apply(machine, Emergency("SkewBreach"))
    /\ UNCHANGED market

NoTrade == UNCHANGED <<machine, market>>

Strategy ==
    /\ arm = "strategy" /\ arm' = "flatten"
    /\ \/ \E q \in Qty : \E w \in 0..q : EntryFails(q, w)
       \/ \E q \in Qty : EntrySucceeds(q)
       \/ Breach
       \/ NoTrade
    /\ UNCHANGED <<throttle, switch, faults>>

(***************************************************************************)
(* handle_emergency_flatten_tick.                                           *)
(***************************************************************************)
HandlerRuns == arm = "flatten" /\ arm' = "strategy"

\* Any other phase resets the throttle for the next emergency.
NotFlattening ==
    /\ HandlerRuns /\ ~InEmergency
    /\ attempts' = 0 /\ sinceAttempt' = Interval /\ zeroFor' = Never
    /\ UNCHANGED <<machine, switch, market, faults>>

\* Mutant: the cap is off by one.
DueAtCap == sinceAttempt >= Interval /\ attempts <= MaxAttempts /\ ~stuck

Due == sinceAttempt >= Interval /\ attempts < MaxAttempts /\ ~stuck

\* Throttled, past the cap, or halted by the STUCK file.
Waits ==
    /\ HandlerRuns /\ InEmergency /\ ~Due
    /\ UNCHANGED <<machine, throttle, switch, market, faults>>

\* A round counts as an attempt whatever it does.
Round == HandlerRuns /\ InEmergency /\ Due /\ attempts' = attempts + 1

ReadFails ==
    /\ Round
    /\ faults < MaxFaults /\ faults' = faults + 1
    /\ sinceAttempt' = 0
    /\ UNCHANGED <<machine, zeroFor, switch, market>>

BothZero == cache = Zero

\* Mutant: every zero read starts the grace anew.
GraceRestarts ==
    /\ Round /\ BothZero
    /\ Grace > 0 /\ zeroFor < Grace
    /\ zeroFor' = 0 /\ sinceAttempt' = 0
    /\ UNCHANGED <<machine, switch, market, faults>>

\* A zero read starts the grace, or waits inside it.
ZeroRead ==
    /\ Round /\ BothZero
    /\ Grace > 0 /\ zeroFor < Grace
    /\ zeroFor' = IF zeroFor = Never THEN 0 ELSE zeroFor
    /\ sinceAttempt' = 0
    /\ UNCHANGED <<machine, switch, market, faults>>

\* Mutant: a second zero read completes, however soon it comes.
CompletesOnSecondZero ==
    /\ Round /\ BothZero
    /\ Grace = 0 \/ zeroFor # Never
    /\ machine' = Apply(machine, EmergencyComplete)
    /\ zeroFor' = Never
    /\ UNCHANGED <<sinceAttempt, switch, market, faults>>

Completes ==
    /\ Round /\ BothZero
    /\ Grace = 0 \/ zeroFor >= Grace
    /\ machine' = Apply(machine, EmergencyComplete)
    /\ zeroFor' = Never
    /\ UNCHANGED <<sinceAttempt, switch, market, faults>>

(***************************************************************************)
(* The closes of a round, Extended before Lighter.  One counter serves both *)
(* venues: a success clears it, a rejection raises it, and the rejection    *)
(* that reaches Kill arms STUCK and ends the round.                         *)
(***************************************************************************)
Asked == {l \in Leg : cache[l] > 0}

Counted(f, l, rejected) ==
    IF l \notin Asked THEN f
    ELSE IF l \in rejected THEN Least(f + 1, Kill) ELSE 0

ArmedBy(f, l, rejected) == l \in Asked \cap rejected /\ Counted(f, l, rejected) >= Kill

ArmStuck(armed) == IF armed /\ DiskMayFail THEN stuck' \in {stuck, TRUE}
                                           ELSE stuck' = (stuck \/ armed)

CloseRound(rejected) ==
    LET afterExt == Counted(fails, "ext", rejected)
        halted   == ArmedBy(fails, "ext", rejected)
        afterLt  == IF halted THEN afterExt ELSE Counted(afterExt, "lt", rejected)
        armed    == halted \/ ArmedBy(afterExt, "lt", rejected)
        tried    == IF halted THEN Asked \ {"lt"} ELSE Asked
    IN
    /\ Round /\ ~BothZero
    /\ rejected \subseteq tried
    /\ fails' = afterLt
    /\ ArmStuck(armed)
    /\ closing' = closing \cup (tried \ rejected)
    /\ faults' = IF rejected = {} THEN faults ELSE faults + 1
    /\ faults' <= MaxFaults
    /\ zeroFor' = Never /\ sinceAttempt' = 0
    /\ UNCHANGED <<machine, venue, cache, stale, late, sinceFailed>>

Handler ==
    \/ NotFlattening \/ Waits \/ ReadFails \/ ZeroRead \/ Completes
    \/ \E rejected \in SUBSET Leg : CloseRound(rejected)

FlattenNext == Strategy \/ Handler \/ Market \/ Tick \/ OperatorArms \/ OperatorClears

FlattenSpec == FlattenInit /\ [][FlattenNext]_flattenVars

\* The runner keeps ticking, the clock advances and the venues answer.
FlattenFairness ==
    /\ WF_flattenVars(Strategy) /\ WF_flattenVars(Handler)
    /\ WF_flattenVars(Market)   /\ WF_flattenVars(Tick)

FlattenFairSpec == FlattenSpec /\ FlattenFairness

(***************************************************************************)
(* Properties.                                                              *)
(***************************************************************************)

\* Every variable has its type; attempts never pass the cap.
FlattenTypeOK ==
    /\ machine \in Machine
    /\ arm \in {"strategy", "flatten"}
    /\ attempts \in 0..MaxAttempts
    /\ sinceAttempt \in 0..Interval
    /\ zeroFor \in {Never} \cup 0..Grace
    /\ stuck \in BOOLEAN
    /\ fails \in 0..Kill
    /\ venue \in [Leg -> Nat] /\ cache \in [Leg -> Nat] /\ stale \in [Leg -> 0..Lag]
    /\ closing \in SUBSET Leg
    /\ late \in Nat /\ sinceFailed \in 0..LateBy
    /\ faults \in 0..MaxFaults

\* The point of the grace (#287): when the runner takes the books to Flat, no
\* leg is open on a venue and no entry order can still open one, although
\* every read may be stale and an order reported unfilled may have filled.
VerifiedFlat == machine.phase = "Flat" => venue = Zero /\ late = 0

\* An emergency that starts fresh ends in Flat unless STUCK halts it, whatever
\* faults the budget allows: with a cap that leaves the grace enough rounds, no
\* fault makes it run out of attempts.
FreshEmergencyFlattens == (InEmergency /\ attempts = 0) ~> ~InEmergency \/ stuck
=============================================================================

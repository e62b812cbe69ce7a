-------------------------- MODULE LiveRunnerProofs --------------------------
(***************************************************************************)
(* Theorems about the emergency flatten and about the live runner that      *)
(* drives it, for every quantity, floor, interval, cap, grace, threshold,   *)
(* lag and bound.  The flatten: its types, and that a grace longer than the *)
(* two lags together never lets the runner declare an open leg flat.  The   *)
(* runner: its types, that a trip is booked exactly once and with its       *)
(* context, that an emergency books all that was on the venues, and how     *)
(* little a runner that is flat has forgotten there.                        *)
(***************************************************************************)
EXTENDS LiveRunner, PositionMachineProofs, FiniteSetTheorems

\* The machine under the flatten is sound and in one of its three phases.
MachineOK ==
    /\ Sound(machine)
    /\ machine.phase \in {"Flat", "Held", "EmergencyFlattening"}

\* The rest of the type invariant.
VenueOK ==
    /\ venue \in [Leg -> Nat] /\ cache \in [Leg -> Nat] /\ stale \in [Leg -> 0..Lag]
    /\ late \in Nat /\ sinceFailed \in 0..LateBy

ThrottleOK ==
    /\ attempts \in 0..MaxAttempts
    /\ sinceAttempt \in 0..Interval
    /\ zeroFor \in {Never} \cup 0..Grace

SwitchOK ==
    /\ arm \in {"strategy", "flatten"}
    /\ stuck \in BOOLEAN /\ fails \in 0..Kill
    /\ closing \in SUBSET Leg
    /\ faults \in 0..MaxFaults

\* An event the runner applies to a sound machine leaves it sound.
LEMMA RunnerApply ==
    ASSUME NEW m, Sound(m), NEW e \in RunnerEvent
    PROVE  Sound(Apply(m, e))
BY ApplyKeepsSound DEF RunnerEvent

\* A failed or successful entry takes a flat machine to EmergencyFlattening or
\* Held in one handler.
LEMMA EntryPhases ==
    ASSUME Sound(machine), machine.phase = "Flat", NEW q \in Qty
    PROVE  /\ Sound(Entered(q)) /\ Entered(q).phase = "EnteringLighter"
           /\ Sound(Apply(Entered(q), LighterFailed))
           /\ Apply(Entered(q), LighterFailed).phase = "EmergencyFlattening"
           /\ Sound(Apply(Entered(q), LighterFilled(q)))
           /\ Apply(Entered(q), LighterFilled(q)).phase = "Held"
<1>1. Apply(machine, EntrySignal).phase = "EnteringExtended" /\ Sound(Apply(machine, EntrySignal))
  BY ConstructorsAreEvents, RunnerApply DEF EventConstructors, Apply, EntrySignal, Accepts, At
<1>2. Sound(Entered(q)) /\ Entered(q).phase = "EnteringLighter"
  <2>. DEFINE m == Apply(machine, EntrySignal)
  <2>1. Sound(Apply(m, ExtendedFilled(q)))
    BY <1>1, ConstructorsAreEvents, RunnerApply DEF EventConstructors
  <2>. HIDE DEF m
  <2>2. ASSUME m.phase = "EnteringExtended" PROVE Apply(m, ExtendedFilled(q)).phase = "EnteringLighter"
    BY <2>2 DEF Apply, ExtendedFilled, OnExtendedFilled, Accepts, At
  <2>. QED BY <1>1, <2>1, <2>2 DEF m, Entered
<1>3. /\ Sound(Apply(Entered(q), LighterFailed))
      /\ Apply(Entered(q), LighterFailed).phase = "EmergencyFlattening"
  <2>1. Sound(Apply(Entered(q), LighterFailed))
    BY <1>2, ConstructorsAreEvents, RunnerApply DEF EventConstructors
  <2>2. Apply(Entered(q), LighterFailed) = Flattening(Entered(q).position, "LighterEntryFailed")
    BY <1>2 DEF Apply, LighterFailed, Accepts
  <2>. QED BY <2>1, <2>2 DEF Flattening, At
<1>4. /\ Sound(Apply(Entered(q), LighterFilled(q)))
      /\ Apply(Entered(q), LighterFilled(q)).phase = "Held"
  BY <1>2, ConstructorsAreEvents, RunnerApply
     DEF EventConstructors, Apply, LighterFilled, OnLighterFilled, Accepts, At
<1>. QED BY <1>2, <1>3, <1>4

\* A held machine breaches into EmergencyFlattening, which completes to Flat.
LEMMA BreachPhase ==
    ASSUME Sound(machine), machine.phase = "Held"
    PROVE  /\ Sound(Apply(machine, Emergency("SkewBreach")))
           /\ Apply(machine, Emergency("SkewBreach")).phase = "EmergencyFlattening"
BY FlattenAssumption, ConstructorsAreEvents, RunnerApply
   DEF EventConstructors, Apply, Emergency, Flattening, Accepts, At

\* EmergencyComplete takes the books to Flat.
LEMMA CompletePhase ==
    ASSUME Sound(machine), machine.phase = "EmergencyFlattening"
    PROVE  Apply(machine, EmergencyComplete) = Flat /\ Sound(Flat)
BY ConstructorsAreEvents, RunnerApply DEF EventConstructors, Apply, EmergencyComplete, Accepts

\* A leg that moves on the venue keeps its type, and so does its staleness.
LEMMA VenueMovesType ==
    ASSUME VenueOK, NEW v \in [Leg -> Nat], VenueMoves(v)
    PROVE  venue' \in [Leg -> Nat] /\ stale' \in [Leg -> 0..Lag]
BY FlattenAssumption DEF VenueOK, VenueMoves

\* The machine stays sound through every step of the flatten.
LEMMA MachineStep ==
    ASSUME MachineOK, FlattenNext PROVE MachineOK'
<1>1. ASSUME NEW q \in Qty, NEW w \in 0..q, EntryFails(q, w) PROVE MachineOK'
  BY <1>1, EntryPhases DEF EntryFails, MachineOK
<1>2. ASSUME NEW q \in Qty, EntrySucceeds(q) PROVE MachineOK'
  BY <1>2, EntryPhases DEF EntrySucceeds, MachineOK
<1>3. CASE Breach
  BY <1>3, BreachPhase DEF Breach, MachineOK
<1>4. CASE Completes
  BY <1>4, CompletePhase DEF Completes, Round, InEmergency, MachineOK, Flat
<1>5. CASE UNCHANGED machine
  BY <1>5 DEF MachineOK
<1>6. CASE Market
  BY <1>5, <1>6 DEF Market, Refresh, CloseFills, LateFill, LateDies
<1>7. CASE Handler /\ ~Completes
  BY <1>5, <1>7
     DEF Handler, NotFlattening, Waits, ReadFails, ZeroRead, CloseRound
<1>8. CASE Tick \/ OperatorArms \/ OperatorClears
  BY <1>5, <1>8 DEF Tick, OperatorArms, OperatorClears
<1>9. CASE Strategy
  BY <1>1, <1>2, <1>3, <1>5, <1>9 DEF Strategy, NoTrade
<1>. QED BY <1>4, <1>6, <1>7, <1>8, <1>9 DEF FlattenNext

\* What the handler, the venues, the clock and the operator do, whoever drives the
\* strategy half.
Surroundings == Handler \/ Market \/ Tick \/ OperatorArms \/ OperatorClears

\* The venues and their cache keep their types; Tick is the only step that
\* lets a lag grow, and it respects the bounds.
LEMMA VenueStep ==
    ASSUME VenueOK, Surroundings PROVE VenueOK'
<1>1. ASSUME NEW l \in Leg, Refresh(l) PROVE VenueOK'
  BY <1>1, FlattenAssumption DEF Refresh, VenueOK
<1>2. ASSUME NEW l \in Leg, NEW r \in 0..venue[l], CloseFills(l, r) PROVE VenueOK'
  <2>1. r \in Nat /\ [venue EXCEPT ![l] = r] \in [Leg -> Nat]
    BY <1>2 DEF VenueOK
  <2>. QED BY <1>2, <2>1, VenueMovesType DEF CloseFills, VenueOK
<1>3. CASE LateFill
  <2>1. [venue EXCEPT !["lt"] = @ + late] \in [Leg -> Nat]
    BY DEF VenueOK, Leg
  <2>2. venue' \in [Leg -> Nat] /\ stale' \in [Leg -> 0..Lag]
    BY <1>3, <2>1, VenueMovesType DEF LateFill
  <2>. QED BY <1>3, <2>2, FlattenAssumption DEF LateFill, VenueOK
<1>4. CASE LateDies
  BY <1>4, FlattenAssumption DEF LateDies, VenueOK
<1>5. CASE Tick
  <2>1. stale' \in [Leg -> 0..Lag]
    BY <1>5, FlattenAssumption DEF Tick, VenueOK
  <2>2. sinceFailed' \in 0..LateBy
    BY <1>5, FlattenAssumption DEF Tick, VenueOK
  <2>. QED BY <1>5, <2>1, <2>2 DEF Tick, VenueOK
<1>6. CASE UNCHANGED market
  BY <1>6 DEF market, VenueOK
<1>7. CASE Handler
  <2>1. CASE \E rejected \in SUBSET Leg : CloseRound(rejected)
    BY <2>1 DEF CloseRound, VenueOK
  <2>. QED BY <1>6, <1>7, <2>1 DEF Handler, NotFlattening, Waits, ReadFails, ZeroRead, Completes
<1>8. CASE OperatorArms \/ OperatorClears
  BY <1>6, <1>8 DEF OperatorArms, OperatorClears
<1>9. CASE Market
  BY <1>1, <1>2, <1>3, <1>4, <1>9 DEF Market
<1>. QED BY <1>5, <1>7, <1>8, <1>9 DEF Surroundings

\* ... and so does the strategy half.
LEMMA VenueStrategy ==
    ASSUME VenueOK, Strategy PROVE VenueOK'
<1>1. ASSUME NEW q \in Qty, NEW w \in 0..q, EntryFails(q, w) PROVE VenueOK'
  <2>1. q \in Nat /\ w \in Nat
    BY QtyIsPositive
  <2>2. [venue EXCEPT !["ext"] = @ + q] \in [Leg -> Nat] /\ late + w \in Nat
    BY <2>1 DEF VenueOK, Leg
  <2>3. venue' \in [Leg -> Nat] /\ stale' \in [Leg -> 0..Lag]
    BY <1>1, <2>2, VenueMovesType DEF EntryFails
  <2>. QED BY <1>1, <2>2, <2>3, FlattenAssumption DEF EntryFails, VenueOK
<1>2. ASSUME NEW q \in Qty, EntrySucceeds(q) PROVE VenueOK'
  <2>1. [l \in Leg |-> venue[l] + q] \in [Leg -> Nat]
    BY QtyIsPositive DEF VenueOK
  <2>. QED BY <1>2, <2>1, VenueMovesType DEF EntrySucceeds, VenueOK
<1>3. CASE UNCHANGED market
  BY <1>3 DEF market, VenueOK
<1>. QED BY <1>1, <1>2, <1>3 DEF Strategy, Breach, NoTrade

\* The throttle keeps its types: a round runs only below the cap.
LEMMA ThrottleStep ==
    ASSUME ThrottleOK, Surroundings PROVE ThrottleOK'
<1>1. CASE UNCHANGED throttle
  BY <1>1 DEF throttle, ThrottleOK
<1>2. CASE Market \/ OperatorArms \/ OperatorClears
  BY <1>1, <1>2 DEF Market, Refresh, CloseFills, LateFill, LateDies,
                    OperatorArms, OperatorClears
<1>3. CASE Tick
  <2>1. sinceAttempt' \in 0..Interval
    BY <1>3, FlattenAssumption DEF Tick, Least, ThrottleOK
  <2>2. zeroFor' \in {Never} \cup 0..Grace
    BY <1>3, FlattenAssumption DEF Tick, Least, Never, ThrottleOK
  <2>. QED BY <1>3, <2>1, <2>2 DEF Tick, ThrottleOK
<1>4. CASE NotFlattening
  <2>1. attempts' \in 0..MaxAttempts /\ sinceAttempt' \in 0..Interval
    BY <1>4, FlattenAssumption DEF NotFlattening
  <2>2. zeroFor' \in {Never} \cup 0..Grace
    BY <1>4 DEF NotFlattening
  <2>. QED BY <2>1, <2>2 DEF ThrottleOK
<1>5. CASE Waits
  BY <1>1, <1>5 DEF Waits
<1>6. ASSUME Round PROVE attempts' \in 0..MaxAttempts
  BY <1>6, FlattenAssumption DEF Round, Due, ThrottleOK
<1>7. CASE ReadFails
  BY <1>6, <1>7, FlattenAssumption DEF ReadFails, ThrottleOK
<1>8. CASE ZeroRead
  BY <1>6, <1>8, FlattenAssumption DEF ZeroRead, Never, ThrottleOK
<1>9. CASE Completes
  BY <1>6, <1>9, FlattenAssumption DEF Completes, ThrottleOK
<1>10. ASSUME NEW rejected \in SUBSET Leg, CloseRound(rejected) PROVE ThrottleOK'
  BY <1>6, <1>10, FlattenAssumption DEF CloseRound, ThrottleOK
<1>. QED BY <1>2, <1>3, <1>4, <1>5, <1>7, <1>8, <1>9, <1>10 DEF Surroundings, Handler

\* The kill switch keeps its types.
LEMMA SwitchStep ==
    ASSUME SwitchOK, Surroundings PROVE SwitchOK'
<1>1. CASE Tick \/ OperatorArms \/ OperatorClears
  BY <1>1 DEF Tick, OperatorArms, OperatorClears, market, switch, SwitchOK
<1>2. ASSUME NEW l \in Leg, NEW r \in 0..venue[l], CloseFills(l, r) PROVE SwitchOK'
  BY <1>2, FlattenAssumption DEF CloseFills, switch, SwitchOK
<1>3. CASE Market
  BY <1>2, <1>3 DEF Market, Refresh, LateFill, LateDies, switch, SwitchOK
<1>4. CASE NotFlattening \/ Waits \/ ZeroRead \/ Completes
  BY <1>4 DEF NotFlattening, Waits, ZeroRead, Completes, Round, HandlerRuns, market, switch, SwitchOK
<1>5. CASE ReadFails
  BY <1>5, FlattenAssumption DEF ReadFails, Round, HandlerRuns, market, switch, SwitchOK
<1>6. ASSUME NEW rejected \in SUBSET Leg, CloseRound(rejected) PROVE SwitchOK'
  <2>1. \A f \in 0..Kill, l \in Leg : Counted(f, l, rejected) \in 0..Kill
    BY FlattenAssumption DEF Counted, Least
  <2>2. fails' \in 0..Kill
    BY <1>6, <2>1 DEF CloseRound, SwitchOK, Leg
  <2>3. stuck' \in BOOLEAN
    BY <1>6 DEF CloseRound, ArmStuck, ArmedBy, SwitchOK
  <2>4. closing' \in SUBSET Leg
    BY <1>6 DEF CloseRound, Asked, SwitchOK
  <2>5. faults' \in 0..MaxFaults /\ arm' \in {"strategy", "flatten"}
    BY <1>6, FlattenAssumption DEF CloseRound, Round, HandlerRuns, SwitchOK
  <2>. QED BY <2>2, <2>3, <2>4, <2>5 DEF SwitchOK
<1>. QED BY <1>1, <1>3, <1>4, <1>5, <1>6 DEF Surroundings, Handler

TypeInv == MachineOK /\ VenueOK /\ ThrottleOK /\ SwitchOK

\* The initial state has the types.
LEMMA TypeInit == ASSUME FlattenInit PROVE TypeInv
<1>1. MachineOK
  BY InitIsSound DEF FlattenInit, MachineInit, Flat, MachineOK
<1>2. VenueOK
  BY FlattenAssumption DEF FlattenInit, Zero, VenueOK
<1>3. ThrottleOK
  <2>1. attempts \in 0..MaxAttempts /\ sinceAttempt \in 0..Interval
    BY FlattenAssumption DEF FlattenInit
  <2>2. zeroFor \in {Never} \cup 0..Grace
    BY DEF FlattenInit
  <2>. QED BY <2>1, <2>2 DEF ThrottleOK
<1>4. SwitchOK
  <2>1. fails \in 0..Kill /\ faults \in 0..MaxFaults
    BY FlattenAssumption DEF FlattenInit
  <2>2. arm \in {"strategy", "flatten"} /\ stuck \in BOOLEAN /\ closing \in SUBSET Leg
    BY DEF FlattenInit
  <2>. QED BY <2>1, <2>2 DEF SwitchOK
<1>. QED BY <1>1, <1>2, <1>3, <1>4 DEF TypeInv

\* Every step, stuttering included, keeps them.
LEMMA TypeStep == ASSUME TypeInv, [FlattenNext]_flattenVars PROVE TypeInv'
<1>1. CASE Surroundings
  BY <1>1, MachineStep, VenueStep, ThrottleStep, SwitchStep DEF TypeInv, FlattenNext, Surroundings
<1>2. CASE Strategy
  <2>1. ThrottleOK' /\ SwitchOK'
    BY <1>2 DEF Strategy, EntryFails, EntrySucceeds, Breach, NoTrade, market, throttle, switch,
                TypeInv, ThrottleOK, SwitchOK
  <2>. QED BY <1>2, <2>1, MachineStep, VenueStrategy DEF TypeInv, FlattenNext
<1>3. CASE UNCHANGED flattenVars
  BY <1>3 DEF flattenVars, throttle, switch, market, TypeInv, MachineOK, VenueOK, ThrottleOK, SwitchOK
<1>. QED BY <1>1, <1>2, <1>3 DEF FlattenNext, Surroundings

\* Type correctness of the flatten, attempts never passing the cap included.
THEOREM FlattenTypeCorrect == FlattenSpec => []FlattenTypeOK
<1>1. FlattenInit => TypeInv
  BY TypeInit
<1>2. TypeInv /\ [FlattenNext]_flattenVars => TypeInv'
  BY TypeStep
<1>3. TypeInv => FlattenTypeOK
  BY DEF TypeInv, MachineOK, Sound, VenueOK, ThrottleOK, SwitchOK, FlattenTypeOK
<1>. QED BY <1>1, <1>2, <1>3, PTL DEF FlattenSpec

(***************************************************************************)
(* Why the grace is enough.  While the zero reads have lasted zeroFor, an   *)
(* entry order still working was reported unfilled at least that long ago,  *)
(* and a leg that is open although the cache says zero either was opened by *)
(* such an order at most LateBy after the report, or has hidden from the    *)
(* cache for as long as the reads have been zero.  Both bound zeroFor by    *)
(* the two lags, so a longer grace never ends on an open leg.               *)
(***************************************************************************)
ReadsBounded ==
    /\ zeroFor # Never => InEmergency
    /\ late > 0 => InEmergency /\ zeroFor <= sinceFailed
    /\ \A l \in Leg : cache[l] = 0 /\ venue[l] > 0 => zeroFor <= LateBy + stale[l]

\* Only a completion takes a flatten to Flat, and it needs zero reads that outlast
\* both lags: nothing is open, and nothing can open.
LEMMA CompletesFlat ==
    ASSUME VenueOK, ThrottleOK, ReadsBounded, Completes, Grace > LateBy + Lag
    PROVE  venue = Zero /\ late = 0 /\ venue' = Zero /\ late' = 0 /\ ReadsBounded'
<1>1. zeroFor >= Grace /\ \A l \in Leg : cache[l] = 0
  BY FlattenAssumption DEF Completes, BothZero, Zero, VenueOK
<1>2. late = 0
  BY <1>1, FlattenAssumption DEF ReadsBounded, VenueOK, ThrottleOK, Never
<1>3. ASSUME NEW l \in Leg PROVE venue[l] = 0
  BY <1>1, FlattenAssumption DEF ReadsBounded, VenueOK, ThrottleOK, Never
<1>4. venue = Zero
  BY <1>3 DEF Zero, VenueOK
<1>. QED BY <1>2, <1>4 DEF Completes, market, Zero, ReadsBounded

\* A leg that only shrinks on its venue hides from the cache no longer than before.
LEMMA ShrinkKeepsReads ==
    ASSUME VenueOK, ReadsBounded, NEW l \in Leg, NEW r \in 0..venue[l],
           VenueMoves([venue EXCEPT ![l] = r]),
           UNCHANGED <<machine, throttle, cache, late, sinceFailed>>
    PROVE  ReadsBounded'
<1>1. ASSUME NEW k \in Leg, cache[k] = 0, venue'[k] > 0
      PROVE  venue[k] > 0 /\ stale'[k] = stale[k]
  BY <1>1 DEF VenueMoves, VenueOK
<1>. QED BY <1>1 DEF throttle, InEmergency, ReadsBounded

\* The relation is kept by all that happens around the strategy.
LEMMA ReadsStep ==
    ASSUME VenueOK, ThrottleOK, ReadsBounded, Surroundings, Grace > LateBy + Lag
    PROVE  ReadsBounded'
<1>. USE DEF InEmergency
<1>1. ASSUME UNCHANGED <<machine, market, zeroFor>> PROVE ReadsBounded'
  BY <1>1 DEF market, ReadsBounded
<1>2. ASSUME NEW l \in Leg, Refresh(l) PROVE ReadsBounded'
  BY <1>2 DEF Refresh, throttle, VenueOK, ReadsBounded
<1>3. ASSUME NEW l \in Leg, NEW r \in 0..venue[l], CloseFills(l, r) PROVE ReadsBounded'
  BY <1>3, ShrinkKeepsReads DEF CloseFills
<1>4. CASE LateFill
  <2>1. InEmergency /\ zeroFor <= LateBy
    BY <1>4, FlattenAssumption DEF LateFill, VenueOK, ThrottleOK, Never, ReadsBounded
  <2>2. \A k \in Leg : stale'[k] \in Nat
    BY <1>4, FlattenAssumption DEF LateFill, VenueMoves, VenueOK
  <2>. QED BY <1>4, <2>1, <2>2, FlattenAssumption
           DEF LateFill, throttle, ThrottleOK, Never, ReadsBounded
<1>5. CASE LateDies
  BY <1>5 DEF LateDies, throttle, ReadsBounded
<1>6. CASE Market
  BY <1>2, <1>3, <1>4, <1>5, <1>6 DEF Market
<1>7. CASE Tick
  <2>1. zeroFor' = Never \/ (zeroFor # Never /\ zeroFor' <= zeroFor + 1)
    <3>1. zeroFor' = IF zeroFor = Never THEN Never ELSE Least(zeroFor + 1, Grace)
      BY <1>7 DEF Tick
    <3>2. zeroFor = Never \/ zeroFor \in Nat
      BY DEF ThrottleOK
    <3>. QED BY <3>1, <3>2, FlattenAssumption DEF Least
  <2>2. ASSUME late > 0 PROVE zeroFor' <= sinceFailed'
    BY <1>7, <2>1, <2>2, FlattenAssumption DEF Tick, VenueOK, ThrottleOK, Never, ReadsBounded
  <2>3. ASSUME NEW l \in Leg, cache[l] = 0, venue[l] > 0
        PROVE  zeroFor' <= LateBy + stale'[l]
    BY <1>7, <2>1, <2>3, FlattenAssumption DEF Tick, VenueOK, ThrottleOK, Never, ReadsBounded
  <2>. QED BY <1>7, <2>1, <2>2, <2>3 DEF Tick, ReadsBounded
<1>8. CASE OperatorArms \/ OperatorClears
  BY <1>1, <1>8 DEF OperatorArms, OperatorClears, throttle
<1>9. CASE NotFlattening
  BY <1>9, FlattenAssumption DEF NotFlattening, market, VenueOK, Never, ReadsBounded
<1>10. CASE Waits \/ ReadFails
  BY <1>1, <1>10 DEF Waits, ReadFails, throttle
<1>11. CASE ZeroRead
  <2>1. zeroFor' = zeroFor \/ zeroFor' = 0
    BY <1>11 DEF ZeroRead
  <2>. QED BY <1>11, <2>1, FlattenAssumption DEF ZeroRead, Round, market, VenueOK, ReadsBounded
<1>12. CASE Completes
  BY <1>12, CompletesFlat
<1>13. ASSUME NEW rejected \in SUBSET Leg, CloseRound(rejected) PROVE ReadsBounded'
  BY <1>13, FlattenAssumption DEF CloseRound, Round, VenueOK, Never, ReadsBounded
<1>. QED BY <1>6, <1>7, <1>8, <1>9, <1>10, <1>11, <1>12, <1>13 DEF Surroundings, Handler

\* A strategy half that opens nothing, or opens it for an emergency to look after,
\* keeps the relation: no zero read is older.
LEMMA ReadsFresh ==
    ASSUME VenueOK, VenueOK', zeroFor' = Never, late' > 0 => InEmergency' PROVE ReadsBounded'
BY FlattenAssumption DEF VenueOK, ReadsBounded, Never

\* VerifiedFlat, in every phase but Flat and whatever moves in Flat.
LEMMA FlatStep ==
    ASSUME TypeInv, ReadsBounded, VerifiedFlat, FlattenNext, Grace > LateBy + Lag
    PROVE  VerifiedFlat'
<1>. USE DEF TypeInv, VerifiedFlat
<1>1. CASE Completes
  BY <1>1, CompletesFlat
<1>2. ASSUME UNCHANGED <<machine, venue, late>> PROVE VerifiedFlat'
  BY <1>2
<1>3. CASE Handler /\ ~Completes
  BY <1>2, <1>3 DEF Handler, NotFlattening, Waits, ReadFails, ZeroRead, CloseRound, market
<1>4. CASE Tick \/ OperatorArms \/ OperatorClears
  BY <1>2, <1>4 DEF Tick, OperatorArms, OperatorClears, market
<1>5. CASE Market
  <2>1. ASSUME NEW l \in Leg, NEW r \in 0..venue[l], CloseFills(l, r), machine.phase = "Flat"
        PROVE  venue' = Zero
    <3>1. venue = Zero /\ r = 0
      BY <2>1 DEF VenueOK, Zero
    <3>. QED BY <2>1, <3>1 DEF CloseFills, VenueMoves, Zero
  <2>2. ASSUME LateFill \/ LateDies PROVE machine.phase # "Flat" /\ machine' = machine
    BY <2>2 DEF LateFill, LateDies, ReadsBounded, InEmergency, VenueOK
  <2>. QED BY <1>5, <2>1, <2>2 DEF Market, CloseFills, Refresh
<1>6. CASE Strategy
  <2>1. ASSUME machine'.phase # "Flat" PROVE VerifiedFlat'
    BY <2>1
  <2>2. ASSUME NEW q \in Qty, EntrySucceeds(q) \/ \E w \in 0..q : EntryFails(q, w)
        PROVE  machine'.phase # "Flat"
    BY <2>2, EntryPhases DEF EntrySucceeds, EntryFails, MachineOK
  <2>3. ASSUME Breach PROVE machine'.phase # "Flat"
    BY <2>3, BreachPhase DEF Breach, MachineOK
  <2>. QED BY <1>2, <1>6, <2>1, <2>2, <2>3 DEF Strategy, NoTrade, market
<1>. QED BY <1>1, <1>3, <1>4, <1>5, <1>6 DEF FlattenNext

GraceInv == ReadsBounded /\ VerifiedFlat

\* Nothing is open and no order works at the start.
LEMMA GraceInit == ASSUME FlattenInit PROVE GraceInv
BY DEF FlattenInit, Zero, GraceInv, ReadsBounded, VerifiedFlat

\* Every step keeps the relation between the lags and the zero reads.
LEMMA GraceStep ==
    ASSUME TypeInv, TypeInv', GraceInv, FlattenNext, Grace > LateBy + Lag PROVE GraceInv'
<1>1. CASE Surroundings
  BY <1>1, ReadsStep, FlatStep DEF TypeInv, GraceInv
<1>2. CASE Strategy
  <2>1. CASE UNCHANGED <<machine, market>>
    BY <1>2, <2>1 DEF Strategy, throttle, market, GraceInv, ReadsBounded, InEmergency, VerifiedFlat
  <2>2. CASE machine.phase \in {"Flat", "Held"}
    <3>1. zeroFor' = Never
      BY <1>2, <2>2 DEF Strategy, throttle, GraceInv, ReadsBounded, InEmergency
    <3>2. late = 0
      BY <2>2 DEF GraceInv, ReadsBounded, InEmergency, TypeInv, VenueOK
    <3>3. late' > 0 => InEmergency'
      <4>1. ASSUME NEW q \in Qty, NEW w \in 0..q, EntryFails(q, w) PROVE InEmergency'
        BY <4>1, EntryPhases DEF EntryFails, InEmergency, TypeInv, MachineOK
      <4>2. ASSUME ~ \E q \in Qty : \E w \in 0..q : EntryFails(q, w) PROVE late' = late
        BY <1>2, <4>2 DEF Strategy, EntrySucceeds, Breach, NoTrade, market
      <4>. QED BY <3>2, <4>1, <4>2
    <3>. QED BY <1>2, <3>1, <3>3, ReadsFresh, FlatStep DEF TypeInv, GraceInv, FlattenNext
  <2>. QED BY <1>2, <2>1, <2>2 DEF Strategy, EntryFails, EntrySucceeds, Breach, NoTrade
<1>. QED BY <1>1, <1>2 DEF FlattenNext, Surroundings

\* A grace longer than the lag of the position cache and the delay of a late
\* entry fill together means that books taken to Flat are flat on the venues.
THEOREM GraceVerifiesFlat ==
    ASSUME Grace > LateBy + Lag PROVE FlattenSpec => []VerifiedFlat
<1>1. FlattenInit => TypeInv /\ GraceInv
  BY TypeInit, GraceInit
<1>2. TypeInv /\ GraceInv /\ [FlattenNext]_flattenVars => TypeInv' /\ GraceInv'
  <2>1. ASSUME TypeInv, GraceInv, FlattenNext PROVE GraceInv'
    BY <2>1, TypeStep, GraceStep
  <2>2. ASSUME GraceInv, UNCHANGED flattenVars PROVE GraceInv'
    BY <2>2 DEF flattenVars, throttle, market, InEmergency, GraceInv, ReadsBounded, VerifiedFlat
  <2>. QED BY <2>1, <2>2, TypeStep
<1>3. GraceInv => VerifiedFlat
  BY DEF GraceInv
<1>. QED BY <1>1, <1>2, <1>3, PTL DEF FlattenSpec

(***************************************************************************)
(* The runner: its machine and its books.                                   *)
(***************************************************************************)
\* Between the halves of a tick the machine is sound and no entry is half done.
Resting ==
    /\ Sound(machine)
    /\ machine.phase \in {"Flat", "Held", "Exiting", "EmergencyFlattening"}

\* What the books need of the venues: sizes are naturals, and before the first
\* trip no order is working that could put something on a venue.
PutOK ==
    /\ venue \in [Leg -> Nat] /\ late \in Nat
    /\ trip \in [put : [Leg -> Nat], tried : BOOLEAN, booked : Nat]
    /\ trip.put = Zero => machine.phase = "Flat" /\ late = 0

RunnerInv == Resting /\ PutOK /\ CtxMatchesTrip /\ BookedOnce

(***************************************************************************)
(* Exits: a machine that is winding down is Exiting with its position, or   *)
(* has been drained to Flat.                                                *)
(***************************************************************************)
Winding(m) == Sound(m) /\ m.phase \in {"Exiting", "Flat"}

\* An exit fill drains its leg of a machine in Exiting.
LEMMA ExitFilledIs ==
    ASSUME NEW m, Sound(m), m.phase = "Exiting", NEW l \in Leg, NEW q \in Nat
    PROVE  /\ m.position \in Position
           /\ Drained(m.position, l, q) \in Position
           /\ Apply(m, ExitFilled(l, q)) = OnExitFilled("Exiting", m.position, l, q)
<1>1. m.position \in Position
  BY BusyHasPosition
<1>2. Drained(m.position, l, q) \in Position
  BY <1>1, DrainedShrinks
<1>3. Apply(m, ExitFilled(l, q)) = OnExitFilled(m.phase, m.position, l, q)
  BY DEF Apply, ExitFilled, Accepts
<1>. QED BY <1>1, <1>2, <1>3

\* An exit fill of any size keeps a machine winding down.
LEMMA ExitFillWinds ==
    ASSUME NEW m, Winding(m), NEW l \in Leg, NEW q \in Nat
    PROVE  Winding(ExitFill(m, l, q))
<1>1. CASE m.phase = "Flat" \/ q = 0
  BY <1>1 DEF ExitFill, Apply, ExitFilled, Accepts, Winding
<1>2. CASE m.phase = "Exiting" /\ q > 0
  <2>1. Apply(m, ExitFilled(l, q)) = OnExitFilled("Exiting", m.position, l, q)
    BY <1>2, ExitFilledIs DEF Winding
  <2>2. Drained(m.position, l, q) \in Position
    BY <1>2, ExitFilledIs DEF Winding
  <2>3. Winding(OnExitFilled("Exiting", m.position, l, q))
    BY <2>2, MachineAssumption
       DEF OnExitFilled, Flat, At, Winding, Sound, Machine, Phase, CheckInvariants
  <2>. QED BY <1>2, <2>1, <2>3 DEF ExitFill
<1>. QED BY <1>1, <1>2 DEF Winding

\* ... and so do the exit fills of both legs.
LEMMA ExitFillsWind ==
    ASSUME NEW m, Winding(m), NEW q \in [Leg -> Nat]
    PROVE  Winding(ExitFills(m, q))
BY ExitFillWinds DEF ExitFills, Leg

\* The recorded sizes are naturals.
LEMMA OpenType ==
    ASSUME NEW m, Sound(m) PROVE Open(m) \in [Leg -> Nat]
BY DEF Sound, Machine, Position, Open, Recorded

\* Flushing and reconciling only apply exit fills.
LEMMA ReconcileWinds ==
    ASSUME NEW m, Winding(m), NEW q \in [Leg -> Nat], NEW seen, NEW unread
    PROVE  Winding(Reconcile(FlushSubMin(ExitFills(m, q)), seen, unread))
<1>. DEFINE n == ExitFills(m, q)
            f == [l \in Leg |-> IF Open(n)[l] < MinQty[l] THEN Open(n)[l] ELSE 0]
            k == ExitFills(n, f)
            r == [l \in Leg |-> IF l \notin unread /\ CurrentPositionSize(l, seen) < Floor(l)
                                THEN Open(k)[l] ELSE 0]
<1>1. Winding(n)
  BY ExitFillsWind
<1>2. f \in [Leg -> Nat]
  <2>1. Open(n) \in [Leg -> Nat]
    BY <1>1, OpenType DEF Winding
  <2>. QED BY <2>1
<1>3. Winding(k)
  BY <1>1, <1>2, ExitFillsWind
<1>4. r \in [Leg -> Nat]
  <2>1. Open(k) \in [Leg -> Nat]
    BY <1>3, OpenType DEF Winding
  <2>. QED BY <2>1
<1>5. Winding(ExitFills(k, r))
  BY <1>3, <1>4, ExitFillsWind
<1>. QED BY <1>5 DEF Reconcile, FlushSubMin

\* What a reconcile erases is what the flush has left recorded, or nothing.
LEMMA ErasedType ==
    ASSUME NEW m, Winding(m), NEW q \in [Leg -> Nat], NEW seen, NEW unread
    PROVE  Erased(FlushSubMin(ExitFills(m, q)), seen, unread) \in Nat
<1>. DEFINE n == ExitFills(m, q)
            f == [l \in Leg |-> IF Open(n)[l] < MinQty[l] THEN Open(n)[l] ELSE 0]
<1>1. Winding(n)
  BY ExitFillsWind
<1>2. f \in [Leg -> Nat]
  <2>1. Open(n) \in [Leg -> Nat]
    BY <1>1, OpenType DEF Winding
  <2>. QED BY <2>1
<1>3. Open(ExitFills(n, f))["lt"] \in Nat
  BY <1>1, <1>2, ExitFillsWind, OpenType DEF Winding, Leg
<1>. QED BY <1>3 DEF Erased, FlushSubMin

\* A leg without a fill keeps a machine in Exiting that has the leg open.
LEMMA UnfilledStaysOpen ==
    ASSUME NEW m, Winding(m), m.phase = "Exiting", NEW q \in [Leg -> Nat],
           NEW l \in Leg, q[l] = 0, m.position.open[l] > 0
    PROVE  ExitFills(m, q).phase = "Exiting"
<1>1. ASSUME NEW n, Winding(n), n.phase = "Exiting", NEW k \in Leg, k # l, n.position.open[l] > 0
      PROVE  /\ ExitFill(n, k, q[k]).phase = "Exiting"
             /\ ExitFill(n, k, q[k]).position.open[l] > 0
  <2>1. CASE q[k] = 0
    BY <1>1, <2>1 DEF ExitFill
  <2>2. CASE q[k] > 0
    <3>. DEFINE d == Drained(n.position, k, q[k])
    <3>1. /\ n.position \in Position /\ d \in Position
          /\ ExitFill(n, k, q[k]) = OnExitFilled("Exiting", n.position, k, q[k])
      BY <1>1, <2>2, ExitFilledIs DEF ExitFill, Winding
    <3>2. d.open[l] > 0
      BY <1>1, <3>1, DrainedShrinks
    <3>. QED BY <3>1, <3>2 DEF OnExitFilled, NoneOpen, At
  <2>. QED BY <2>1, <2>2
<1>2. ExitFill(m, l, q[l]) = m
  BY DEF ExitFill
<1>3. CASE l = "ext"
  BY <1>1, <1>2, <1>3 DEF ExitFills, Leg
<1>4. CASE l = "lt"
  <2>. DEFINE n == ExitFill(m, "ext", q["ext"])
  <2>1. n.phase = "Exiting"
    BY <1>1, <1>4 DEF Leg
  <2>. QED BY <1>4, <2>1 DEF ExitFills, ExitFill
<1>. QED BY <1>3, <1>4 DEF Leg

(***************************************************************************)
(* Entries.                                                                 *)
(***************************************************************************)

\* What RunnerAssumption says of a single Lighter quantity.
LEMMA LtQtyIsPositive == \A ql \in LtQty : ql \in Nat /\ ql > 0
BY RunnerAssumption

\* After an Extended fill of q and a Lighter fill of ql the position holds
\* exactly these.
LEMMA EntryIsHeld ==
    ASSUME Sound(machine), machine.phase = "Flat", NEW q \in Qty, NEW ql \in LtQty
    PROVE  /\ Sound(Apply(Entered(q), LighterFilled(ql)))
           /\ Apply(Entered(q), LighterFilled(ql)).phase = "Held"
           /\ Apply(Entered(q), LighterFilled(ql)).position.open = PerLeg(q, ql)
<1>. DEFINE o == Opened(Fresh, "ext", q)
            b == Opened(o, "lt", ql)
<1>1. /\ Fresh \in Position /\ Fresh.open = [l \in Leg |-> 0]
      /\ q \in Nat /\ ql \in Nat /\ q > 0 /\ ql > 0
  BY MachineAssumption, LtQtyIsPositive DEF Fresh, Position
<1>2. o \in Position /\ o.open["ext"] = q /\ o.open["lt"] = 0
  <2>1. OpenedPost(Fresh, "ext", q)
    BY <1>1, OpenedGrows DEF Leg
  <2>. QED BY <1>1, <2>1 DEF OpenedPost, Leg
<1>3. Entered(q) = At("EnteringLighter", o)
  BY DEF Entered, Apply, EntrySignal, ExtendedFilled, Accepts, At, OnExtendedFilled
<1>. HIDE DEF o
<1>4. b \in Position /\ b.open = PerLeg(q, ql) /\ b.open["ext"] > 0 /\ b.open["lt"] > 0
  <2>1. OpenedPost(o, "lt", ql)
    BY <1>1, <1>2, OpenedGrows DEF Leg
  <2>2. b \in Position /\ b.open["ext"] = q /\ b.open["lt"] = ql
    BY <1>1, <1>2, <2>1 DEF OpenedPost, Leg
  <2>. HIDE DEF b
  <2>3. b.open = [l \in Leg |-> b.open[l]]
    BY <2>2 DEF Position
  <2>. QED BY <1>1, <2>2, <2>3 DEF PerLeg, Leg
<1>5. Apply(Entered(q), LighterFilled(ql)) = At("Held", [b EXCEPT !.fullyFilled = TRUE])
  BY <1>3 DEF Apply, LighterFilled, Accepts, At, OnLighterFilled
<1>. HIDE DEF b
<1>6. Sound(Apply(Entered(q), LighterFilled(ql)))
  <2>. DEFINE n == [b EXCEPT !.fullyFilled = TRUE]
  <2>1. n \in Position /\ n.open = b.open /\ n.fullyFilled
    BY <1>4 DEF Position
  <2>. HIDE DEF n
  <2>2. At("Held", n) \in Machine /\ n # None
    BY <2>1, MachineAssumption DEF At, Machine, Phase
  <2>3. CheckInvariants(At("Held", n))
    BY <1>4, <2>1, <2>2, MachineAssumption DEF At, CheckInvariants
  <2>. QED BY <1>5, <2>2, <2>3 DEF Sound, n
<1>. QED BY <1>4, <1>5, <1>6 DEF At, Position

\* A trip that starts is not booked yet, has its context, and has put
\* something on a venue.
LEMMA StartsKeeps ==
    ASSUME RunnerInv, NEW m, NEW filled \in [Leg -> Nat], NEW w \in Nat,
           Starts(m, filled, w), filled["ext"] > 0,
           Sound(m), m.phase \in {"Held", "EmergencyFlattening"},
           m.phase = "Held" => m.position.open = filled
    PROVE  RunnerInv'
<1>1. machine' = m /\ ctx' = filled /\ ctx' # None /\ ctx'["ext"] > 0
  BY RunnerAssumption DEF Starts
<1>2. venue' = Plus(venue, filled) /\ late' = late + w /\ trip' = [NoTrip EXCEPT !.put = venue']
  BY DEF Starts, VenueMoves
<1>3. venue' \in [Leg -> Nat] /\ venue'["ext"] > 0
  BY <1>2 DEF RunnerInv, PutOK, Plus, Leg
<1>4. /\ trip' \in [put : [Leg -> Nat], tried : BOOLEAN, booked : Nat]
      /\ trip'.put = venue' /\ trip'.booked = 0
  BY <1>2, <1>3 DEF NoTrip, Zero
<1>5. trip'.put # Zero
  BY <1>3, <1>4 DEF Zero, Leg
<1>6. Resting' /\ PutOK'
  BY <1>1, <1>2, <1>3, <1>4, <1>5 DEF Resting, PutOK, RunnerInv
<1>7. CtxMatchesTrip' /\ BookedOnce'
  BY <1>1, <1>4 DEF CtxMatchesTrip, BookedOnce, InEmergency
<1>. QED BY <1>6, <1>7 DEF RunnerInv

\* A step that leaves the machine, the trip, its context and the venues alone.
LEMMA NothingMoves ==
    ASSUME RunnerInv, UNCHANGED <<machine, ctx, trip, venue, late>>
    PROVE  RunnerInv'
BY DEF RunnerInv, Resting, PutOK, CtxMatchesTrip, BookedOnce, InEmergency

\* An entry that fails leaves the machine flat and the venues alone.
LEMMA FailedEntry ==
    ASSUME RunnerInv, NEW timedOut \in BOOLEAN, EnterFails(timedOut)
    PROVE  /\ machine.phase = "Flat" /\ machine' = machine
           /\ UNCHANGED <<market, faults, books, history, orphans>>
<1>1. machine.phase = "Flat" /\ machine = Flat
  BY DEF EnterFails, MayEnter, RunnerInv, Resting, Sound, Machine, CheckInvariants, Flat
<1>2. Apply(Apply(machine, EntrySignal), ExtendedFailed) = OnExtendedFailed(Fresh)
  BY <1>1 DEF Apply, EntrySignal, ExtendedFailed, Accepts, At
<1>3. OnExtendedFailed(Fresh) = Flat
  BY DEF OnExtendedFailed, Fresh, NoneOpen
<1>. QED BY <1>1, <1>2, <1>3 DEF EnterFails

\* The three outcomes of an entry.
LEMMA EntryKeeps ==
    ASSUME RunnerInv,
           \/ \E q \in Qty, ql \in LtQty : \E w \in 0..ql : EnterHalf(q, w)
           \/ \E q \in Qty, ql \in LtQty : EnterBoth(q, ql)
           \/ \E timedOut \in BOOLEAN : EnterFails(timedOut)
    PROVE  RunnerInv'
<1>1. ASSUME NEW q \in Qty, NEW ql \in LtQty, NEW w \in 0..ql, EnterHalf(q, w) PROVE RunnerInv'
  <2>1. Sound(machine) /\ machine.phase = "Flat"
    BY <1>1 DEF RunnerInv, Resting, EnterHalf, Starts, MayEnter
  <2>2. q \in Nat /\ q > 0 /\ w \in Nat
    BY <1>1, MachineAssumption, LtQtyIsPositive
  <2>3. PerLeg(q, 0) \in [Leg -> Nat] /\ PerLeg(q, 0)["ext"] > 0
    BY <2>2 DEF PerLeg, Leg
  <2>. QED BY <1>1, <2>1, <2>2, <2>3, EntryPhases, StartsKeeps DEF EnterHalf
<1>2. ASSUME NEW q \in Qty, NEW ql \in LtQty, EnterBoth(q, ql) PROVE RunnerInv'
  <2>1. Sound(machine) /\ machine.phase = "Flat"
    BY <1>2 DEF RunnerInv, Resting, EnterBoth, Starts, MayEnter
  <2>2. q \in Nat /\ q > 0 /\ ql \in Nat
    BY MachineAssumption, LtQtyIsPositive
  <2>3. PerLeg(q, ql) \in [Leg -> Nat] /\ PerLeg(q, ql)["ext"] > 0
    BY <2>2 DEF PerLeg, Leg
  <2>. QED BY <1>2, <2>1, <2>3, EntryIsHeld, StartsKeeps DEF EnterBoth
<1>3. ASSUME NEW timedOut \in BOOLEAN, EnterFails(timedOut) PROVE RunnerInv'
  BY <1>3, FailedEntry, NothingMoves DEF market, books
<1>. QED BY <1>1, <1>2, <1>3

(***************************************************************************)
(* Exits.                                                                   *)
(***************************************************************************)

\* A held machine that is told to exit is Exiting with the same position.
LEMMA ExitSignalled ==
    ASSUME Sound(machine), machine.phase = "Held", NEW r \in ExitReason
    PROVE  /\ Winding(Apply(machine, ExitSignal(r)))
           /\ Apply(machine, ExitSignal(r)).phase = "Exiting"
           /\ Apply(machine, ExitSignal(r)).position.open = machine.position.open
<1>1. machine.position \in Position
  BY BusyHasPosition
<1>2. Apply(machine, ExitSignal(r)) = At("Exiting", [machine.position EXCEPT !.exitReason = r])
  BY DEF Apply, ExitSignal, Accepts
<1>3. Sound(Apply(machine, ExitSignal(r)))
  BY ConstructorsAreEvents, RunnerApply DEF EventConstructors
<1>. QED BY <1>1, <1>2, <1>3 DEF At, Winding, Position

\* An emergency out of Held or Exiting.
LEMMA EmergencyFrom ==
    ASSUME NEW m, Sound(m), m.phase \in {"Held", "Exiting"}, NEW r \in EmergencyReason
    PROVE  /\ Sound(Apply(m, Emergency(r)))
           /\ Apply(m, Emergency(r)).phase = "EmergencyFlattening"
BY ConstructorsAreEvents, RunnerApply
   DEF EventConstructors, Apply, Emergency, Flattening, Accepts, At

\* In a held trip the context holds both legs, which are open, and nothing has
\* been booked.
LEMMA HeldFacts ==
    ASSUME RunnerInv, machine.phase = "Held"
    PROVE  /\ Sound(machine) /\ ctx # None /\ ctx["ext"] > 0
           /\ trip.put # Zero /\ trip.booked = 0
           /\ \A l \in Leg : machine.position.open[l] \in Nat /\ machine.position.open[l] > 0
<1>1. Sound(machine) /\ machine.position \in Position
  BY BusyHasPosition DEF RunnerInv, Resting
<1>2. machine.position.open \in [Leg -> Nat]
  BY <1>1 DEF Position
<1>. QED BY <1>1, <1>2, RunnerAssumption
         DEF RunnerInv, PutOK, CtxMatchesTrip, BookedOnce, Sound, CheckInvariants, Leg

\* An exit leaves the machine winding down, or hands it to the emergency.
LEMMA ExitOutcome ==
    ASSUME RunnerInv, Summarised(machine), NEW r \in ExitReason,
           NEW shut \in [Leg -> Nat], NEW filled \in [Leg -> Nat], NEW lagging,
           Exit(r, shut, filled, lagging)
    PROVE  LET m == Apply(machine, ExitSignal(r))
           IN  /\ Winding(m) /\ Open(m) = machine.position.open
               /\ \/ ExitDone(m, filled, cache') /\ Winding(machine')
                  \/ /\ ExitBroken(m, filled)
                     /\ Sound(machine') /\ machine'.phase = "EmergencyFlattening"
<1>. DEFINE m == Apply(machine, ExitSignal(r))
<1>1. machine.phase = "Held"
  BY DEF Summarised
<1>2. /\ Winding(m) /\ m.phase = "Exiting" /\ m.position.open = machine.position.open
      /\ \A l \in Leg : m.position.open[l] > 0
  BY <1>1, HeldFacts, ExitSignalled
<1>. HIDE DEF m
<1>3. Open(m) = machine.position.open
  BY <1>2, BusyHasPosition, MachineAssumption DEF Open, Recorded, Winding
<1>4. ASSUME ExitDone(m, filled, cache') PROVE Winding(machine')
  BY <1>2, <1>4, ReconcileWinds DEF ExitDone
<1>5. ASSUME ExitBroken(m, filled) PROVE Sound(machine') /\ machine'.phase = "EmergencyFlattening"
  <2>1. PICK l \in Leg : filled[l] = 0
    BY <1>5 DEF ExitBroken
  <2>2. Winding(ExitFills(m, filled)) /\ ExitFills(m, filled).phase = "Exiting"
    BY <1>2, <2>1, ExitFillsWind, UnfilledStaysOpen
  <2>3. machine' = Apply(ExitFills(m, filled), Emergency("LegMismatchTimeout"))
    BY <1>5 DEF ExitBroken
  <2>. QED BY <2>2, <2>3, EmergencyFrom, RunnerAssumption DEF Winding
<1>. QED BY <1>2, <1>3, <1>4, <1>5 DEF Exit, m

\* An exit is booked at once, or handed to the emergency with its context.
LEMMA ExitKeeps ==
    ASSUME RunnerInv, Summarised(machine), NEW r \in ExitReason,
           NEW shut \in [Leg -> Nat], NEW filled \in [Leg -> Nat], NEW lagging,
           Exit(r, shut, filled, lagging)
    PROVE  RunnerInv'
<1>. DEFINE m == Apply(machine, ExitSignal(r))
<1>1. machine.phase = "Held"
  BY DEF Summarised
<1>2. venue' \in [Leg -> Nat] /\ late' = late /\ late' \in Nat
  BY DEF Exit, RunnerInv, PutOK
<1>3. \/ ExitDone(m, filled, cache') /\ Winding(machine')
      \/ ExitBroken(m, filled) /\ Sound(machine') /\ machine'.phase = "EmergencyFlattening"
  BY ExitOutcome
<1>. HIDE DEF m
<1>4. ASSUME ExitDone(m, filled, cache'), Winding(machine') PROVE RunnerInv'
  <2>1. trip' = [trip EXCEPT !.booked = @ + 1] /\ ctx' = None
    BY <1>4 DEF ExitDone, Book
  <2>2. /\ trip' \in [put : [Leg -> Nat], tried : BOOLEAN, booked : Nat]
        /\ trip'.put = trip.put /\ trip'.booked = 1 /\ trip'.put # Zero
    BY <1>1, <2>1, HeldFacts DEF RunnerInv, PutOK
  <2>3. Resting' /\ PutOK'
    BY <1>2, <1>4, <2>2 DEF Resting, PutOK, Winding
  <2>4. CtxMatchesTrip' /\ BookedOnce'
    BY <1>4, <2>2 DEF CtxMatchesTrip, BookedOnce, InEmergency, Winding
  <2>. QED BY <2>3, <2>4 DEF RunnerInv
<1>5. ASSUME ExitBroken(m, filled), Sound(machine'), machine'.phase = "EmergencyFlattening"
      PROVE  RunnerInv'
  <2>1. trip' = [trip EXCEPT !.tried = TRUE] /\ ctx' = ctx
    BY <1>5 DEF ExitBroken
  <2>2. /\ trip' \in [put : [Leg -> Nat], tried : BOOLEAN, booked : Nat]
        /\ trip'.booked = 0 /\ trip'.put # Zero
    BY <1>1, <2>1, HeldFacts DEF RunnerInv, PutOK
  <2>3. Resting' /\ PutOK'
    BY <1>2, <1>5, <2>2 DEF Resting, PutOK
  <2>4. CtxMatchesTrip' /\ BookedOnce'
    BY <1>1, <1>5, <2>1, <2>2, HeldFacts DEF CtxMatchesTrip, BookedOnce, InEmergency
  <2>. QED BY <2>3, <2>4 DEF RunnerInv
<1>. QED BY <1>3, <1>4, <1>5

\* The first half of the tick.
LEMMA RunOneTickKeeps ==
    ASSUME RunnerInv, RunOneTick PROVE RunnerInv'
<1>1. CASE Exits
  <2>1. PICK r \in ExitReason, lagging \in IF Lag > 0 THEN SUBSET Leg ELSE {{}},
             se \in 0..machine.position.open["ext"], fe \in 0..machine.position.open["ext"],
             st \in 0..machine.position.open["lt"], ft \in 0..machine.position.open["lt"] :
             Exit(r, PerLeg(se, st), PerLeg(fe, ft), lagging)
    BY <1>1 DEF Exits
  <2>2. PerLeg(se, st) \in [Leg -> Nat] /\ PerLeg(fe, ft) \in [Leg -> Nat]
    BY DEF PerLeg
  <2>. QED BY <1>1, <2>1, <2>2, ExitKeeps DEF Exits
<1>2. CASE Breached
  <2>1. PICK r \in EmergencyReason : machine' = Apply(machine, Emergency(r))
    BY <1>2, FlattenAssumption, RunnerAssumption DEF Breached
  <2>2. /\ machine.phase = "Held"
        /\ UNCHANGED <<venue, late, ctx, trip>>
    BY <1>2 DEF Breached, Summarised, market, books
  <2>3. Sound(machine') /\ machine'.phase = "EmergencyFlattening"
    BY <2>1, <2>2, HeldFacts, EmergencyFrom
  <2>. QED BY <2>2, <2>3, HeldFacts
           DEF RunnerInv, Resting, PutOK, CtxMatchesTrip, BookedOnce, InEmergency
<1>3. CASE Idle
  BY <1>3, NothingMoves DEF Idle, market, books
<1>. QED BY <1>1, <1>2, <1>3, EntryKeeps DEF RunOneTick

(***************************************************************************)
(* The emergency and the venues.                                            *)
(***************************************************************************)

\* The handler changes the machine only by completing the emergency, and the
\* venues not at all.
LEMMA HandlerEffect ==
    ASSUME RunnerInv, Handler
    PROVE  /\ UNCHANGED <<venue, late>>
           /\ UNCHANGED machine \/ (InEmergency /\ machine' = Flat)
<1>1. CASE Completes
  BY <1>1, CompletePhase
     DEF Completes, Round, InEmergency, market, RunnerInv, Resting
<1>2. CASE ~Completes
  BY <1>2 DEF Handler, NotFlattening, Waits, ReadFails, ZeroRead, CloseRound, market
<1>. QED BY <1>1, <1>2

\* The second half of the tick books a trip exactly when its emergency ends.
LEMMA EndOfTickKeeps ==
    ASSUME RunnerInv, EndOfTick PROVE RunnerInv'
<1>1. /\ UNCHANGED <<venue, late>>
      /\ UNCHANGED machine \/ (InEmergency /\ machine' = Flat)
      /\ ctx' = IF machine'.phase = "Flat" THEN None ELSE ctx
  BY HandlerEffect DEF EndOfTick, Swept
<1>2. CASE Ends
  <2>1. machine' = Flat /\ InEmergency /\ ctx' = None
    BY <1>1, <1>2 DEF Ends, InEmergency
  <2>2. trip' = [trip EXCEPT !.booked = @ + 1]
    BY <1>2, <2>1 DEF EndOfTick, Book
  <2>3. /\ trip' \in [put : [Leg -> Nat], tried : BOOLEAN, booked : Nat]
        /\ trip'.put = trip.put /\ trip'.booked = 1 /\ trip'.put # Zero
    BY <2>1, <2>2 DEF RunnerInv, PutOK, BookedOnce, InEmergency
  <2>4. Sound(machine') /\ machine'.phase = "Flat"
    BY <2>1 DEF Flat, Sound, Machine, Phase, CheckInvariants
  <2>. QED BY <1>1, <2>1, <2>3, <2>4
           DEF RunnerInv, Resting, PutOK, CtxMatchesTrip, BookedOnce, InEmergency
<1>3. CASE ~Ends
  <2>1. UNCHANGED <<machine, trip>>
    BY <1>1, <1>3 DEF EndOfTick, Ends, Flat, InEmergency
  <2>. QED BY <1>1, <2>1
           DEF RunnerInv, Resting, PutOK, CtxMatchesTrip, BookedOnce, InEmergency
<1>. QED BY <1>2, <1>3

\* Only a late fill lets a leg grow.
LEMMA MarketEffect ==
    ASSUME RunnerInv, Venues
    PROVE  /\ venue' \in [Leg -> Nat] /\ late' \in Nat
           /\ UNCHANGED <<machine, ctx>>
           /\ late = 0 => late' = 0 /\ \A l \in Leg : venue'[l] <= venue[l]
<1>1. venue \in [Leg -> Nat] /\ late \in Nat
  BY DEF RunnerInv, PutOK
<1>2. ASSUME NEW l \in Leg, Refresh(l) \/ LateDies
      PROVE  UNCHANGED <<machine, venue>> /\ late' \in {late, 0}
  BY <1>2 DEF Refresh, LateDies
<1>3. ASSUME NEW l \in Leg, NEW r \in 0..venue[l], CloseFills(l, r) \/ OrphanFills(l, r)
      PROVE  UNCHANGED <<machine, late>> /\ venue' = [venue EXCEPT ![l] = r]
  BY <1>3 DEF CloseFills, OrphanFills, VenueMoves
<1>4. CASE LateFill
  BY <1>1, <1>4 DEF LateFill, VenueMoves, Venues, Traded, Leg
<1>5. ASSUME NEW l \in Leg, NEW r \in 0..venue[l], venue' = [venue EXCEPT ![l] = r]
      PROVE  venue' \in [Leg -> Nat] /\ \A k \in Leg : venue'[k] <= venue[k]
  BY <1>1, <1>5
<1>6. UNCHANGED ctx
  BY DEF Venues, Traded
<1>7. "ext" \in Leg
  BY DEF Leg
<1>8. ASSUME UNCHANGED venue PROVE \A k \in Leg : venue'[k] <= venue[k]
  BY <1>1, <1>8
<1>. QED BY <1>1, <1>2, <1>3, <1>4, <1>5, <1>6, <1>7, <1>8 DEF Venues, Market

\* What the venues do never makes a trip out of nothing.
LEMMA VenuesKeep ==
    ASSUME RunnerInv, Venues PROVE RunnerInv'
<1>1. /\ venue' \in [Leg -> Nat] /\ late' \in Nat
      /\ UNCHANGED <<machine, ctx>>
      /\ late = 0 => late' = 0 /\ \A l \in Leg : venue'[l] <= venue[l]
  BY MarketEffect
<1>. DEFINE g == Grown(venue, venue')
<1>2. g \in [Leg -> Nat] /\ (late = 0 => g = Zero)
  BY <1>1 DEF Grown, Zero, RunnerInv, PutOK
<1>3. trip' = [trip EXCEPT !.put = Plus(@, g)]
  BY DEF Venues, Traded
<1>. HIDE DEF g
<1>4. /\ trip' \in [put : [Leg -> Nat], tried : BOOLEAN, booked : Nat]
      /\ trip'.put = Plus(trip.put, g) /\ trip'.booked = trip.booked
  BY <1>2, <1>3 DEF RunnerInv, PutOK, Plus
<1>5. trip.put # Zero => trip'.put # Zero
  BY <1>2, <1>4 DEF RunnerInv, PutOK, Plus, Zero
<1>6. trip.put = Zero => trip'.put = Zero
  BY <1>2, <1>4 DEF RunnerInv, PutOK, Plus, Zero
<1>7. Resting' /\ PutOK'
  BY <1>1, <1>4, <1>5 DEF RunnerInv, Resting, PutOK
<1>8. CtxMatchesTrip' /\ BookedOnce'
  BY <1>1, <1>4, <1>5, <1>6 DEF RunnerInv, CtxMatchesTrip, BookedOnce, InEmergency
<1>. QED BY <1>7, <1>8 DEF RunnerInv

\* The runner starts flat, with no trip.
LEMMA RunnerStarts == RunnerInit => RunnerInv
<1>. SUFFICES ASSUME RunnerInit PROVE RunnerInv
  OBVIOUS
<1>1. Sound(machine) /\ machine.phase = "Flat"
  BY InitIsSound DEF RunnerInit, FlattenInit, MachineInit, Flat
<1>2. /\ venue = Zero /\ Zero \in [Leg -> Nat] /\ late = 0
      /\ trip = NoTrip /\ trip.put = Zero /\ trip.booked = 0 /\ trip.tried = FALSE
  BY DEF RunnerInit, FlattenInit, NoTrip, Zero
<1>3. trip \in [put : [Leg -> Nat], tried : BOOLEAN, booked : Nat]
  BY <1>2 DEF NoTrip
<1>. QED BY <1>1, <1>2, <1>3
         DEF RunnerInv, Resting, PutOK, CtxMatchesTrip, BookedOnce, InEmergency

\* Every step of the runner keeps the invariant.
LEMMA RunnerSteps == RunnerInv /\ [RunnerNext]_runnerVars => RunnerInv'
<1>. SUFFICES ASSUME RunnerInv, [RunnerNext]_runnerVars PROVE RunnerInv'
  OBVIOUS
<1>1. CASE RunOneTick
  BY <1>1, RunOneTickKeeps
<1>2. CASE EndOfTick
  BY <1>2, EndOfTickKeeps
<1>3. CASE Venues
  BY <1>3, VenuesKeep
<1>4. CASE Clock \/ Operates
  BY <1>4, NothingMoves DEF Clock, Operates, Tick, OperatorArms, OperatorClears, market, books
<1>5. CASE UNCHANGED runnerVars
  BY <1>5, NothingMoves DEF runnerVars, flattenVars, market, books
<1>. QED BY <1>1, <1>2, <1>3, <1>4, <1>5 DEF RunnerNext

\* Every trip that put something on a venue is closed with the risk manager
\* exactly once, and with the context its realised cost is computed from, for
\* all quantities, floors, lags, faults and failures; between the halves of a
\* tick check_invariants holds.
THEOREM RunnerBooksOnce ==
    RunnerSpec => [](BookedOnce /\ CtxMatchesTrip /\ MachineConsistent)
<1>1. RunnerInv => BookedOnce /\ CtxMatchesTrip /\ MachineConsistent
  BY DEF RunnerInv, Resting, Sound, MachineConsistent
<1>. QED BY <1>1, RunnerStarts, RunnerSteps, PTL DEF RunnerSpec

\* A held position always has the context it was entered with, and an emergency
\* one that it can be charged from (entry_dispatch.rs:318-380, live.rs:626-639).
THEOREM RunnerKeepsContext == RunnerSpec => []CtxMatchesTrip
<1>1. BookedOnce /\ CtxMatchesTrip /\ MachineConsistent
     => CtxMatchesTrip
  OBVIOUS
<1> QED BY <1>1, RunnerBooksOnce, PTL

(***************************************************************************)
(* The types of the runner.                                                 *)
(***************************************************************************)
BooksOK ==
    /\ ctx \in {None} \cup [Leg -> Nat]
    /\ baseline \in [Leg -> {None} \cup Nat]
    /\ history \in [Leg -> Nat]
    /\ enterFails \in 0..EnterKill
    /\ orphans \in SUBSET Leg
    /\ trips \in 0..MaxTrips
    /\ misread \in Nat

RunnerTypes == VenueOK /\ ThrottleOK /\ SwitchOK /\ BooksOK

\* The first half of a tick touches neither the throttle nor the count of rejections.
LEMMA TickHalf ==
    ASSUME ThrottleOK, SwitchOK, RunOneTick
    PROVE  ThrottleOK' /\ arm' \in {"strategy", "flatten"} /\ fails' \in 0..Kill
BY DEF RunOneTick, throttle, ThrottleOK, SwitchOK

\* A trip that starts grows the venues by what was filled.
LEMMA StartsTypes ==
    ASSUME RunnerTypes, NEW m, NEW filled \in [Leg -> Nat], NEW w \in Nat, Starts(m, filled, w)
    PROVE  /\ VenueOK' /\ BooksOK'
           /\ stuck' \in BOOLEAN /\ closing' \in SUBSET Leg /\ faults' \in 0..MaxFaults
<1>. USE DEF RunnerTypes
<1>1. Plus(venue, filled) \in [Leg -> Nat] /\ late + w \in Nat
  BY DEF Plus, VenueOK
<1>2. VenueOK'
  BY <1>1, VenueMovesType, FlattenAssumption DEF Starts, VenueOK
<1>3. trips' \in 0..MaxTrips /\ enterFails' \in 0..EnterKill
  BY RunnerAssumption DEF Starts, MayEnter, BooksOK
<1>4. ctx' \in {None} \cup [Leg -> Nat] /\ UNCHANGED <<baseline, history, orphans, misread>>
  BY DEF Starts
<1>. QED BY <1>2, <1>3, <1>4 DEF Starts, SwitchOK, BooksOK

\* An exit closes at most what a venue has, its failed reads are counted, and what it
\* erases is a size.
LEMMA ExitTypes ==
    ASSUME RunnerInv, RunnerTypes, Summarised(machine), NEW r \in ExitReason, NEW shut \in [Leg -> Nat], NEW filled \in [Leg -> Nat],
           NEW lagging, Exit(r, shut, filled, lagging)
    PROVE  /\ VenueOK' /\ BooksOK'
           /\ stuck' \in BOOLEAN /\ closing' \in SUBSET Leg /\ faults' \in 0..MaxFaults
<1>. USE DEF RunnerTypes
<1>1. venue' \in [Leg -> Nat] /\ cache' \in [Leg -> Nat]
  BY DEF Exit, VenueOK
<1>2. stale' \in [Leg -> 0..Lag]
  BY FlattenAssumption DEF Exit, Zero
<1>3. VenueOK'
  BY <1>1, <1>2 DEF Exit, VenueOK
<1>4. faults' \in Nat
  <2>1. \A unread \in SUBSET Leg : Cardinality(unread) \in Nat
    <3>1. IsFiniteSet(Leg)
      <4>1. IsFiniteSet({"ext"})
        BY FS_Singleton
      <4>2. IsFiniteSet({"ext"} \cup {"lt"}) /\ Leg = {"ext"} \cup {"lt"}
        BY <4>1, FS_AddElement DEF Leg
      <4>. QED BY <4>2
    <3>. QED BY <3>1, FS_Subset, FS_CardinalityType
  <2>2. faults \in Nat
    BY FlattenAssumption DEF SwitchOK
  <2>3. faults' = faults \/ \E unread \in SUBSET Leg : faults' = faults + Cardinality(unread)
    BY DEF Exit, ExitDone, ExitBroken
  <2>. QED BY <2>1, <2>2, <2>3
<1>5. faults' \in 0..MaxFaults
  BY <1>4, FlattenAssumption DEF Exit
<1>6. history' \in [Leg -> Nat]
  BY DEF Exit, Plus, BooksOK
<1>7. orphans' \in SUBSET Leg
  <2>1. orphans \in SUBSET Leg
    BY DEF BooksOK
  <2>2. ASSUME NEW m, ExitDone(m, filled, cache')
        PROVE  orphans' = orphans
    BY <2>2 DEF ExitDone
  <2>3. ASSUME NEW m, ExitBroken(m, filled)
        PROVE  \E pending \in {{}} \cup {{l} : l \in Leg} :
                  orphans' = orphans \cup {l \in pending : venue'[l] > 0}
    BY <2>3 DEF ExitBroken
  <2>4. \A pending \in {{}} \cup {{l} : l \in Leg} : {l \in pending : venue'[l] > 0} \in SUBSET Leg
    OBVIOUS
  <2>5. \E m : ExitDone(m, filled, cache') \/ ExitBroken(m, filled)
    BY DEF Exit
  <2>. QED BY <2>1, <2>2, <2>3, <2>4, <2>5
<1>8. ctx' \in {None, ctx} /\ UNCHANGED <<baseline, enterFails, trips>>
  BY DEF Exit, ExitDone, ExitBroken
<1>9. misread' \in Nat
  <2>. DEFINE m == Apply(machine, ExitSignal(r))
  <2>1. Winding(m) /\ (ExitDone(m, filled, cache') \/ ExitBroken(m, filled))
    BY ExitOutcome
  <2>. HIDE DEF m
  <2>2. misread \in Nat
    BY DEF BooksOK
  <2>3. \A unread : Erased(FlushSubMin(ExitFills(m, filled)), cache', unread) \in Nat
    BY <2>1, ErasedType
  <2>. QED BY <2>1, <2>2, <2>3 DEF ExitDone, ExitBroken
<1>10. BooksOK'
  BY <1>6, <1>7, <1>8, <1>9 DEF BooksOK
<1>. QED BY <1>3, <1>5, <1>10 DEF Exit, SwitchOK

\* The first half of the tick.
LEMMA RunOneTickTypes ==
    ASSUME RunnerInv, RunnerTypes, RunOneTick PROVE RunnerTypes'
<1>. USE DEF RunnerTypes
<1>1. ASSUME VenueOK', BooksOK', stuck' \in BOOLEAN, closing' \in SUBSET Leg,
             faults' \in 0..MaxFaults
      PROVE  RunnerTypes'
  BY <1>1, TickHalf DEF SwitchOK
<1>2. ASSUME NEW q \in Qty, NEW ql \in LtQty, NEW w \in 0..ql, EnterHalf(q, w) PROVE RunnerTypes'
  <2>1. w \in Nat /\ PerLeg(q, 0) \in [Leg -> Nat]
    BY QtyIsPositive, LtQtyIsPositive DEF PerLeg
  <2>. QED BY <1>1, <1>2, <2>1, StartsTypes DEF EnterHalf
<1>3. ASSUME NEW q \in Qty, NEW ql \in LtQty, EnterBoth(q, ql) PROVE RunnerTypes'
  <2>1. PerLeg(q, ql) \in [Leg -> Nat]
    BY QtyIsPositive, LtQtyIsPositive DEF PerLeg
  <2>. QED BY <1>1, <1>3, <2>1, StartsTypes DEF EnterBoth
<1>4. ASSUME NEW timedOut \in BOOLEAN, EnterFails(timedOut) PROVE RunnerTypes'
  <2>1. enterFails' \in 0..EnterKill
    BY <1>4, RunnerAssumption DEF EnterFails, Least, BooksOK
  <2>2. stuck' \in BOOLEAN
    BY <1>4 DEF EnterFails, ArmStuck, SwitchOK
  <2>3. UNCHANGED <<market, faults, ctx, baseline, trips, misread, history, orphans>>
    BY <1>4 DEF EnterFails, books
  <2>. QED BY <1>1, <2>1, <2>2, <2>3 DEF market, VenueOK, SwitchOK, BooksOK
<1>5. CASE Exits
  <2>1. PICK r \in ExitReason, lagging \in IF Lag > 0 THEN SUBSET Leg ELSE {{}},
             se \in 0..machine.position.open["ext"], fe \in 0..machine.position.open["ext"],
             st \in 0..machine.position.open["lt"], ft \in 0..machine.position.open["lt"] :
             Exit(r, PerLeg(se, st), PerLeg(fe, ft), lagging)
    BY <1>5 DEF Exits
  <2>2. PerLeg(se, st) \in [Leg -> Nat] /\ PerLeg(fe, ft) \in [Leg -> Nat]
    BY DEF PerLeg
  <2>. QED BY <1>1, <1>5, <2>1, <2>2, ExitTypes DEF Exits
<1>6. CASE Breached \/ Idle
  <2>1. UNCHANGED <<market, stuck, faults, ctx, baseline, trips, misread, history, enterFails,
                    orphans>>
    BY <1>6 DEF Breached, Idle, books
  <2>. QED BY <1>1, <2>1 DEF market, VenueOK, SwitchOK, BooksOK
<1>. QED BY <1>2, <1>3, <1>4, <1>5, <1>6 DEF RunOneTick

\* The second half of the tick, and everything that goes on around it.
LEMMA AroundTypes ==
    ASSUME RunnerTypes, EndOfTick \/ Venues \/ Clock \/ Operates PROVE RunnerTypes'
<1>. USE DEF RunnerTypes
<1>1. CASE Surroundings
  <2>1. VenueOK' /\ ThrottleOK' /\ SwitchOK'
    BY <1>1, VenueStep, ThrottleStep, SwitchStep
  <2>2. CASE EndOfTick
    <3>1. \A failed \in SUBSET Leg : Snapshot(failed) \in [Leg -> {None} \cup Nat]
      BY DEF Snapshot, BooksOK
    <3>2. Unset \in [Leg -> {None} \cup Nat]
      BY DEF Unset
    <3>3. HistoryReads \subseteq SUBSET Leg
      BY DEF HistoryReads
    <3>4. baseline' \in [Leg -> {None} \cup Nat]
      BY <2>2, <3>1, <3>2, <3>3 DEF EndOfTick
    <3>5. ctx' \in {None, ctx} /\ UNCHANGED <<history, enterFails, orphans, trips, misread>>
      BY <2>2 DEF EndOfTick, Swept
    <3>. QED BY <2>1, <3>4, <3>5 DEF BooksOK
  <2>3. CASE Venues
    <3>1. history' \in [Leg -> Nat]
      BY <2>1, <2>3 DEF Venues, Traded, Plus, Grown, VenueOK, BooksOK
    <3>. QED BY <2>1, <2>3, <3>1 DEF Venues, Traded, BooksOK
  <2>4. CASE Clock \/ Operates
    BY <2>1, <2>4 DEF Clock, Operates, books, BooksOK
  <2>. QED BY <2>2, <2>3, <2>4
<1>2. ASSUME NEW l \in Leg, NEW r \in 0..venue[l], OrphanFills(l, r), Traded PROVE RunnerTypes'
  <2>1. [venue EXCEPT ![l] = r] \in [Leg -> Nat]
    BY <1>2 DEF VenueOK
  <2>2. VenueOK'
    BY <1>2, <2>1, VenueMovesType DEF OrphanFills, VenueOK
  <2>3. ThrottleOK' /\ SwitchOK'
    BY <1>2 DEF OrphanFills, throttle, switch, ThrottleOK, SwitchOK
  <2>4. history' \in [Leg -> Nat]
    BY <1>2, <2>2 DEF Traded, Plus, Grown, VenueOK, BooksOK
  <2>. QED BY <1>2, <2>2, <2>3, <2>4 DEF Traded, BooksOK
<1>. QED BY <1>1, <1>2 DEF EndOfTick, Venues, Clock, Operates, Surroundings

\* The types of the start.
LEMMA TypesStart == RunnerInit => RunnerTypes
<1>. SUFFICES ASSUME RunnerInit PROVE RunnerTypes
  OBVIOUS
<1>1. VenueOK /\ ThrottleOK /\ SwitchOK
  BY TypeInit DEF RunnerInit, TypeInv
<1>2. enterFails \in 0..EnterKill /\ trips \in 0..MaxTrips
  BY RunnerAssumption DEF RunnerInit
<1>. QED BY <1>1, <1>2 DEF RunnerInit, Unset, Zero, RunnerTypes, BooksOK

\* Every step keeps the types.
LEMMA TypeSteps == RunnerInv /\ RunnerTypes /\ [RunnerNext]_runnerVars => RunnerTypes'
<1>1. ASSUME RunnerTypes, UNCHANGED runnerVars PROVE RunnerTypes'
  BY <1>1 DEF runnerVars, flattenVars, throttle, switch, market, books,
              RunnerTypes, VenueOK, ThrottleOK, SwitchOK, BooksOK
<1>. QED BY <1>1, RunOneTickTypes, AroundTypes DEF RunnerNext

\* Every variable of the runner keeps its type, the emergency's included: its attempts
\* never pass the cap, and its counters never their thresholds.
THEOREM RunnerTypeCorrect == RunnerSpec => []RunnerTypeOK
<1>1. RunnerInv /\ RunnerTypes => RunnerTypeOK
  BY DEF RunnerInv, Resting, Sound, PutOK, RunnerTypes, VenueOK, ThrottleOK, SwitchOK, BooksOK,
         FlattenTypeOK, RunnerTypeOK
<1>. QED BY <1>1, RunnerStarts, TypesStart, RunnerSteps, TypeSteps, PTL DEF RunnerSpec

(***************************************************************************)
(* What an emergency books.  Nothing closes on a venue while a trip is held *)
(* or before the first round of an emergency: no close is in flight and no  *)
(* order of an exit is working.  So the baselines predate every close, what *)
(* was put on the venues is still there or in the history since, and when   *)
(* the grace ends there is nothing left there.                              *)
(***************************************************************************)

\* A close is in flight only right after a round of an emergency, and an exit order
\* is working only in the emergency its exit broke into, with its leg open.
InFlight ==
    /\ closing # {} => InEmergency /\ baseline # Unset /\ sinceAttempt < Interval
    /\ orphans # {} => InEmergency /\ trip.tried
    /\ \A l \in orphans : venue[l] > 0

BaselineOK == baseline # Unset => InEmergency /\ baseline \in [Leg -> Nat]

\* What has been closed since the baselines were taken.
Since(l) == IF baseline = Unset THEN 0 ELSE history[l] - baseline[l]

Accounted ==
    /\ machine.phase = "Held" => ~trip.tried
    /\ machine.phase \in {"Held", "EmergencyFlattening"} /\ ~trip.tried =>
        \A l \in Leg : trip.put[l] = venue[l] + Since(l)

RecoveryInv == ReadsBounded /\ InFlight /\ BaselineOK /\ Accounted /\ RecoveryIsComplete

\* Outside an emergency nothing is under way.
LEMMA CalmFacts ==
    ASSUME VenueOK, RecoveryInv, ~InEmergency
    PROVE  zeroFor = Never /\ late = 0 /\ closing = {} /\ orphans = {} /\ baseline = Unset
BY DEF RecoveryInv, ReadsBounded, InFlight, BaselineOK, VenueOK

\* A trip that starts has put on the venues what is there.
LEMMA StartsRecovery ==
    ASSUME RunnerTypes, VenueOK', RecoveryInv, NEW m, NEW filled, NEW w \in Nat,
           Starts(m, filled, w), UNCHANGED throttle,
           m.phase \in {"Held", "EmergencyFlattening"}, m.phase = "Held" => w = 0
    PROVE  RecoveryInv'
<1>1. zeroFor = Never /\ late = 0 /\ closing = {} /\ orphans = {} /\ baseline = Unset
  BY CalmFacts DEF RunnerTypes, Starts, MayEnter, InEmergency
<1>2. /\ machine' = m /\ late' = late + w /\ zeroFor' = zeroFor
      /\ UNCHANGED <<closing, orphans, baseline>> /\ ledger' = None
  BY DEF Starts, throttle
<1>3. trip' = [NoTrip EXCEPT !.put = venue']
  BY DEF Starts
<1>4. trip'.put = venue' /\ trip'.tried = FALSE
  BY <1>3 DEF NoTrip
<1>5. ReadsBounded'
  BY <1>1, <1>2, ReadsFresh DEF RunnerTypes, InEmergency
<1>6. InFlight' /\ BaselineOK'
  BY <1>1, <1>2 DEF InFlight, BaselineOK, Unset
<1>7. Accounted'
  BY <1>1, <1>2, <1>4 DEF Accounted, Since, Unset, VenueOK
<1>. QED BY <1>2, <1>5, <1>6, <1>7 DEF RecoveryInv, RecoveryIsComplete

\* An exit books, or leaves a trip that has been tried to the emergency.
LEMMA ExitRecovery ==
    ASSUME RunnerInv, RunnerTypes, VenueOK', RecoveryInv, Summarised(machine), NEW r \in ExitReason,
           NEW shut \in [Leg -> Nat], NEW filled \in [Leg -> Nat], NEW lagging,
           Exit(r, shut, filled, lagging), UNCHANGED throttle
    PROVE  RecoveryInv'
<1>1. zeroFor = Never /\ late = 0 /\ closing = {} /\ orphans = {} /\ baseline = Unset
  BY CalmFacts DEF RunnerTypes, Summarised, InEmergency
<1>2. zeroFor' = Never /\ late' = 0 /\ UNCHANGED <<closing, baseline>>
  BY <1>1 DEF Exit, throttle
<1>3. ReadsBounded'
  BY <1>2, ReadsFresh DEF RunnerTypes
<1>4. BaselineOK' /\ closing' = {}
  BY <1>1, <1>2 DEF BaselineOK, Unset
<1>5. \/ ExitDone(Apply(machine, ExitSignal(r)), filled, cache') /\ Winding(machine')
      \/ /\ ExitBroken(Apply(machine, ExitSignal(r)), filled)
         /\ machine'.phase = "EmergencyFlattening"
  BY ExitOutcome
<1>6. ASSUME NEW m, ExitDone(m, filled, cache'), Winding(machine') PROVE RecoveryInv'
  <2>1. orphans' = {} /\ ledger'.by = "exit"
    BY <1>1, <1>6 DEF ExitDone, Book
  <2>2. Accounted'
    BY <1>6 DEF Accounted, Winding
  <2>. QED BY <1>3, <1>4, <2>1, <2>2 DEF RecoveryInv, InFlight, RecoveryIsComplete
<1>7. ASSUME NEW m, ExitBroken(m, filled), machine'.phase = "EmergencyFlattening"
      PROVE  RecoveryInv'
  <2>1. trip' = [trip EXCEPT !.tried = TRUE] /\ ledger' = ledger
    BY <1>7 DEF ExitBroken
  <2>2. trip'.tried
    BY <2>1 DEF RunnerInv, PutOK
  <2>3. \A l \in orphans' : venue'[l] > 0
    BY <1>1, <1>7 DEF ExitBroken
  <2>4. InFlight' /\ Accounted'
    BY <1>4, <1>7, <2>2, <2>3 DEF InFlight, Accounted, InEmergency
  <2>. QED BY <1>3, <1>4, <2>1, <2>4 DEF RecoveryInv, RecoveryIsComplete
<1>. QED BY <1>5, <1>6, <1>7

\* The first half of the tick.
LEMMA RunOneTickRecovery ==
    ASSUME RunnerInv, RunnerTypes, RunnerTypes', RecoveryInv, RunOneTick
    PROVE  RecoveryInv'
<1>. USE DEF RunnerTypes
<1>1. UNCHANGED throttle
  BY DEF RunOneTick, throttle
<1>2. ASSUME NEW q \in Qty, NEW ql \in LtQty, NEW w \in 0..ql, EnterHalf(q, w) PROVE RecoveryInv'
  <2>1. Sound(machine) /\ machine.phase = "Flat" /\ w \in Nat
    BY <1>2, LtQtyIsPositive DEF RunnerInv, Resting, EnterHalf, Starts, MayEnter
  <2>. QED BY <1>1, <1>2, <2>1, EntryPhases, StartsRecovery DEF EnterHalf
<1>3. ASSUME NEW q \in Qty, NEW ql \in LtQty, EnterBoth(q, ql) PROVE RecoveryInv'
  <2>1. Sound(machine) /\ machine.phase = "Flat"
    BY <1>3 DEF RunnerInv, Resting, EnterBoth, Starts, MayEnter
  <2>. QED BY <1>1, <1>3, <2>1, EntryIsHeld, StartsRecovery DEF EnterBoth
<1>4. ASSUME UNCHANGED <<market, ctx, baseline, ledger, trip, history, orphans>>,
             \/ machine' = machine
             \/ machine.phase = "Held" /\ machine'.phase = "EmergencyFlattening"
      PROVE  RecoveryInv'
  <2>1. ReadsBounded' /\ InFlight' /\ BaselineOK'
    BY <1>1, <1>4 DEF market, throttle, InEmergency, RecoveryInv, ReadsBounded, InFlight,
                      BaselineOK, Unset
  <2>2. Accounted' /\ RecoveryIsComplete'
    BY <1>4 DEF market, RecoveryInv, Accounted, Since, Unset, RecoveryIsComplete
  <2>. QED BY <2>1, <2>2 DEF RecoveryInv
<1>5. ASSUME NEW timedOut \in BOOLEAN, EnterFails(timedOut) PROVE RecoveryInv'
  BY <1>4, <1>5, FailedEntry DEF books
<1>6. CASE Exits
  <2>1. PICK r \in ExitReason, lagging \in IF Lag > 0 THEN SUBSET Leg ELSE {{}},
             se \in 0..machine.position.open["ext"], fe \in 0..machine.position.open["ext"],
             st \in 0..machine.position.open["lt"], ft \in 0..machine.position.open["lt"] :
             Exit(r, PerLeg(se, st), PerLeg(fe, ft), lagging)
    BY <1>6 DEF Exits
  <2>2. PerLeg(se, st) \in [Leg -> Nat] /\ PerLeg(fe, ft) \in [Leg -> Nat]
    BY DEF PerLeg
  <2>. QED BY <1>1, <1>6, <2>1, <2>2, ExitRecovery DEF Exits
<1>7. CASE Breached
  <2>1. PICK r \in EmergencyReason : machine' = Apply(machine, Emergency(r))
    BY <1>7, FlattenAssumption, RunnerAssumption DEF Breached
  <2>2. machine.phase = "Held" /\ machine'.phase = "EmergencyFlattening"
    BY <1>7, <2>1, HeldFacts, EmergencyFrom DEF Breached, Summarised
  <2>. QED BY <1>4, <1>7, <2>2 DEF Breached, books
<1>8. CASE Idle
  BY <1>4, <1>8 DEF Idle, books
<1>. QED BY <1>2, <1>3, <1>5, <1>6, <1>7, <1>8 DEF RunOneTick

\* The second half of the tick takes the baselines before the first close, and books
\* what the history holds beyond them once nothing is left on the venues.
LEMMA EndOfTickRecovery ==
    ASSUME RunnerInv, RunnerTypes, RecoveryInv, EndOfTick, Grace > LateBy + Lag, ~HistoryMayFail
    PROVE  RecoveryInv'
<1>. USE DEF RunnerTypes
<1>1. ReadsBounded'
  BY ReadsStep DEF EndOfTick, Surroundings, RecoveryInv
<1>2. UNCHANGED <<venue, late, history, orphans>>
  BY HandlerEffect DEF EndOfTick
<1>3. CASE ~InEmergency
  <2>1. baseline = Unset /\ closing = {} /\ orphans = {}
    BY <1>3, CalmFacts
  <2>2. machine' = machine /\ closing' = closing
    BY <1>3 DEF EndOfTick, Handler, NotFlattening, Waits, ReadFails, ZeroRead, Completes,
                CloseRound, Round, market
  <2>3. baseline' = Unset /\ UNCHANGED <<ledger, trip>>
    BY <1>3 DEF EndOfTick
  <2>4. InFlight' /\ BaselineOK'
    BY <1>2, <2>1, <2>2, <2>3 DEF InFlight, BaselineOK, Unset
  <2>5. Accounted' /\ RecoveryIsComplete'
    BY <1>2, <2>1, <2>2, <2>3 DEF RecoveryInv, Accounted, Since, Unset, RecoveryIsComplete
  <2>. QED BY <1>1, <2>4, <2>5 DEF RecoveryInv
<1>4. HistoryReads = {{}}
  BY DEF HistoryReads
<1>5. Snapshot({}) = IF baseline = Unset THEN history ELSE baseline
  <2>1. CASE baseline = Unset
    BY <2>1 DEF Snapshot, Unset, BooksOK
  <2>2. CASE baseline # Unset
    <3>1. baseline \in [Leg -> Nat] /\ \A l \in Leg : baseline[l] # None
      BY <2>2, RunnerAssumption DEF RecoveryInv, BaselineOK
    <3>. QED BY <2>2, <3>1 DEF Snapshot
  <2>. QED BY <2>1, <2>2
<1>6. CASE InEmergency /\ ~Completes
  <2>1. machine' = machine /\ (closing' = {} \/ sinceAttempt' = 0 \/
                               (closing' = closing /\ sinceAttempt' = sinceAttempt))
    BY <1>6 DEF EndOfTick, Handler, NotFlattening, Waits, ReadFails, ZeroRead, CloseRound,
                market, throttle
  <2>2. ~Ends
    BY <1>6, <2>1 DEF Ends, InEmergency
  <2>3. baseline' = Snapshot({}) /\ UNCHANGED <<ledger, trip>>
    BY <1>4, <1>6, <2>2 DEF EndOfTick
  <2>4. baseline' \in [Leg -> Nat]
    BY <1>5, <2>3 DEF RecoveryInv, BaselineOK, BooksOK
  <2>5. baseline' # Unset
    <3>1. "ext" \in Leg
      BY DEF Leg
    <3>. QED BY <2>4, <3>1, RunnerAssumption DEF Unset
  <2>6. InFlight'
    BY <1>2, <1>6, <2>1, <2>3, <2>5, FlattenAssumption
       DEF RecoveryInv, InFlight, InEmergency, Unset, ThrottleOK
  <2>7. BaselineOK'
    BY <1>6, <2>1, <2>4 DEF BaselineOK, InEmergency
  <2>8. \A l \in Leg : history[l] - baseline'[l] = Since(l)
    <3>1. \A l \in Leg : history[l] \in Nat
      BY DEF BooksOK
    <3>. QED BY <1>5, <2>3, <3>1 DEF Since
  <2>9. \A l \in Leg : Since(l)' = Since(l)
    BY <1>2, <2>5, <2>8 DEF Since, Unset
  <2>10. Accounted' /\ RecoveryIsComplete'
    BY <1>2, <2>1, <2>3, <2>9 DEF RecoveryInv, Accounted, RecoveryIsComplete
  <2>. QED BY <1>1, <2>6, <2>7, <2>10 DEF RecoveryInv
<1>7. CASE InEmergency /\ Completes
  <2>1. machine' = Flat /\ venue = Zero
    BY <1>7, CompletePhase, CompletesFlat
       DEF Completes, InEmergency, RunnerInv, Resting, RecoveryInv
  <2>2. closing' = {}
    BY <1>7, FlattenAssumption DEF Completes, Round, Due, market, RecoveryInv, InFlight, ThrottleOK
  <2>3. orphans' = {}
    BY <1>2, <2>1 DEF RecoveryInv, InFlight, BooksOK, Zero
  <2>4. Ends
    BY <1>7, <2>1 DEF Ends, Flat
  <2>5. baseline' = Unset /\ Book("emergency", Recovered(Snapshot({}), TRUE))
    BY <1>4, <1>7, <2>4 DEF EndOfTick
  <2>6. /\ trip'.tried = trip.tried /\ trip'.put = trip.put
        /\ ledger'.put = trip.put /\ ledger'.tried = trip.tried
        /\ ledger'.exited = Recovered(Snapshot({}), TRUE)
    BY <2>5 DEF Book, RunnerInv, PutOK
  <2>7. Recovered(Snapshot({}), TRUE) = [l \in Leg |-> history[l] - Snapshot({})[l]]
    BY <1>7 DEF Recovered, RunnerInv, CtxMatchesTrip
  <2>8. ASSUME ~trip.tried PROVE Recovered(Snapshot({}), TRUE) = trip.put
    <3>1. ASSUME NEW l \in Leg PROVE history[l] - Snapshot({})[l] = trip.put[l]
      <4>1. trip.put[l] = venue[l] + Since(l) /\ venue[l] = 0
        BY <1>7, <2>1, <2>8 DEF RecoveryInv, Accounted, InEmergency, Zero
      <4>2. trip.put[l] \in Nat /\ history[l] \in Nat
        BY DEF RunnerInv, PutOK, BooksOK
      <4>3. CASE baseline = Unset
        BY <1>5, <4>1, <4>2, <4>3 DEF Since
      <4>4. CASE baseline # Unset
        <5>1. baseline[l] \in Nat
          BY <4>4 DEF RecoveryInv, BaselineOK
        <5>. QED BY <1>5, <4>1, <4>2, <4>4, <5>1 DEF Since
      <4>. QED BY <4>3, <4>4
    <3>. QED BY <2>7, <3>1 DEF RunnerInv, PutOK
  <2>9. InFlight' /\ BaselineOK'
    BY <2>2, <2>3, <2>5 DEF InFlight, BaselineOK, Unset
  <2>10. Accounted' /\ RecoveryIsComplete'
    BY <2>1, <2>6, <2>8 DEF Accounted, RecoveryIsComplete, Flat
  <2>. QED BY <1>1, <2>9, <2>10 DEF RecoveryInv
<1>. QED BY <1>3, <1>6, <1>7

\* What moves on a venue is in the history when it shrinks and in the trip when it
\* grows; without a close or an order of an exit, nothing shrinks.
LEMMA VenuesConserve ==
    ASSUME RunnerInv, RunnerTypes, RunnerTypes', Venues, NEW l \in Leg
    PROVE  /\ trip'.put[l] + history[l] + venue[l] = trip.put[l] + history'[l] + venue'[l]
           /\ closing = {} /\ orphans = {} => history'[l] = history[l]
<1>. USE DEF RunnerTypes
<1>1. /\ trip' = [trip EXCEPT !.put = Plus(@, Grown(venue, venue'))]
      /\ history' = Plus(history, Grown(venue', venue))
  BY DEF Venues, Traded
<1>2. /\ trip'.put[l] = trip.put[l] + Grown(venue, venue')[l]
      /\ history'[l] = history[l] + Grown(venue', venue)[l]
  BY <1>1 DEF RunnerInv, PutOK, Plus
<1>3. venue[l] \in Nat /\ venue'[l] \in Nat /\ trip.put[l] \in Nat /\ history[l] \in Nat
  BY DEF VenueOK, RunnerInv, PutOK, BooksOK
<1>4. /\ Grown(venue, venue')[l] = IF venue'[l] > venue[l] THEN venue'[l] - venue[l] ELSE 0
      /\ Grown(venue', venue)[l] = IF venue[l] > venue'[l] THEN venue[l] - venue'[l] ELSE 0
  BY DEF Grown
<1>5. ASSUME closing = {}, orphans = {} PROVE venue'[l] >= venue[l]
  <2>1. \/ \E k \in Leg : Refresh(k)
        \/ LateFill \/ LateDies
    BY <1>5 DEF Venues, Market, CloseFills, OrphanFills
  <2>2. CASE LateFill
    <3>1. venue' = [venue EXCEPT !["lt"] = @ + late] /\ late \in Nat
      BY <2>2 DEF LateFill, VenueMoves, VenueOK
    <3>. QED BY <1>3, <3>1 DEF VenueOK
  <2>. QED BY <1>3, <2>1, <2>2 DEF Refresh, LateDies
<1>. QED BY <1>2, <1>3, <1>4, <1>5

\* The venues.
LEMMA VenuesRecovery ==
    ASSUME RunnerInv, RunnerTypes, RunnerTypes', RecoveryInv, Venues, Grace > LateBy + Lag
    PROVE  RecoveryInv'
<1>. USE DEF RunnerTypes
<1>1. UNCHANGED <<machine, throttle, ctx, baseline, ledger>> /\ closing' \subseteq closing
  BY DEF Venues, Market, Refresh, CloseFills, LateFill, LateDies, OrphanFills, Traded
<1>2. trip'.tried = trip.tried /\ orphans' = orphans \cap {l \in Leg : venue'[l] > 0}
  <2>1. trip' = [trip EXCEPT !.put = Plus(@, Grown(venue, venue'))]
    BY DEF Venues, Traded
  <2>. QED BY <2>1 DEF Venues, Traded, RunnerInv, PutOK
<1>3. ReadsBounded'
  <2>1. CASE Market
    BY <2>1, ReadsStep DEF Surroundings, RecoveryInv
  <2>2. ASSUME NEW l \in Leg, NEW r \in 0..venue[l], OrphanFills(l, r) PROVE ReadsBounded'
    BY <2>2, ShrinkKeepsReads DEF OrphanFills, RecoveryInv
  <2>. QED BY <2>1, <2>2 DEF Venues
<1>4. InFlight' /\ BaselineOK'
  BY <1>1, <1>2 DEF RecoveryInv, InFlight, BaselineOK, InEmergency, Unset, throttle
<1>5. Accounted'
  <2>1. ASSUME machine.phase \in {"Held", "EmergencyFlattening"}, ~trip.tried, NEW l \in Leg
        PROVE  trip'.put[l] = venue'[l] + Since(l)'
    <3>1. /\ trip.put[l] = venue[l] + Since(l) /\ orphans = {}
          /\ baseline = Unset => closing = {}
      BY <2>1 DEF RecoveryInv, Accounted, InFlight
    <3>2. /\ trip'.put[l] + history[l] + venue[l] = trip.put[l] + history'[l] + venue'[l]
          /\ baseline = Unset => history'[l] = history[l]
      BY <3>1, VenuesConserve
    <3>3. /\ venue[l] \in Nat /\ venue'[l] \in Nat /\ trip.put[l] \in Nat
          /\ history[l] \in Nat /\ history'[l] \in Nat
          /\ trip'.put[l] \in Int
      <4>1. trip'.put[l] = trip.put[l] + Grown(venue, venue')[l]
        BY DEF Venues, Traded, RunnerInv, PutOK, Plus
      <4>2. /\ venue[l] \in Nat /\ venue'[l] \in Nat /\ trip.put[l] \in Nat
            /\ history[l] \in Nat /\ history'[l] \in Nat
        BY DEF VenueOK, RunnerInv, PutOK, BooksOK
      <4>. QED BY <4>1, <4>2 DEF Grown
    <3>4. CASE baseline = Unset
      <4>1. Since(l) = 0 /\ Since(l)' = 0
        BY <1>1, <3>4 DEF Since, Unset
      <4>. QED BY <3>1, <3>2, <3>3, <3>4, <4>1
    <3>5. CASE baseline # Unset
      <4>1. Since(l) = history[l] - baseline[l] /\ Since(l)' = history'[l] - baseline[l]
        BY <1>1, <3>5 DEF Since, Unset
      <4>2. baseline[l] \in Nat
        BY <3>5 DEF RecoveryInv, BaselineOK
      <4>3. \A p, q, h, k, v, w, b \in Int :
                p = v + (h - b) /\ q + h + v = p + k + w => q = w + (k - b)
        OBVIOUS
      <4>4. trip.put[l] = venue[l] + (history[l] - baseline[l])
        BY <3>1, <4>1
      <4>5. trip'.put[l] = venue'[l] + (history'[l] - baseline[l])
        BY <3>2, <3>3, <4>2, <4>3, <4>4
      <4>. QED BY <4>1, <4>5
    <3>. QED BY <3>4, <3>5
  <2>. QED BY <1>1, <1>2, <2>1 DEF RecoveryInv, Accounted
<1>. QED BY <1>1, <1>3, <1>4, <1>5 DEF RecoveryInv, RecoveryIsComplete

\* Every step of the runner keeps the accounts.
LEMMA RecoverySteps ==
    ASSUME RunnerInv, RunnerTypes, RunnerTypes', RecoveryInv, [RunnerNext]_runnerVars,
           Grace > LateBy + Lag, ~HistoryMayFail
    PROVE  RecoveryInv'
<1>1. CASE RunOneTick
  BY <1>1, RunOneTickRecovery
<1>2. CASE EndOfTick
  BY <1>2, EndOfTickRecovery
<1>3. CASE Venues
  BY <1>3, VenuesRecovery
<1>4. ASSUME UNCHANGED <<machine, venue, closing, ctx, baseline, ledger, trip, history, orphans>>,
             closing = {} \/ sinceAttempt' = sinceAttempt, ReadsBounded'
      PROVE  RecoveryInv'
  <2>1. InFlight' /\ BaselineOK'
    BY <1>4 DEF InEmergency, RecoveryInv, InFlight, BaselineOK, Unset
  <2>2. Accounted' /\ RecoveryIsComplete'
    BY <1>4 DEF RecoveryInv, Accounted, Since, Unset, RecoveryIsComplete
  <2>. QED BY <1>4, <2>1, <2>2 DEF RecoveryInv
<1>5. CASE Clock \/ Operates
  <2>1. ReadsBounded'
    BY <1>5, ReadsStep DEF Clock, Operates, Surroundings, RunnerTypes, RecoveryInv
  <2>. QED BY <1>4, <1>5, <2>1
           DEF Clock, Operates, Tick, OperatorArms, OperatorClears, throttle, market, books
<1>6. CASE UNCHANGED runnerVars
  <2>1. ReadsBounded'
    BY <1>6 DEF runnerVars, flattenVars, throttle, market, InEmergency, RecoveryInv, ReadsBounded
  <2>. QED BY <1>4, <1>6, <2>1 DEF runnerVars, flattenVars, throttle, market, books
<1>. QED BY <1>1, <1>2, <1>3, <1>5, <1>6 DEF RunnerNext

\* An emergency that no exit went before books every contract there was on the venues:
\* the baselines predate all its closes, and a grace longer than both lags lets the
\* last ones land (live.rs:720-829).  Both history reads have to succeed.
THEOREM EmergencyBooksEverything ==
    ASSUME Grace > LateBy + Lag, ~HistoryMayFail
    PROVE  RunnerSpec => []RecoveryIsComplete
<1>1. RunnerInit => RunnerInv /\ RunnerTypes /\ RecoveryInv
  <2>. SUFFICES ASSUME RunnerInit PROVE RecoveryInv
    BY RunnerStarts, TypesStart
  <2>1. machine.phase = "Flat" /\ GraceInv
    BY GraceInit DEF RunnerInit, FlattenInit, MachineInit, Flat
  <2>2. InFlight /\ BaselineOK
    BY DEF RunnerInit, FlattenInit, InFlight, BaselineOK
  <2>. QED BY <2>1, <2>2 DEF RunnerInit, GraceInv, Accounted, RecoveryInv, RecoveryIsComplete
<1>2. RunnerInv /\ RunnerTypes /\ RecoveryInv /\ [RunnerNext]_runnerVars
      => RunnerInv' /\ RunnerTypes' /\ RecoveryInv'
  BY RunnerSteps, TypeSteps, RecoverySteps
<1>3. RecoveryInv => RecoveryIsComplete
  BY DEF RecoveryInv
<1>. QED BY <1>1, <1>2, <1>3, PTL DEF RunnerSpec

(***************************************************************************)
(* What a flat runner has forgotten.  A held position is recorded up to the *)
(* dust of the earlier trips and what they misread; an exit drops a         *)
(* recorded size only below the minimum order size, when the venue is below *)
(* the floor, or as misread, and an emergency ends on empty venues.         *)
(***************************************************************************)
Dust(n) == n * (Floor("lt") - 1)

DustInv ==
    Floor("lt") > 0 =>
        /\ machine.phase = "Flat" => venue["lt"] <= Dust(trips) + misread
        /\ machine.phase = "Held" =>
            /\ trips > 0
            /\ venue["lt"] <= machine.position.open["lt"] + Dust(trips - 1) + misread

\* The dust of one trip more.
LEMMA DustGrows ==
    ASSUME Floor("lt") > 0
    PROVE  /\ Floor("lt") \in Nat /\ Floor("lt") >= MinQty["lt"] /\ MinQty["lt"] \in Nat
           /\ \A n \in Nat : Dust(n) \in Nat /\ Dust(n + 1) = Dust(n) + (Floor("lt") - 1)
<1>1. Floor("lt") \in Nat /\ Floor("lt") >= MinQty["lt"] /\ MinQty["lt"] \in Nat
  BY RunnerAssumption DEF Floor, Leg
<1>2. \A n, c \in Nat : n * c \in Nat /\ (n + 1) * c = n * c + c
  OBVIOUS
<1>. QED BY <1>1, <1>2 DEF Dust

\* What a fill of a leg leaves recorded of it.
LEMMA OpenAfterFill ==
    ASSUME NEW m, Winding(m), NEW l \in Leg, NEW q \in Nat, NEW k \in Leg
    PROVE  Open(ExitFill(m, l, q))[k] =
             IF k # l THEN Open(m)[k] ELSE IF Open(m)[k] > q THEN Open(m)[k] - q ELSE 0
<1>1. Open(m) \in [Leg -> Nat]
  BY OpenType DEF Winding
<1>2. CASE q = 0
  BY <1>1, <1>2 DEF ExitFill
<1>3. CASE q > 0 /\ m.phase = "Flat"
  <2>1. ExitFill(m, l, q) = m
    BY <1>3 DEF ExitFill, Apply, ExitFilled, Accepts
  <2>2. Open(m) = [j \in Leg |-> 0]
    BY <1>3 DEF Winding, Sound, CheckInvariants, Open, Recorded
  <2>. QED BY <1>3, <2>1, <2>2
<1>4. CASE q > 0 /\ m.phase = "Exiting"
  <2>. DEFINE p == m.position
              d == Drained(p, l, q)
  <2>1. p \in Position /\ d \in Position /\ Apply(m, ExitFilled(l, q)) = OnExitFilled("Exiting", p, l, q)
    BY <1>4, ExitFilledIs DEF Winding
  <2>2. Open(m) = p.open
    BY <2>1, MachineAssumption DEF Open, Recorded
  <2>3. d.open[k] = IF k # l THEN p.open[k] ELSE IF p.open[k] > q THEN p.open[k] - q ELSE 0
    BY <2>1 DEF Drained, Position
  <2>4. Open(OnExitFilled("Exiting", p, l, q))[k] = d.open[k]
    <3>. HIDE DEF p
    <3>1. CASE NoneOpen(d)
      <4>1. OnExitFilled("Exiting", p, l, q) = Flat
        BY <3>1 DEF OnExitFilled
      <4>. QED BY <3>1, <4>1 DEF Flat, Open, Recorded, NoneOpen
    <3>2. CASE ~ NoneOpen(d)
      <4>1. OnExitFilled("Exiting", p, l, q) = At("Exiting", d)
        BY <3>2 DEF OnExitFilled
      <4>. QED BY <2>1, <4>1, MachineAssumption DEF At, Open, Recorded
    <3>. QED BY <3>1, <3>2
  <2>. QED BY <1>4, <2>1, <2>2, <2>3, <2>4 DEF ExitFill
<1>. QED BY <1>2, <1>3, <1>4 DEF Winding

\* ... and a fill of both.
LEMMA OpenAfterFills ==
    ASSUME NEW m, Winding(m), NEW q \in [Leg -> Nat]
    PROVE  /\ Winding(ExitFills(m, q)) /\ Open(ExitFills(m, q)) \in [Leg -> Nat]
           /\ \A k \in Leg : Open(ExitFills(m, q))[k] =
                IF Open(m)[k] > q[k] THEN Open(m)[k] - q[k] ELSE 0
<1>1. Winding(ExitFills(m, q)) /\ Open(ExitFills(m, q)) \in [Leg -> Nat]
  BY ExitFillsWind, OpenType DEF Winding
<1>2. Winding(ExitFill(m, "ext", q["ext"])) /\ "ext" \in Leg /\ "lt" \in Leg /\ Leg = {"ext", "lt"}
  BY ExitFillWinds DEF Leg
<1>. QED BY <1>1, <1>2, OpenAfterFill DEF ExitFills

\* The size an exit leaves recorded of Lighter: a residual is dropped only when it, or
\* what is on the venue, is below the floor, or it counts as erased.
LEMMA ReconcileDrops ==
    ASSUME NEW m, Winding(m), NEW filled \in [Leg -> Nat], NEW seen, NEW unread
    PROVE  LET flushed == FlushSubMin(ExitFills(m, filled))
               left == IF Open(m)["lt"] > filled["lt"] THEN Open(m)["lt"] - filled["lt"] ELSE 0
           IN  Reconcile(flushed, seen, unread).phase = "Flat" =>
                 \/ left = 0 \/ left < MinQty["lt"]
                 \/ ~ (venue'["lt"] >= Floor("lt"))
                 \/ Erased(flushed, seen, unread) = left
<1>. DEFINE n == ExitFills(m, filled)
            f == [l \in Leg |-> IF Open(n)[l] < MinQty[l] THEN Open(n)[l] ELSE 0]
            k == ExitFills(n, f)
            r == [l \in Leg |-> IF l \notin unread /\ CurrentPositionSize(l, seen) < Floor(l)
                                THEN Open(k)[l] ELSE 0]
            left == IF Open(m)["lt"] > filled["lt"] THEN Open(m)["lt"] - filled["lt"] ELSE 0
<1>1. Winding(n) /\ Open(n) \in [Leg -> Nat] /\ Open(n)["lt"] = left /\ "lt" \in Leg
  BY OpenAfterFills DEF Leg
<1>. HIDE DEF n, left
<1>2. f \in [Leg -> Nat]
  BY <1>1
<1>3. Winding(k) /\ Open(k) \in [Leg -> Nat]
  BY <1>1, <1>2, OpenAfterFills
<1>4. Open(k)["lt"] = IF Open(n)["lt"] > f["lt"] THEN Open(n)["lt"] - f["lt"] ELSE 0
  BY <1>1, <1>2, OpenAfterFills
<1>5. left < MinQty["lt"] \/ Open(k)["lt"] = left
  BY <1>1, <1>4
<1>. HIDE DEF k
<1>6. /\ r \in [Leg -> Nat]
      /\ r["lt"] = 0 \/ ("lt" \notin unread /\ CurrentPositionSize("lt", seen) < Floor("lt"))
  BY <1>1, <1>3
<1>7. /\ Winding(ExitFills(k, r))
      /\ Open(ExitFills(k, r))["lt"] = IF Open(k)["lt"] > r["lt"] THEN Open(k)["lt"] - r["lt"] ELSE 0
  BY <1>1, <1>3, <1>6, OpenAfterFills
<1>8. ASSUME ExitFills(k, r).phase = "Flat" PROVE Open(ExitFills(k, r))["lt"] = 0
  BY <1>1, <1>7, <1>8 DEF Winding, Sound, CheckInvariants, Open, Recorded
<1>9. ASSUME ExitFills(k, r).phase = "Flat", r["lt"] = 0 PROVE Open(k)["lt"] = 0
  BY <1>1, <1>3, <1>7, <1>8, <1>9
<1>10. /\ Reconcile(FlushSubMin(ExitFills(m, filled)), seen, unread) = ExitFills(k, r)
       /\ FlushSubMin(ExitFills(m, filled)) = k
  BY DEF Reconcile, FlushSubMin, k, n
<1>11. ASSUME r["lt"] # 0, venue'["lt"] >= Floor("lt") PROVE Erased(k, seen, unread) = Open(k)["lt"]
  BY <1>6, <1>11 DEF Erased
<1>. QED BY <1>5, <1>9, <1>10, <1>11 DEF left

\* A trip adds what was filled to the venue and to the record alike.
LEMMA StartsDust ==
    ASSUME RunnerTypes, DustInv, NEW m, NEW filled \in [Leg -> Nat], NEW w, Starts(m, filled, w),
           m.phase \in {"Held", "EmergencyFlattening"}, m.phase = "Held" => m.position.open = filled
    PROVE  DustInv'
<1>1. /\ machine.phase = "Flat" /\ machine' = m /\ trips' = trips + 1 /\ trips \in Nat
      /\ misread' = misread /\ misread \in Nat
      /\ venue'["lt"] = venue["lt"] + filled["lt"] /\ venue["lt"] \in Nat /\ filled["lt"] \in Nat
  BY DEF Starts, MayEnter, VenueMoves, Plus, RunnerTypes, VenueOK, BooksOK, Leg
<1>2. CASE Floor("lt") > 0
  <2>1. \A n \in Nat : Dust(n) \in Nat
    BY <1>2, DustGrows
  <2>2. venue["lt"] <= Dust(trips) + misread /\ trips + 1 - 1 = trips /\ trips + 1 > 0
    BY <1>1, <1>2 DEF DustInv
  <2>3. venue'["lt"] <= filled["lt"] + Dust(trips) + misread
    BY <1>1, <2>1, <2>2
  <2>. QED BY <1>1, <2>2, <2>3 DEF DustInv, Floor, Dust
<1>. QED BY <1>2 DEF DustInv, Floor

\* An exit that leaves the runner flat forgets less than the floor, or counts it as
\* misread.
LEMMA ExitDust ==
    ASSUME RunnerInv, RunnerTypes, DustInv, Summarised(machine), NEW r \in ExitReason,
           NEW shut \in [Leg -> Nat], NEW filled \in [Leg -> Nat], NEW lagging,
           Exit(r, shut, filled, lagging)
    PROVE  DustInv'
<1>. DEFINE m == Apply(machine, ExitSignal(r))
<1>1. /\ Winding(m) /\ Open(m) = machine.position.open
      /\ \/ ExitDone(m, filled, cache') /\ Winding(machine')
         \/ machine'.phase = "EmergencyFlattening"
  BY ExitOutcome
<1>. HIDE DEF m
<1>2. CASE machine'.phase # "Flat"
  BY <1>1, <1>2 DEF DustInv, Winding
<1>3. CASE machine'.phase = "Flat" /\ Floor("lt") > 0
  <2>. DEFINE open == machine.position.open["lt"]
              left == IF open > filled["lt"] THEN open - filled["lt"] ELSE 0
  <2>1. /\ machine.phase = "Held" /\ "lt" \in Leg
        /\ venue["lt"] <= open + Dust(trips - 1) + misread /\ trips > 0
    BY <1>3 DEF Summarised, DustInv, Leg
  <2>2. /\ venue["lt"] \in Nat /\ shut["lt"] \in Nat /\ filled["lt"] \in Nat /\ trips \in Nat
        /\ open \in Nat /\ misread \in Nat
    BY <2>1, HeldFacts DEF RunnerTypes, VenueOK, BooksOK
  <2>3. venue'["lt"] = venue["lt"] - shut["lt"] /\ filled["lt"] <= shut["lt"] /\ trips' = trips
    BY <2>1 DEF Exit
  <2>5. /\ Floor("lt") \in Nat /\ Floor("lt") >= MinQty["lt"] /\ MinQty["lt"] \in Nat
        /\ Dust(trips - 1) \in Nat /\ Dust(trips) = Dust(trips - 1) + (Floor("lt") - 1)
    <3>1. trips - 1 \in Nat /\ (trips - 1) + 1 = trips
      BY <2>1, <2>2
    <3>. QED BY <1>3, <3>1, DustGrows
  <2>. DEFINE flushed == FlushSubMin(ExitFills(m, filled))
              e(unread) == Erased(flushed, cache', unread)
  <2>6. PICK unread \in SUBSET Leg :
          /\ machine' = Reconcile(flushed, cache', unread)
          /\ misread' = misread + e(unread)
    BY <1>1, <1>3 DEF ExitDone
  <2>7. left = 0 \/ left < MinQty["lt"] \/ ~ (venue'["lt"] >= Floor("lt")) \/ e(unread) = left
    BY <1>1, <1>3, <2>6, ReconcileDrops
  <2>8. e(unread) \in Nat
    BY <1>1, ErasedType
  <2>. HIDE DEF open, e
  <2>9. venue'["lt"] <= left + Dust(trips - 1) + misread
    BY <2>1, <2>2, <2>3, <2>5
  <2>10. left \in Nat /\ venue'["lt"] \in Int
    BY <2>2, <2>3
  <2>. HIDE DEF left
  <2>11. venue'["lt"] <= Dust(trips) + misread'
    BY <1>3, <2>2, <2>5, <2>6, <2>7, <2>8, <2>9, <2>10
  <2>. QED BY <1>3, <2>3, <2>11 DEF DustInv, Floor, Dust
<1>. QED BY <1>2, <1>3 DEF DustInv, Floor

\* The first half of the tick.
LEMMA RunOneTickDust ==
    ASSUME RunnerInv, RunnerTypes, DustInv, RunOneTick
    PROVE  DustInv'
<1>1. ASSUME NEW q \in Qty, NEW ql \in LtQty, NEW w \in 0..ql, EnterHalf(q, w) PROVE DustInv'
  <2>1. Sound(machine) /\ machine.phase = "Flat" /\ PerLeg(q, 0) \in [Leg -> Nat]
    BY <1>1, QtyIsPositive DEF RunnerInv, Resting, EnterHalf, Starts, MayEnter, PerLeg
  <2>. QED BY <1>1, <2>1, EntryPhases, StartsDust DEF EnterHalf
<1>2. ASSUME NEW q \in Qty, NEW ql \in LtQty, EnterBoth(q, ql) PROVE DustInv'
  <2>1. Sound(machine) /\ machine.phase = "Flat" /\ PerLeg(q, ql) \in [Leg -> Nat]
    BY <1>2, QtyIsPositive, LtQtyIsPositive
       DEF RunnerInv, Resting, EnterBoth, Starts, MayEnter, PerLeg
  <2>. QED BY <1>2, <2>1, EntryIsHeld, StartsDust DEF EnterBoth
<1>3. ASSUME UNCHANGED <<venue, trips, misread>>,
             machine' = machine \/ machine'.phase = "EmergencyFlattening"
      PROVE  DustInv'
  BY <1>3 DEF DustInv, Floor, Dust
<1>4. ASSUME NEW timedOut \in BOOLEAN, EnterFails(timedOut) PROVE DustInv'
  BY <1>3, <1>4, FailedEntry DEF market, books
<1>5. CASE Exits
  <2>1. PICK r \in ExitReason, lagging \in IF Lag > 0 THEN SUBSET Leg ELSE {{}},
             se \in 0..machine.position.open["ext"], fe \in 0..machine.position.open["ext"],
             st \in 0..machine.position.open["lt"], ft \in 0..machine.position.open["lt"] :
             Exit(r, PerLeg(se, st), PerLeg(fe, ft), lagging)
    BY <1>5 DEF Exits
  <2>2. PerLeg(se, st) \in [Leg -> Nat] /\ PerLeg(fe, ft) \in [Leg -> Nat]
    BY DEF PerLeg
  <2>. QED BY <1>5, <2>1, <2>2, ExitDust DEF Exits
<1>6. CASE Breached
  <2>1. PICK r \in EmergencyReason : machine' = Apply(machine, Emergency(r))
    BY <1>6, FlattenAssumption, RunnerAssumption DEF Breached
  <2>2. machine'.phase = "EmergencyFlattening"
    BY <1>6, <2>1, HeldFacts, EmergencyFrom DEF Breached, Summarised
  <2>. QED BY <1>3, <1>6, <2>2 DEF Breached, market, books
<1>7. CASE Idle
  BY <1>3, <1>7 DEF Idle, market, books
<1>. QED BY <1>1, <1>2, <1>4, <1>5, <1>6, <1>7 DEF RunOneTick

\* Every step of the runner keeps the dust below the floor of every trip.
LEMMA DustSteps ==
    ASSUME RunnerInv, RunnerTypes, ReadsBounded, DustInv, [RunnerNext]_runnerVars,
           Grace > LateBy + Lag
    PROVE  DustInv'
<1>1. CASE RunOneTick
  BY <1>1, RunOneTickDust
<1>2. ASSUME UNCHANGED <<machine, trips, misread>>, venue'["lt"] <= venue["lt"], venue'["lt"] \in Nat
      PROVE  DustInv'
  <2>1. trips \in Nat /\ venue["lt"] \in Nat /\ misread \in Nat
    BY DEF RunnerTypes, VenueOK, BooksOK, Leg
  <2>2. CASE Floor("lt") > 0 /\ machine.phase = "Flat"
    <3>1. Dust(trips) \in Nat
      BY <2>1, <2>2, DustGrows
    <3>. QED BY <1>2, <2>1, <2>2, <3>1 DEF DustInv, Floor, Dust
  <2>3. CASE Floor("lt") > 0 /\ machine.phase = "Held"
    <3>1. trips > 0 /\ venue["lt"] <= machine.position.open["lt"] + Dust(trips - 1) + misread
      BY <2>3 DEF DustInv
    <3>2. trips - 1 \in Nat
      BY <2>1, <3>1
    <3>3. Dust(trips - 1) \in Nat /\ machine.position.open["lt"] \in Nat
      BY <2>3, <3>2, DustGrows, HeldFacts DEF Leg
    <3>4. venue'["lt"] <= machine.position.open["lt"] + Dust(trips - 1) + misread
      BY <1>2, <2>1, <3>1, <3>3
    <3>. QED BY <1>2, <2>3, <3>1, <3>4 DEF DustInv, Floor, Dust
  <2>. QED BY <1>2, <2>2, <2>3 DEF DustInv, Floor
<1>3. CASE EndOfTick
  <2>1. CASE Completes
    <3>1. venue' = Zero /\ trips' = trips /\ trips \in Nat /\ misread' \in Nat
      BY <1>3, <2>1, CompletesFlat, FlattenAssumption DEF RunnerTypes, EndOfTick, BooksOK
    <3>2. machine' = Flat
      BY <2>1, CompletePhase DEF Completes, Round, InEmergency, RunnerInv, Resting
    <3>3. CASE Floor("lt") > 0
      <4>1. Dust(trips) \in Nat /\ venue'["lt"] = 0
        BY <3>1, <3>3, DustGrows DEF Zero, Leg
      <4>. QED BY <3>1, <3>2, <4>1 DEF DustInv, Flat, Floor, Dust
    <3>. QED BY <3>3 DEF DustInv, Floor
  <2>2. CASE ~Completes
    <3>1. UNCHANGED <<machine, venue, trips, misread>>
      BY <1>3, <2>2 DEF EndOfTick, Handler, NotFlattening, Waits, ReadFails, ZeroRead, CloseRound,
                        market
    <3>. QED BY <3>1 DEF DustInv, Floor, Dust
  <2>. QED BY <2>1, <2>2
<1>4. CASE Venues
  <2>1. CASE machine.phase \in {"Flat", "Held"}
    <3>1. late = 0
      BY <2>1 DEF RunnerTypes, ReadsBounded, InEmergency, VenueOK
    <3>2. /\ UNCHANGED <<machine, trips, misread>> /\ venue' \in [Leg -> Nat]
          /\ \A l \in Leg : venue'[l] <= venue[l]
      BY <1>4, <3>1, MarketEffect DEF Venues, Traded
    <3>3. venue'["lt"] <= venue["lt"] /\ venue'["lt"] \in Nat
      BY <3>2 DEF Leg
    <3>. QED BY <1>2, <3>2, <3>3
  <2>2. CASE machine.phase \notin {"Flat", "Held"}
    BY <1>4, <2>2, MarketEffect DEF DustInv
  <2>. QED BY <2>1, <2>2
<1>5. CASE Clock \/ Operates \/ UNCHANGED runnerVars
  <2>1. UNCHANGED <<machine, venue, trips, misread>>
    BY <1>5 DEF Clock, Operates, Tick, OperatorArms, OperatorClears, market, books, runnerVars,
                flattenVars
  <2>. QED BY <2>1 DEF DustInv, Floor, Dust
<1>. QED BY <1>1, <1>3, <1>4, <1>5 DEF RunnerNext

\* ReadsBounded holds of the runner whether its history reads fail or not.
LEMMA RunnerReads ==
    ASSUME RunnerInv, RunnerTypes, RunnerTypes', ReadsBounded, [RunnerNext]_runnerVars,
           Grace > LateBy + Lag
    PROVE  ReadsBounded'
<1>. USE DEF RunnerTypes
<1>1. CASE Surroundings
  BY <1>1, ReadsStep
<1>2. ASSUME NEW l \in Leg, NEW r \in 0..venue[l], OrphanFills(l, r) PROVE ReadsBounded'
  BY <1>2, ShrinkKeepsReads DEF OrphanFills
<1>3. CASE RunOneTick
  <2>1. CASE UNCHANGED <<market, machine>>
    BY <1>3, <2>1 DEF RunOneTick, market, throttle, InEmergency, ReadsBounded
  <2>2. CASE machine.phase \in {"Flat", "Held"}
    <3>1. zeroFor' = Never /\ late = 0
      BY <1>3, <2>2 DEF RunOneTick, throttle, ReadsBounded, InEmergency, VenueOK
    <3>2. ASSUME NEW q \in Qty, NEW ql \in LtQty, NEW w \in 0..ql, EnterHalf(q, w) PROVE InEmergency'
      BY <3>2, EntryPhases
         DEF EnterHalf, Starts, MayEnter, InEmergency, RunnerInv, Resting
    <3>3. ASSUME NEW q \in Qty, NEW ql \in LtQty, EnterBoth(q, ql) PROVE late' = 0
      BY <3>1, <3>3 DEF EnterBoth, Starts
    <3>4. ASSUME Exits \/ Breached \/ Idle \/ \E timedOut \in BOOLEAN : EnterFails(timedOut)
          PROVE  late' = late
      BY <3>4 DEF Exits, Exit, Breached, Idle, EnterFails, market
    <3>. QED BY <1>3, <3>1, <3>2, <3>3, <3>4, ReadsFresh DEF RunOneTick
  <2>. QED BY <1>3, <2>1, <2>2 DEF RunOneTick, EnterHalf, EnterBoth, Starts, EnterFails, MayEnter,
                                   Exits, Breached, Summarised, Idle
<1>4. CASE UNCHANGED runnerVars
  BY <1>4 DEF runnerVars, flattenVars, throttle, market, InEmergency, ReadsBounded
<1>. QED BY <1>1, <1>2, <1>3, <1>4
         DEF RunnerNext, EndOfTick, Venues, Clock, Operates, Surroundings

\* A runner that is flat has left on Lighter at most a residual below the floor per
\* trip (#418) and what its reconciles misread in a cache that trailed the fills, for
\* every lag of that cache: flushing and flattening never forget more.
THEOREM FlatForgetsOnlyDust ==
    ASSUME Grace > LateBy + Lag
    PROVE  RunnerSpec => []DustIsBounded
<1>1. RunnerInit => RunnerInv /\ RunnerTypes /\ ReadsBounded /\ DustInv
  <2>. SUFFICES ASSUME RunnerInit PROVE ReadsBounded /\ DustInv
    BY RunnerStarts, TypesStart
  <2>1. machine.phase = "Flat" /\ GraceInv /\ venue["lt"] = 0 /\ trips = 0 /\ misread = 0
    BY GraceInit DEF RunnerInit, FlattenInit, MachineInit, Flat, Zero, Leg
  <2>2. Floor("lt") > 0 => Dust(trips) \in Nat
    BY <2>1, DustGrows
  <2>. QED BY <2>1, <2>2 DEF GraceInv, DustInv
<1>2. RunnerInv /\ RunnerTypes /\ ReadsBounded /\ DustInv /\ [RunnerNext]_runnerVars
      => RunnerInv' /\ RunnerTypes' /\ ReadsBounded' /\ DustInv'
  BY RunnerSteps, TypeSteps, RunnerReads, DustSteps
<1>3. DustInv => DustIsBounded
  BY DEF DustInv, DustIsBounded, Dust
<1>. QED BY <1>1, <1>2, <1>3, PTL DEF RunnerSpec

=============================================================================

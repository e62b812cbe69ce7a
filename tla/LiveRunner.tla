----------------------------- MODULE LiveRunner -----------------------------
(***************************************************************************)
(* The live runner: the loop of src/src/xvenue/live.rs with the dispatch of *)
(* a decision (entry_dispatch.rs, exit_dispatch.rs), the emergency flatten  *)
(* of EmergencyFlatten, and the bookkeeping of a round trip: the entry      *)
(* context, the fill baselines of an emergency, and the close recorded with *)
(* the risk manager.                                                        *)
(*                                                                          *)
(* A dispatch runs to its end inside one tick, so it is one action; what    *)
(* the leg executors report (a quantity, or Failed) may be less than what   *)
(* the venue did.  Prices are left out: a booking keeps the quantities that *)
(* compute_realised_pnl works on.  All trips have one direction, so every   *)
(* close in the fill history is on the side an emergency looks for.         *)
(***************************************************************************)
EXTENDS EmergencyFlatten, FiniteSets

CONSTANTS
    LtQty,          \* sizes of a Lighter fill, in lots of its own (Qty: of Extended)
    MinQty,         \* ext_min_qty and lt_min_qty
    DustQty,        \* dust_qty
    EnterKill,      \* enter_timeout_consec_fail_to_kill
    HistoryMayFail, \* list_filled_orders may fail
    MaxTrips        \* bound: round trips

ASSUME RunnerAssumption ==
    /\ LtQty \subseteq Nat \ {0} /\ MinQty \in [Leg -> Nat] /\ DustQty \in Nat
    /\ EnterKill \in Nat \ {0} /\ HistoryMayFail \in BOOLEAN /\ MaxTrips \in Nat
    /\ {"LegMismatchTimeout", "SessionDdHalted"} \subseteq EmergencyReason
    /\ None \notin Nat /\ None \notin [Leg -> Nat]

VARIABLES
    ctx,        \* live_entry_ctx: the quantities of the entry, or None
    baseline,   \* emergency_*_pre_fills: the history that predates the emergency
    history,    \* close-side quantity in the fill history of every venue
    enterFails, \* consecutive Timeout entries, counted up to EnterKill
    orphans,    \* legs whose exit order was left working on the venue
    ledger,     \* the close of the current or last trip, as recorded with the risk
                \* manager, or None before it is
    trip,       \* of the current or last trip: what was put on the venues (put,
                \* with what earlier trips left there), whether an exit broke
                \* (tried), and how often it was booked
    trips,      \* trips so far
    misread     \* what reconciles erased of Lighter legs that the venue itself, asked
                \* at that moment, had at or above the floor

books == <<ctx, baseline, ledger, trip, trips, misread>>
runnerVars == <<flattenVars, books, history, enterFails, orphans>>

Unset == [l \in Leg |-> None]
NoTrip == [put |-> Zero, tried |-> FALSE, booked |-> 0]

RunnerInit ==
    /\ FlattenInit
    /\ ctx = None /\ baseline = Unset /\ history = Zero
    /\ enterFails = 0 /\ orphans = {}
    /\ ledger = None /\ trip = NoTrip /\ trips = 0 /\ misread = 0

PerLeg(e, t) == [l \in Leg |-> IF l = "ext" THEN e ELSE t]
Grown(from, to) == [l \in Leg |-> IF to[l] > from[l] THEN to[l] - from[l] ELSE 0]
Plus(f, g) == [l \in Leg |-> f[l] + g[l]]

(***************************************************************************)
(* Closing the books on a trip: record_close, with the quantities that      *)
(* compute_realised_pnl is given.  It returns zero, fees included, as soon  *)
(* as one leg has no exit quantity.                                         *)
(***************************************************************************)
Book(by, exited) ==
    /\ ledger' = [by |-> by, entered |-> IF ctx = None THEN Zero ELSE ctx,
                  exited |-> exited, put |-> trip.put, tried |-> trip.tried]
    /\ trip' = [trip EXCEPT !.booked = @ + 1]

(***************************************************************************)
(* Decision::Enter.                                                         *)
(***************************************************************************)
MayEnter == machine.phase = "Flat" /\ ~stuck /\ trips < MaxTrips

\* A trip that puts something on the venues: the fill of Extended clears the
\* count of timeouts.
Starts(m, filled, w) ==
    /\ MayEnter
    /\ machine' = m
    /\ VenueMoves(Plus(venue, filled))
    /\ late' = late + w /\ sinceFailed' = 0
    /\ ctx' = filled
    /\ trip' = [NoTrip EXCEPT !.put = venue']
    /\ trips' = trips + 1 /\ ledger' = None
    /\ enterFails' = 0
    /\ UNCHANGED <<cache, closing, stuck, faults, history, baseline, orphans, misread>>

\* The context of a half-open trip has a Lighter quantity of zero.
EnterHalf(q, w) == Starts(Apply(Entered(q), LighterFailed), PerLeg(q, 0), w)

EnterBoth(q, ql) == Starts(Apply(Entered(q), LighterFilled(ql)), PerLeg(q, ql), 0)

\* Extended reports Failed; only Timeouts count towards STUCK.  That its order may
\* still fill, on a machine that is Flat again, is left out.
EnterFails(timedOut) ==
    /\ MayEnter
    /\ machine' = Apply(Apply(machine, EntrySignal), ExtendedFailed)
    /\ enterFails' = IF timedOut THEN Least(enterFails + 1, EnterKill) ELSE enterFails
    /\ ArmStuck(timedOut /\ enterFails' >= EnterKill)
    /\ UNCHANGED <<market, faults, books, history, orphans>>

(***************************************************************************)
(* Decision::Exit.  The legs are closed in parallel with reduce-only        *)
(* orders; the executors report what they saw of it.                        *)
(***************************************************************************)
Open(m) == Recorded(m)

ExitFill(m, l, q) == IF q > 0 THEN Apply(m, ExitFilled(l, q)) ELSE m

ExitFills(m, q) == ExitFill(ExitFill(m, "ext", q["ext"]), "lt", q["lt"])

\* Mutant: a residual of exactly the minimum is flushed too.
FlushUpToMin(m) ==
    ExitFills(m, [l \in Leg |-> IF Open(m)[l] <= MinQty[l] THEN Open(m)[l] ELSE 0])

\* flush_sub_min_exit_residuals: what is left below the minimum order size of a
\* leg is taken as closed.
FlushSubMin(m) ==
    ExitFills(m, [l \in Leg |-> IF Open(m)[l] < MinQty[l] THEN Open(m)[l] ELSE 0])

Floor(l) == IF DustQty > MinQty[l] THEN DustQty ELSE MinQty[l]

\* current_position_size looks up the configured symbol.  Extended answers with
\* normalised names ("ETH" for "ETH-USD"), so its position is never found.
CurrentPositionSize(l, seen) == IF l = "ext" THEN 0 ELSE seen[l]

\* reconcile_open_qty_with_exchange: a leg the venue reads below the floor is
\* taken as closed; a leg above it, or one whose read fails, is left as it is.
Reconcile(m, seen, unread) ==
    ExitFills(m, [l \in Leg |-> IF l \notin unread /\ CurrentPositionSize(l, seen) < Floor(l)
                                THEN Open(m)[l] ELSE 0])

\* What a reconcile that reads seen erases of Lighter against its own rule: the
\* venue is at or above the floor, a genuine partial.
Erased(m, seen, unread) ==
    IF "lt" \notin unread /\ CurrentPositionSize("lt", seen) < Floor("lt")
       /\ venue'["lt"] >= Floor("lt")
    THEN Open(m)["lt"] ELSE 0

\* Both executors report a fill: the trip is booked whatever is left open.
ExitDone(m, filled, seen) ==
    LET flushed == FlushSubMin(ExitFills(m, filled)) IN
    /\ \A l \in Leg : filled[l] > 0
    /\ \E unread \in SUBSET Leg :
        /\ machine' = Reconcile(flushed, seen, unread)
        /\ misread' = misread + Erased(flushed, seen, unread)
        /\ faults' = faults + Cardinality(unread)
    /\ Book("exit", filled)
    /\ ctx' = None /\ UNCHANGED orphans

\* A leg failed, or was still pending at the mismatch deadline, when its order
\* is left working: the fills there are get applied and the context is kept
\* for the emergency.
ExitBroken(m, filled) ==
    /\ \E l \in Leg : filled[l] = 0
    /\ machine' = Apply(ExitFills(m, filled), Emergency("LegMismatchTimeout"))
    /\ \E pending \in {{}} \cup {{l} : l \in Leg} :
        /\ \A l \in pending : filled[l] = 0
        /\ orphans' = orphans \cup {l \in pending : venue'[l] > 0}
    /\ trip' = [trip EXCEPT !.tried = TRUE]
    /\ UNCHANGED <<faults, ctx, ledger, misread>>

\* The venues close shut, the executors report at most that, and the caches of
\* the legs in lagging still show what they showed before.
Exit(reason, shut, filled, lagging) ==
    LET m == Apply(machine, ExitSignal(reason)) IN
    /\ \A l \in Leg : shut[l] <= venue[l] /\ filled[l] <= shut[l]
    /\ venue' = [l \in Leg |-> venue[l] - shut[l]]
    /\ cache' = [l \in Leg |-> IF l \in lagging THEN cache[l] ELSE venue'[l]]
    /\ stale' = Zero
    /\ history' = Plus(history, shut)
    /\ ExitDone(m, filled, cache') \/ ExitBroken(m, filled)
    /\ faults' <= MaxFaults
    /\ UNCHANGED <<closing, late, sinceFailed, stuck, enterFails, baseline, trips>>

Exits ==
    /\ Summarised(machine)
    /\ \E reason \in ExitReason, lagging \in IF Lag > 0 THEN SUBSET Leg ELSE {{}} :
        \E se, fe \in 0..machine.position.open["ext"], st, ft \in 0..machine.position.open["lt"] :
            Exit(reason, PerLeg(se, st), PerLeg(fe, ft), lagging)

(***************************************************************************)
(* The skew watchdog and the forced flatten on a session halt.              *)
(***************************************************************************)
Breached ==
    /\ Summarised(machine)
    /\ \E r \in {"SkewBreach", "SessionDdHalted"} : machine' = Apply(machine, Emergency(r))
    /\ UNCHANGED <<market, stuck, faults, books, history, enterFails, orphans>>

Idle == UNCHANGED <<machine, market, stuck, faults, books, history, enterFails, orphans>>

RunOneTick ==
    /\ arm = "strategy" /\ arm' = "flatten"
    /\ \/ \E q \in Qty, ql \in LtQty : \E w \in 0..ql : EnterHalf(q, w)
       \/ \E q \in Qty, ql \in LtQty : EnterBoth(q, ql)
       \/ \E timedOut \in BOOLEAN : EnterFails(timedOut)
       \/ Exits
       \/ Breached
       \/ Idle
    /\ UNCHANGED <<throttle, fails>>

(***************************************************************************)
(* The second half of the tick: handle_emergency_flatten_tick with its fill *)
(* baselines, and the sweep that drops the context in Flat.                 *)
(***************************************************************************)
\* Mutant: every tick of an emergency closes the trip.
EndsEachTick == InEmergency

Ends == InEmergency /\ machine'.phase = "Flat"

\* Mutant: the baseline is taken again on every tick.
SnapshotEachTick(failed) == [l \in Leg |-> IF l \in failed THEN 0 ELSE history[l]]

\* The baseline of a leg is taken once per emergency; a failed read leaves an
\* empty one.
Snapshot(failed) ==
    [l \in Leg |-> IF baseline[l] # None THEN baseline[l]
                   ELSE IF l \in failed THEN 0 ELSE history[l]]

\* compute_emergency_realised_pnl: the closes that are in the history and not
\* in the baseline, or nothing when the context or the history is missing.
Recovered(since, answered) ==
    IF ctx = None \/ ~answered THEN Zero ELSE [l \in Leg |-> history[l] - since[l]]

\* Mutant: the sweep drops the context of an emergency too.
SweptUnlessHeld == IF machine'.phase = "Held" THEN ctx ELSE None

\* What the sweep at the end of the tick leaves of the context.
Swept == IF machine'.phase = "Flat" THEN None ELSE ctx

HistoryReads == IF HistoryMayFail THEN SUBSET Leg ELSE {{}}

EndOfTick ==
    /\ Handler
    /\ IF ~InEmergency THEN baseline' = Unset /\ UNCHANGED <<ledger, trip>>
       ELSE \E failed, unanswered \in HistoryReads :
            IF Ends THEN /\ Book("emergency", Recovered(Snapshot(failed), unanswered = {}))
                         /\ baseline' = Unset
                    ELSE baseline' = Snapshot(failed) /\ UNCHANGED <<ledger, trip>>
    /\ ctx' = Swept
    /\ UNCHANGED <<history, enterFails, orphans, trips, misread>>

(***************************************************************************)
(* The venues.  A reduce-only order left working dies with its position.    *)
(***************************************************************************)
Traded ==
    /\ history' = Plus(history, Grown(venue', venue))
    /\ trip' = [trip EXCEPT !.put = Plus(@, Grown(venue, venue'))]
    /\ orphans' = orphans \cap {l \in Leg : venue'[l] > 0}
    /\ UNCHANGED <<ctx, baseline, ledger, trips, misread, enterFails>>

OrphanFills(l, r) ==
    /\ l \in orphans /\ r < venue[l]
    /\ VenueMoves([venue EXCEPT ![l] = r])
    /\ UNCHANGED <<machine, arm, throttle, switch, cache, closing, late, sinceFailed, faults>>

Venues == (Market \/ \E l \in Leg : \E r \in 0..venue[l] : OrphanFills(l, r)) /\ Traded

Clock == Tick /\ UNCHANGED <<books, history, enterFails, orphans>>

Operates ==
    (OperatorArms \/ OperatorClears) /\ UNCHANGED <<books, history, enterFails, orphans>>

RunnerNext == RunOneTick \/ EndOfTick \/ Venues \/ Clock \/ Operates

RunnerSpec == RunnerInit /\ [][RunnerNext]_runnerVars

RunnerFairSpec ==
    /\ RunnerSpec
    /\ WF_runnerVars(RunOneTick) /\ WF_runnerVars(EndOfTick)
    /\ WF_runnerVars(Venues)     /\ WF_runnerVars(Clock)

(***************************************************************************)
(* Properties.                                                              *)
(***************************************************************************)

\* Every variable has its type, those of the emergency included.
RunnerTypeOK ==
    /\ FlattenTypeOK
    /\ ctx \in {None} \cup [Leg -> Nat]
    /\ baseline \in [Leg -> {None} \cup Nat]
    /\ history \in [Leg -> Nat]
    /\ enterFails \in 0..EnterKill
    /\ orphans \in SUBSET Leg
    /\ trip \in [put : [Leg -> Nat], tried : BOOLEAN, booked : Nat]
    /\ trips \in 0..MaxTrips
    /\ misread \in Nat

\* The context is there whenever a trip can end, and holds what the entry
\* bought: a held position has a context with both its legs, an emergency has
\* one with the Extended fill, after a half-open entry and after a failed exit
\* too, so no close is booked with "entry ctx missing" (exit_dispatch.rs:397).
\* entry_dispatch.rs:325-328, live.rs:840-846 and exit_dispatch.rs:43-44 say of
\* those two paths that they leave no context; the code has moved on (#434).
CtxMatchesTrip ==
    /\ machine.phase = "Held" => ctx = machine.position.open
    /\ InEmergency => ctx # None /\ ctx["ext"] > 0

\* A trip is closed with the risk manager exactly once, by the exit or by the
\* emergency that ends it, whatever order they happen in.
BookedOnce ==
    trip.booked = IF machine.phase \in {"Held", "EmergencyFlattening"} \/ trip.put = Zero
                  THEN 0 ELSE 1

\* An emergency that no exit went before books every contract there was on the
\* venues, whatever the reads, rejections and pauses in between: the
\* baselines predate all its closes, and the grace lets the last ones land.
RecoveryIsComplete ==
    ledger # None /\ ledger.by = "emergency" /\ ~ledger.tried => ledger.exited = ledger.put

\* With the runner Flat, Lighter holds at most the sub-minimum residual of
\* every trip (#418) and what a reconcile erased on the word of a position
\* cache that trailed the fills: nothing else is ever forgotten, by flushing,
\* by an under-reported exit or by an emergency that ends.  A cache that does
\* not trail (Lag = 0) erases nothing.
DustIsBounded ==
    machine.phase = "Flat" /\ Floor("lt") > 0 =>
        venue["lt"] <= trips * (Floor("lt") - 1) + misread

\* What an exit leaves open, "the next exit cycle / Emergency loop will pick
\* the residual up" (exit_dispatch.rs:570): Exiting is always left.
ExitingResolves == machine.phase = "Exiting" ~> machine.phase # "Exiting"
=============================================================================

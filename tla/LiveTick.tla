------------------------------ MODULE LiveTick ------------------------------
(***************************************************************************)
(* One tick of the live runner: run_one_tick of src/src/xvenue/live_tick.rs *)
(* with the watchdogs and gates of emergency_handlers.rs, in the order they *)
(* run.  The runner is live or on paper, which fills what it decides.       *)
(*                                                                          *)
(* The spread engine (module Spread) is reduced to the deviation a commit   *)
(* leaves, and a dispatched order to what its legs report; inputs that are  *)
(* only compared with a limit (skew, the reference's deviation, the gates   *)
(* on an entry) are the outcome of that comparison.  Both books of a tick   *)
(* are stamped with the wall clock, so one time stands for all of a tick's; *)
(* a slow tick shows as a longer time to the next one.                      *)
(***************************************************************************)
EXTENDS PositionMachine, Signal, FiniteSets

CONSTANTS
    Modes,      \* SignalMode: the deviations that may drive the signal, "mid" and "touch"
    Devs,       \* deviations from the mean a commit may leave
    Caps,       \* touch-to-touch edges, [long, short] in basis points
    Books,      \* sets of venues whose books are two-sided in a tick
    Refs,       \* the venues that may be past reference_max_dev_bps of the
                \* reference, an option: a reference missing or older than 180 s has none
    Minute,     \* the guard's bucket
    Consec,     \* reference_consec_buckets_for_halt
    StaleAfter, \* ws_stale_emergency_ms
    Gaps,       \* bound: times between two ticks
    Horizon     \* bound: the last tick

ASSUME LiveTickAssumption ==
    /\ Modes \subseteq {"mid", "touch"}
    /\ Devs \subseteq [num : Int, den : Nat \ {0}] /\ Caps \subseteq [long : Int, short : Int]
    /\ Books \subseteq SUBSET Leg /\ Refs \subseteq SUBSET SUBSET Leg
    /\ \A ref \in Refs : \A x, y \in ref : x = y
    /\ None \notin {"session", "other"}
    /\ Minute \in Nat \ {0} /\ Consec \in Nat \ {0} /\ StaleAfter \in Nat \ {0}
    /\ Gaps \subseteq Nat \ {0} /\ Horizon \in Nat
    /\ {"ForceClose", "MeanCross", "MaxHold"} \subseteq ExitReason
    /\ {"WsStale", "SkewBreach", "SessionDdHalted", "LegMismatchTimeout"} \subseteq EmergencyReason

VARIABLES
    now,        \* the wall clock
    dry,        \* dry_run, or no live_exec
    mode,       \* signal_mode
    arm,        \* which half of the loop body runs next: "tick" or "flatten"
    block,      \* RiskManager::block_reason: "session", "other" or None
    openQty,    \* open_qty, an option
    held,       \* of the held position, its direction and when it was filled
    ready,      \* VenueWarmup
    booked,     \* WsHealthMonitor: the last book of a venue, an option
    guard,      \* ReferenceGuard: [minute, bad], counted up to Consec
    dropped,    \* the venues whose book it suppressed in the last tick
    dev,        \* current_dev_bps, an option
    caps,       \* last_cap_long_bps and last_cap_short_bps, an option
    warm,       \* is_warm
    breach,     \* SignalEngine: the breach in progress, an option
    rejected,   \* the machine rejected an event, which ends the tick with an error
    seen,       \* history: the last time the strategy was asked
    runs,       \* history: when its run of breaches began, for a direction
    astray      \* history: the minutes a venue was off the reference in a row

feeds   == <<ready, booked, guard, dropped, astray>>
samples == <<dev, warm>>
signal  == <<caps, breach, seen, runs>>
trade   == <<machine, openQty, held, rejected>>
tickVars == <<now, dry, mode, arm, block, feeds, samples, signal, trade>>

TickInit ==
    /\ now = Minute /\ dry \in BOOLEAN /\ mode \in Modes /\ arm = "tick" /\ block = None
    /\ MachineInit /\ openQty = {} /\ held = {} /\ rejected = FALSE
    /\ ready = {} /\ booked = [v \in Leg |-> {}]
    /\ guard = [minute |-> 0, bad |-> [v \in Leg |-> 0]] /\ dropped = {}
    /\ astray = [v \in Leg |-> {}]
    /\ dev = {} /\ warm = FALSE
    /\ caps = {} /\ breach = {} /\ seen = 0 /\ runs = [d \in Dir |-> {}]

(***************************************************************************)
(* The reads.  A failed one ends the tick, silently or with an error; the   *)
(* venue before it has been read.                                           *)
(***************************************************************************)
ReadFails(v) ==
    /\ ready' = IF v = "lt" THEN ready \cup {"ext"} ELSE ready
    /\ UNCHANGED <<booked, guard, dropped, astray, samples, signal, trade>>

\* Both venues are recorded as alive at this time ...
RecordsBoth == booked' = [v \in Leg |-> {now}]

\* ... and asked at this time how long ago that was.
Stale == \E v \in Leg : \E t \in booked'[v] : now - t > StaleAfter

(***************************************************************************)
(* The reference guard.                                                     *)
(***************************************************************************)
NewMinute == now \div Minute > guard.minute

Counted(v, off) ==
    IF v \notin off THEN 0 ELSE IF guard.bad[v] < Consec THEN guard.bad[v] + 1 ELSE Consec

\* Mutant: every tick of a bad minute counts.
CountsTicks(off) ==
    [minute |-> now \div Minute, bad |-> [v \in Leg |-> Counted(v, off)]]

\* A minute counts once, by its first tick.
Checked(off) ==
    [minute |-> now \div Minute,
     bad |-> IF NewMinute THEN [v \in Leg |-> Counted(v, off)] ELSE guard.bad]

\* No fresh reference.  A reference that is fresh but not positive, which leaves the
\* counters alone (reference_guard.rs:193), is left out: its feed sends prices.
Unreferenced == [guard EXCEPT !.bad = [v \in Leg |-> 0]]

ReferenceGuard(ref) ==
    /\ guard' \in IF ref = {} THEN {Unreferenced} ELSE {Checked(off) : off \in ref}
    /\ dropped' = {v \in UNION ref : guard'.bad[v] >= Consec}
    /\ astray' = [v \in Leg |-> IF ref = {} THEN {} ELSE
                               IF v \in UNION ref THEN astray[v] \cup {now \div Minute} ELSE
                               IF NewMinute THEN {} ELSE astray[v]]

(***************************************************************************)
(* The watchdogs of a held position.                                        *)
(***************************************************************************)
Pos(m) == IF Summarised(m) THEN held ELSE {}

Drain(m, q) == Apply(Apply(m, ExitFilled("ext", q)), ExitFilled("lt", q))

\* Mutants: paper leaves the flatten to the live handler; the emergency is
\* reported and not applied.
EscalatedAsLive(reason) == Apply(machine, Emergency(reason))
EscalatedInName(reason) == machine

\* On paper the flatten is made up on the spot.
Escalated(reason) ==
    LET m == Apply(machine, Emergency(reason)) IN
    IF ~dry THEN m
    ELSE Apply(IF openQty = {} THEN m ELSE Drain(m, CHOOSE q \in openQty : TRUE),
               EmergencyComplete)

Flattens(reason) ==
    /\ machine' = Escalated(reason) /\ held' = {}
    /\ openQty' = IF dry THEN {} ELSE openQty
    /\ UNCHANGED <<signal, rejected>>

\* force_flatten_on_session_dd_halt.
Forced == ~dry /\ Pos(machine) # {} /\ block = "session"

Strategic == IF Forced THEN Apply(machine, Emergency("SessionDdHalted")) ELSE machine

(***************************************************************************)
(* The decision and its gates.                                              *)
(***************************************************************************)
\* effective_dev_bps.
SignalDev == IF mode = "touch" THEN UNION {EffectiveDev({c.long}, {c.short}) : c \in caps'} ELSE dev'

Verdict(pos) == Decide(breach, now, SignalDev, warm', pos)

\* Mutants: the phase is not looked at; the risk manager is not asked.
PassesAnyPhase(m, d, gated) == d.kind = "Enter" => ~gated /\ block = None
PassesAtAnyRisk(m, d, gated) == d.kind = "Enter" => ~gated /\ m.phase = "Flat"

\* apply_entry_gates and the gates after it: gated stands for the kill file,
\* STUCK, maintenance, a deep book and the entry filter.
Passes(m, d, gated) == d.kind = "Enter" => ~gated /\ m.phase = "Flat" /\ block = None

Entering(m, q) == Then(Then({m}, EntrySignal), ExtendedFilled(q))

\* What handle_decision_enter leads to; an entry without a usable size or mid
\* is skipped.
EnterOutcomes(m) ==
    {[ms |-> {m}, qty |-> openQty]} \cup
    IF dry
    THEN {[ms |-> Then(Entering(m, q), LighterFilled(q)), qty |-> {q}] : q \in Qty}
    ELSE {[ms |-> Then(Then({m}, EntrySignal), ExtendedFailed), qty |-> openQty]}
         \cup {[ms |-> Then(Entering(m, q), LighterFailed), qty |-> openQty] : q \in Qty}
         \cup {[ms |-> Then(Entering(m, p[1]), LighterFilled(p[2])), qty |-> {p[2]}] :
               p \in Qty \X Qty}

Filled(ms, l, q) == IF q = 0 THEN ms ELSE Then(ms, ExitFilled(l, q))

\* What handle_decision_exit leads to.  Live, a leg without a fill ends in an
\* emergency, and a leg short of its quantity leaves the machine in Exiting.
ExitOutcomes(m, reason) ==
    LET ms == Then({m}, ExitSignal(reason)) IN
    IF dry
    THEN {[ms |-> Filled(Filled(ms, "ext", q), "lt", q), qty |-> {}] :
          q \in IF openQty = {} THEN {0} ELSE openQty}
    ELSE {[ms |-> LET x == Filled(Filled(ms, "ext", e), "lt", l)
                  IN IF e > 0 /\ l > 0 THEN x ELSE Then(x, Emergency("LegMismatchTimeout")),
           qty |-> {}] :
          e \in 0..m.position.open["ext"], l \in 0..m.position.open["lt"]}

Outcomes(m, d) ==
    CASE d.kind = "Hold"  -> {[ms |-> {m}, qty |-> openQty]}
      [] d.kind = "Enter" -> EnterOutcomes(m)
      [] d.kind = "Exit"  -> ExitOutcomes(m, d.reason)

Carries(m, d) ==
    \E o \in Outcomes(m, d) :
        IF o.ms = {}
        THEN rejected' = TRUE /\ UNCHANGED <<machine, openQty, held>>
        ELSE /\ machine' \in o.ms /\ openQty' = o.qty /\ UNCHANGED rejected
             /\ held' = IF ~Summarised(machine') THEN {} ELSE
                        IF Summarised(machine) THEN held ELSE {[dir |-> d.dir, at |-> now]}

\* The directions an entry could be for.
BreachedNow(pos) ==
    IF pos # {} \/ InFundingLockout(now) \/ ~warm' THEN {}
    ELSE {d \in Dir : \E x \in SignalDev : Past(x, d, Threshold) /\ ~Past(x, d, ForceClose)}

Looks(pos) ==
    IF SignalDev = {} THEN UNCHANGED <<seen, runs>> ELSE
    /\ seen' = now
    /\ runs' = [d \in Dir |-> IF d \notin BreachedNow(pos) THEN {} ELSE
                             IF runs[d] = {} THEN {now} ELSE runs[d]]

\* The edges are kept from the last tick with two full books.
Evaluates(m, pos) ==
    /\ \E touched \in {{}} \cup {{c} : c \in Caps} :
        caps' = IF touched = {} THEN caps ELSE touched
    /\ Looks(pos)
    /\ \E verdict \in {Verdict(pos)}, gated \in BOOLEAN :
        /\ breach' = verdict.breach
        /\ Carries(m, IF Passes(m, verdict.out, gated) THEN verdict.out ELSE Hold)

\* The position the strategy is shown: refreshed after a forced flatten.
PositionSeen(m) == Pos(m)

\* Without a fresh sample and without a position nobody is asked.
Decides(committed) ==
    \E m \in {Strategic} :
        IF committed \/ PositionSeen(m) # {} THEN Evaluates(m, PositionSeen(m))
        ELSE /\ machine' = m /\ held' = IF Forced THEN {} ELSE held
             /\ UNCHANGED <<openQty, rejected, signal>>

\* The books that are fed may complete a sample; the skew watchdog comes after.
Samples(ok) ==
    \E committed \in IF ok \ dropped' = {} THEN {FALSE} ELSE BOOLEAN, breached \in BOOLEAN :
        /\ dev' \in IF committed THEN {{d} : d \in Devs} ELSE {dev}
        /\ warm' \in IF committed THEN {warm, TRUE} ELSE {warm}
        /\ IF breached /\ Pos(machine) # {} THEN Flattens("SkewBreach") ELSE Decides(committed)

ReadsBoth(ok, ref) ==
    /\ ready' = Leg /\ RecordsBoth
    /\ IF Stale /\ Pos(machine) # {}
       THEN Flattens("WsStale") /\ UNCHANGED <<guard, dropped, astray, samples>>
       ELSE ReferenceGuard(ref) /\ Samples(ok)

RunOneTick ==
    /\ arm = "tick" /\ ~rejected /\ arm' = "flatten"
    /\ \/ \E v \in Leg : ReadFails(v)
       \/ \E ok \in Books, ref \in Refs : ReadsBoth(ok, ref)
    /\ UNCHANGED <<now, dry, mode, block>>

\* The rest of the loop body: a live emergency may be completed.
Completed == Apply(machine, EmergencyComplete)

RestOfLoop ==
    /\ arm = "flatten" /\ arm' = "tick"
    /\ machine' \in IF dry THEN {machine} ELSE {machine, Completed}
    /\ openQty' = IF machine' = machine THEN openQty ELSE {}
    /\ \E gap \in Gaps : now' = now + gap /\ now' <= Horizon
    /\ block' \in {None, "session", "other"}
    /\ UNCHANGED <<dry, mode, held, rejected, feeds, samples, signal>>

TickNext == RunOneTick \/ RestOfLoop

\* The end of the horizon.
Over == (rejected \/ \A gap \in Gaps : now + gap > Horizon) /\ UNCHANGED tickVars

TickSpec == TickInit /\ [][TickNext \/ Over]_tickVars

(***************************************************************************)
(* Properties.                                                              *)
(***************************************************************************)
\* Every variable has its type, and the summary of a position is there exactly
\* while the machine holds one.
TickTypeOK ==
    /\ held = {} <=> machine.phase # "Held"
    /\ now \in Nat /\ dry \in BOOLEAN /\ mode \in Modes /\ arm \in {"tick", "flatten"}
    /\ block \in {None, "session", "other"}
    /\ machine \in Machine /\ openQty \subseteq Qty /\ held \subseteq [dir : Dir, at : Nat]
    /\ ready \subseteq Leg /\ booked \in [Leg -> SUBSET Nat]
    /\ guard \in [minute : Nat, bad : [Leg -> 0..Consec]] /\ dropped \subseteq Leg
    /\ dev \subseteq Devs /\ caps \subseteq Caps /\ warm \in BOOLEAN
    /\ breach \subseteq [dir : Dir, at : Nat] /\ rejected \in BOOLEAN
    /\ seen \in Nat /\ runs \in [Dir -> SUBSET Nat] /\ astray \in [Leg -> SUBSET Nat]

\* No tick applies an event the machine rejects, whatever watchdog, forced
\* flatten or unfinished trip it meets on the way (emergency_handlers.rs:185,
\* 272).
NeverRejects == ~rejected

\* On paper nobody completes an emergency, so a tick never ends in one: a paper
\* runner is flat or holds what open_qty says (emergency_handlers.rs:101).
PaperNeverStrands ==
    dry => /\ machine.phase \in {"Flat", "Held"}
           /\ openQty # {} <=> machine.phase = "Held"

\* A book is suppressed only once its venue has been off the reference in
\* Consec different minutes with none in between that began within bounds.
SuppressesSustained == \A v \in dropped : Cardinality(astray[v]) >= Consec

\* A live tick that reads both venues while the session is halted leaves
\* nothing held: neither a quiet market nor another watchdog postpones it.
HaltFlattens ==
    [][arm = "tick" /\ ~dry /\ block = "session" /\ booked'["lt"] = {now}
        => machine'.phase # "Held"]_tickVars

\* Every trip is opened on a breach that has lasted, from flat, and its exit is
\* decided at the first look once it has been held for max_hold_sec.
Promise == INSTANCE Strategy WITH Strict <- CheckAtFire,
    stage <- IF machine.phase = "Flat" THEN "flat" ELSE
             IF machine.phase = "Held" THEN "held" ELSE "closing",
    since <- IF held = {} THEN 0 ELSE (CHOOSE p \in held : TRUE).at

KeepsStrategy == Promise!StSpec

\* "True WS outages manifest as read_mid Err -> no record -> eventually
\* evaluate sees the staleness" (live_tick.rs:156): after a tick, a position is
\* not held on a venue that has been silent for longer than StaleAfter.
OutageEscalates ==
    arm = "flatten" /\ machine.phase = "Held" =>
        \A v \in Leg : \A t \in booked[v] : now - t <= StaleAfter
=============================================================================

------------------------------ MODULE Backtest ------------------------------
(***************************************************************************)
(* The back-test: DualReplay (src/src/ports/replay_dex.rs) merges the dumps *)
(* of the two venues in the order of their timestamps, and run_bt_async     *)
(* (src/src/xvenue/bt.rs) feeds every record to the spread engine, asks the *)
(* signal engine and moves the position machine, fills being immediate.     *)
(*                                                                          *)
(* A dump is not stored: a record is drawn when its venue advances to it,   *)
(* and the timestamp of the one after it is drawn with it, because advance  *)
(* peeks at that.  A record is [ts, mid]; mid is 0 for a one-sided book and  *)
(* for one the reference filter drops; the ticker price that stands in for  *)
(* it is taken to be positive.  What a trade is booked at is in Settlement. *)
(***************************************************************************)
EXTENDS PositionMachine, Spread, Signal, Settlement, Functions

CONSTANTS
    Mids,       \* [Venue -> mids in the dumps, 0 for a record without one]
    Gap,        \* longest time between two records of a venue
    Lengths,    \* bound: records of a dump after the first
    MinWarm     \* min_warmup_samples

Venue == {"ext", "lt"}

ASSUME BacktestAssumption ==
    /\ Mids \in [Venue -> SUBSET Nat]
    /\ Gap \in Nat \ {0} /\ Lengths \subseteq Nat /\ MinWarm \in Nat
    /\ Qty \subseteq Sizes
    /\ {"ForceClose", "MeanCross", "MaxHold"} \subseteq ExitReason

VARIABLES
    cur,        \* the record under the cursor of a venue
    next,       \* the timestamp of the one after it, an option
    left,       \* records of a venue that may still be drawn
    engine,     \* SpreadEngine
    breach,     \* SignalEngine: the breach in progress, an option
    open,       \* OpenLeg: [dir, at, qty] of the open position, an option
    run,        \* "on", "done", or "failed" when an event was rejected
    seen,       \* history: the last time the strategy was asked
    runs        \* history: when its run of breaches began, for a direction

replay == <<cur, next, left>>
btVars == <<replay, engine, breach, machine, open, run, seen, runs>>

FirstRecord(v) == [ts : 0..Gap - 1, mid : Mids[v]]

(***************************************************************************)
(* DualReplay.                                                              *)
(***************************************************************************)

\* What follows a record at t when n are left: a later record, or none.
After(t, n) == IF n = 0 THEN {{}} ELSE {{u} : u \in t + 1..t + Gap}

\* Both cursors are on a first record; one dump starts at 0, the other within
\* Gap of it.
ReplayInit ==
    \E e \in FirstRecord("ext"), l \in FirstRecord("lt"), n \in [Venue -> Lengths] :
        /\ e.ts = 0 \/ l.ts = 0
        /\ cur = [v \in Venue |-> IF v = "ext" THEN e ELSE l]
        /\ left = n
        /\ \E x \in After(e.ts, n["ext"]), y \in After(l.ts, n["lt"]) :
            next = [v \in Venue |-> IF v = "ext" THEN x ELSE y]

\* aligned_timestamp_ms.
AlignedTs == IF cur["ext"].ts <= cur["lt"].ts THEN cur["ext"].ts ELSE cur["lt"].ts

Exhausted == \A v \in Venue : next[v] = {}

\* Mutant: the venue whose dump has ended is the one to advance.
EndedGoesFirst == IF next["ext"] = {} THEN "ext" ELSE "lt"

\* The venue whose next record is older advances; on a tie Extended does.
Turn ==
    IF \A l \in next["lt"] : \E e \in next["ext"] : e <= l THEN "ext" ELSE "lt"

\* advance.
Advance ==
    LET v == Turn IN
    IF next[v] = {} THEN UNCHANGED replay ELSE
    \E t \in next[v], mid \in Mids[v], n \in {left[v] - 1} :
        /\ cur' = [cur EXCEPT ![v] = [ts |-> t, mid |-> mid]]
        /\ next' \in {[next EXCEPT ![v] = a] : a \in After(t, n)}
        /\ left' = [left EXCEPT ![v] = n]

(***************************************************************************)
(* One iteration of run_bt_async.                                           *)
(***************************************************************************)
Fed(e, v) == IF cur[v].mid > 0 THEN Update(e, v, cur[v].ts, cur[v].mid) ELSE e

FedEngine == Fed(Fed(engine, "ext"), "lt")

\* machine.summary().
Position0 == IF Summarised(machine) THEN open ELSE {}

\* The strategy is asked on a fresh sample, and on every record for an exit.
Asked(e) == Committed(engine, e) \/ Position0 # {}

Verdict(e) == Decide(breach, AlignedTs, CurrentDev(e), IsWarm(e, MinWarm), Position0)

\* Mutant: the Lighter fill is applied first.
LighterFirst(q) == Then(Then(Then({machine}, EntrySignal), LighterFilled(q)), ExtendedFilled(q))

EntryFilled(q) == Then(Then(Then({machine}, EntrySignal), ExtendedFilled(q)), LighterFilled(q))

ExitFilledBoth(r, q) ==
    Then(Then(Then({machine}, ExitSignal(r)), ExitFilled("ext", q)), ExitFilled("lt", q))

\* The machines and the leg that a decision leads to; no machine is an error.
Outcomes(d) ==
    CASE d.kind = "Hold"  -> {[ms |-> {machine}, leg |-> open]}
      [] d.kind = "Enter" -> {[ms |-> EntryFilled(q),
                               leg |-> {[dir |-> d.dir, at |-> AlignedTs, qty |-> q]}] : q \in Qty}
      [] d.kind = "Exit"  -> {[ms |-> UNION {ExitFilledBoth(d.reason, p.qty) : p \in open},
                               leg |-> {}]}

\* The directions an entry could be for.
BreachedNow(e) ==
    IF Position0 # {} \/ InFundingLockout(AlignedTs) \/ ~IsWarm(e, MinWarm) THEN {}
    ELSE {d \in Dir : \E x \in CurrentDev(e) : Past(x, d, Threshold) /\ ~Past(x, d, ForceClose)}

\* The loop ends once both dumps have.
Proceed ==
    /\ run' = IF Exhausted THEN "done" ELSE "on"
    /\ IF Exhausted THEN UNCHANGED replay ELSE Advance

\* A decision is carried out; an event the machine rejects ends the run.
Ask(e, verdict) ==
    /\ breach' = verdict.breach
    /\ \E o \in Outcomes(verdict.out) :
        IF o.ms = {}
        THEN run' = "failed" /\ UNCHANGED <<machine, open, replay>>
        ELSE machine' \in o.ms /\ open' = o.leg /\ Proceed
    /\ seen' = AlignedTs
    /\ runs' = [d \in Dir |-> IF d \notin BreachedNow(e) THEN {} ELSE
                             IF runs[d] = {} THEN {AlignedTs} ELSE runs[d]]

Skip == Proceed /\ UNCHANGED <<breach, machine, open, seen, runs>>

Iterate ==
    /\ run = "on"
    /\ \E e \in {FedEngine} :
        /\ engine' = e
        /\ IF Asked(e) THEN \E verdict \in {Verdict(e)} : Ask(e, verdict) ELSE Skip

BacktestInit ==
    /\ ReplayInit
    /\ engine = NewEngine /\ breach = {}
    /\ MachineInit /\ open = {} /\ run = "on"
    /\ seen = 0 /\ runs = [d \in Dir |-> {}]

\* The replay is over.
Over == run # "on" /\ UNCHANGED btVars

BacktestSpec == BacktestInit /\ [][Iterate \/ Over]_btVars /\ WF_btVars(Iterate)

(***************************************************************************)
(* Properties.                                                              *)
(***************************************************************************)
\* Cursors, engine and position have the shape of the code's; the window never
\* holds more samples than its capacity.
BacktestTypeOK ==
    /\ \A v \in Venue : cur[v].ts \in Nat /\ cur[v].mid \in Mids[v] /\ left[v] \in Nat
    /\ \A v \in Venue : \A t \in next[v] : t \in Nat /\ cur[v].ts <= t /\ t <= cur[v].ts + Gap
    /\ engine.window \in Seq(Int) /\ Len(engine.window) <= Capacity
    /\ engine.sum \in Int /\ engine.spread \subseteq Int
    /\ breach \subseteq [dir : Dir, at : Nat] /\ open \subseteq [dir : Dir, at : Nat, qty : Qty]
    /\ machine \in Machine /\ run \in {"on", "done", "failed"}
    /\ seen \in Nat /\ runs \in [Dir -> SUBSET Nat]

\* The running sum is the sum of the window, and the deviation is that of the
\* newest sample in it: a sample that leaves the window leaves the mean.
MeanIsOfWindow ==
    LET w == engine.window IN
    /\ engine.sum = FoldFunction(LAMBDA x, y : x + y, 0, w)
    /\ engine.spread = {w[i] : i \in {Len(w)} \cap DOMAIN w}

\* No decision is one the position machine rejects, and no exit is decided
\* without an open leg: either ends run_bt_async with an error (bt.rs:506-535).
NeverFails == run # "failed"

\* Whatever usable books it meets at its two ends, and whichever of its Lighter
\* orders rests, an open position will be booked at the cash received less the
\* cash paid for its four orders (bt.rs:842-920).
NetIsCash == \A p \in open : <<p.dir, p.qty>> \in CashTrades

\* A position is opened on a pair of mids of the bucket the decision clock is
\* in, never on a deviation left over from an earlier bucket (bt.rs:461-469).
OpensOnFreshPair ==
    [][\A p \in open' : open = {} => engine'.last = {BucketOf(p.at)}]_btVars

\* With records at most Gap apart and MaxHold + Gap within the lockout, a
\* position is closed in the funding cycle it was opened in (signal.rs:194-200,
\* config.rs:377-386).
ClosesBeforeSettlement ==
    [][Cycle > 0 /\ MaxHold + Gap <= Pre =>
        \A p \in open : seen' \div Cycle = p.at \div Cycle]_btVars

\* Every position is opened on a breach that has lasted, from flat, and is
\* closed at the first look once it has been held for max_hold_sec.
Promise == INSTANCE Strategy WITH Strict <- CheckAtFire,
    stage <- IF open = {} THEN "flat" ELSE "held",
    since <- IF open = {} THEN 0 ELSE (CHOOSE p \in open : TRUE).at

KeepsStrategy == Promise!StSpec

\* Every record of both dumps is replayed and the loop ends.
ReplayEnds == <>(run # "on" /\ Exhausted)
=============================================================================

# xvenue-arb: TLA+ models, model checks and proofs

xvenue-arb is a cross-venue spread bot: it opens a position on Extended and the
opposite one on Lighter when the spread between the two is stretched, and closes
both when it reverts. What can hurt it is a leg left alone: one order fills and
the other does not, a position cache lags, a close is rejected, a booking is
lost and a drawdown limit does not see it. This directory models the part of the
program that has to get that right, checks it on small instances with TLC and
proves the central facts with TLAPS for every instance.

Paths below are relative to the repository (`src/...` is the Rust crate).

## 1. The system

### Process structure

One tokio task runs `run_paper_loop` (src/xvenue/live.rs, used for paper and live
mode). It loops: `risk_manager.tick`, then `run_one_tick` (read both mids, update the
engines, watchdogs, decide, dispatch an entry or an exit to its end), then
`handle_emergency_flatten_tick` (at most one emergency round), then a sweep in
Flat. A second arm of the same select reports the status: equity sample, day's PnL,
snapshot, throttled flush. A dispatch awaits executors that talk
to the two venues; in an exit the two legs run in parallel under one deadline.
Outside the task, and so concurrent with it: the venues (orders fill, history
grows), the connectors' WebSocket-fed caches and every thread that logs, the
operator (SIGUSR1, the STUCK file, the risk acknowledgement file), the disk, and
the clock. The back-test drives the same engines from two recorded dumps, in a
loop of its own.

### Inventory

| component | source | state | operations | module |
|---|---|---|---|---|
| position machine | xvenue/state.rs | phase, optional position | `apply` of 10 events, `summary`, `check_invariants` | PositionMachine, RoundTrip |
| emergency flatten | xvenue/live.rs, trade/execution/emergency_loop.rs | attempts, last attempt, first zero | one round per tick: read, close, grace, complete | EmergencyFlatten |
| kill switch | risk/kill_switch.rs | STUCK file, two counters of consecutive failures | arm, SIGUSR1, record failure/success | EmergencyFlatten, LiveRunner |
| runner and books | xvenue/live.rs, entry_dispatch.rs, exit_dispatch.rs, live_pnl.rs | entry context, fill baselines | enter, exit, flush, reconcile, book a close | LiveRunner |
| tick pipeline | xvenue/live_tick.rs, emergency_handlers.rs | open quantity, last touch edges | reads, watchdogs, forced flatten, gates, dispatch | LiveTick |
| WS health, reference guard, skew | risk/{ws_health,reference_guard,skew_monitor}.rs | last book times, minute counters | record, evaluate | LiveTick |
| signal engine | xvenue/signal.rs | breach in progress | decide entry, decide exit | Signal |
| spread engine | xvenue/spread.rs | last mids, window, running sum | update, commit | Spread |
| entry filter, sizing | xvenue/{entry_filter,sizing}.rs | none | allow, round | LiveTick (outcomes only) |
| leg executors | trade/execution/{maker_loop,extended_maker,lighter_maker,lighter_fill,poll_loop}.rs | working order, filled quantity | maker rounds, taker rounds, cancel, grace poll | LegExecutor |
| parallel exit | trade/execution/parallel_exit.rs | two terminals, first-done time | race of two legs under a mismatch deadline | ParallelExit, LiveRunner (outcomes) |
| venue operations | trade/execution/{venue_ops,live_venue_ops,dex_connector_box}.rs | none | place, cancel, poll, positions, history | LegExecutor (orders), LiveRunner (positions) |
| risk manager | risk/{manager,gates,persistence}.rs | equity peaks, halts, cool-down, day, file | equity sample, record close, tick, ack, flush | RiskManager |
| error counter, WS deferral | error_counter.rs, ws_event_defer.rs | pending lines, recent lines, resets, totals | log, drain, flush, count | ErrorDeferral |
| equity feed, status | xvenue/live_status.rs, xvenue/status | day's baseline and its file, PnL, snapshot | sample, update, persist, write | StatusFeed |
| back-test | xvenue/bt.rs, ports/replay_dex.rs | two cursors, open leg | merge, iterate, settle | Backtest, Settlement |
| dumps, metrics, mail, S3 | data_dump.rs, s3_mirror.rs, prom.rs, email_client.rs | counters, files | write | not modelled: nothing reads them back |
| configuration, start-up | config.rs, xvenue/config.rs, main.rs | none | parse, wire | not modelled: the knobs are CONSTANTS |
| venue hub, connectors | ports/live_dual.rs, external crates | caches | delegate | external, modelled by how the runner uses them |

### How components interact

- The signal layer sees a position only through `summary`, which is empty outside
  Held; exits, the skew watchdog and the session halt all depend on it.
- Executors return terminals; the dispatcher turns them into machine events. A
  machine in EmergencyFlattening is served only by the emergency handler.
- The signal engine is asked by the tick and by the back-test in the same way, but on
  different conditions; what both promise of a trip is `Strategy`.
- The watchdogs and the session halt move the machine in the middle of a tick; what
  the tick has read of the position before is then stale.
- The equity sample of the status report is the only feed of the drawdown gates.
- Log lines of every thread meet in the counter; what the status shows of errors
  depends on which of three locks each caller is at.
- The emergency handler and the maker loops share the kill switch; an armed STUCK
  file blocks entries and emergency rounds.
- An entry stores its context; an exit, or the emergency that ends the trip,
  takes it to compute the PnL that feeds the drawdown gates through `record_close`.
  An emergency finds its own closes by the difference of two fill histories.

### What is hard

- *Stale reads.* The position cache trails the venue. A zero may be false, and
  so may a non-zero value after a close has filled.
- *Unreliable answers.* An order reported failed may still fill; an executor may
  report less than the venue did; a leg can still be working when the exit ends.
- *Partial failure.* One leg of two fills, one of two closes is rejected, one of
  two histories can be read, the STUCK file cannot be written.
- *Order within a tick.* Entry, emergency round and sweep run in a fixed order and
  hand state to each other; several resets happen only on a tick in another phase.
- *Retries* with an interval, a cap and a grace that use the same counter.
- *Crash and restart*: the machine always boots Flat; the risk manager persists
  with a throttle; the day's baseline is written once; caches are empty after a boot.
- *Two feeds at their own pace*: mids, samples, persistence timer, minute counters and
  the funding clock advance at different moments, with gaps and one-sided books.
- *Locks taken one after another* by several threads, each with its own clock reading.

`PROJECT.json` lists each hazard with its line and the properties that watch it.

### What makes each part correct

- Position machine: phase and position agree after every event order; recorded
  exposure never grows after closing began and is dropped only when drained or
  confirmed flat.
- Emergency flatten: Flat is declared only when the venues are flat; it ends, or
  halts where an operator sees it; repeated rejections halt it.
- Books: every trip is closed with the risk manager exactly once, with its own
  context, and with everything it closed.
- Exit: what is written off as dust is bounded; a genuine residual stays recorded.
- Leg executors: what is reported was filled, and no more than was asked for;
  nothing is left working unless a call failed; late fills are found if the
  grace outlasts the lag; the time a leg takes is bounded.
- Tick: no event is rejected, paper never strands, a session halt leaves nothing held,
  an outage escalates (it does not), a book is suppressed only on sustained deviation.
- Strategy: entries rest on an unbroken breach of Persist, exits come at the first look
  after the holding time, positions are closed before funding settles.
- Spread: a decision to open rests on two mids of one bucket, the mean on its window.
- Settlement: a trade is booked at the cash it left.
- Log counts: each line is counted once, and not at all if its recovery came in time.
- Status: the PnL of the day counts from the first sample of the day; a sample is
  what both accounts hold (it need not be).
- Risk manager: a remembered drawdown never goes without a halt; a stopped day stays
  stopped until it rolls; a cool-down is served in full; the file never trails by
  more than its throttle; a latched halt survives a restart (it need not).

## 2. Modules

`RoundTrip` (abstract) <- `PositionMachine` <- `EmergencyFlatten` <- `LiveRunner`.
Each extends the one on its left. `LegExecutor` is what a dispatch of LiveRunner
awaits, once for each leg; `ParallelExit` extends it with the coordinator of an exit. `RiskManager` stands alone too: LiveRunner's
`Book` is its `Close`, LiveTick's `block` its gate.

`Strategy` (abstract) is implemented twice, by two programs that share their engines:
`LiveTick` extends PositionMachine and `Signal`; `Backtest` extends PositionMachine,
`Spread`, `Signal` and `Settlement`, what a trade of it is booked at. `ErrorDeferral` and
`StatusFeed` stand alone.

A component with state has an `MC...` module with the small sets its configurations
use; `...Proofs` modules hold the theorems: those of the emergency and of the runner, which
share their invariants, are in `LiveRunnerProofs`, those of the log counts and the status feed
in `StatusProofs`.

### RoundTrip
What one trip promises: the legs open in order, exposure shrinks once closing has
begun, and the books clear only when nothing was opened, both legs have drained
or the venues were confirmed flat. `PositionMachine` implements it under the
mapping `stage <- StageOf[phase]`, `exposure <- Recorded(machine)`.

### PositionMachine (xvenue/state.rs)
`machine` is the record of phase and optional position. Events are values and
`Apply(m, e)` is `apply`; it is a function, because a dispatch applies several
events before anybody else runs. `Accepts` is the match on phase: any other
combination is an `Err` that changes nothing. `MachineSpec` admits every event,
`RunnerMachineSpec` all but `Reset`, which nothing in `src/` emits. Timestamps,
direction and notional are left out: no transition reads them.
Prices are not modelled: whether the USD skew of a held position is a breach is left
to chance, where the watchdog asks.

### EmergencyFlatten (xvenue/live.rs, emergency_loop.rs, kill_switch.rs)
A tick has two halves, `Strategy` (what `run_one_tick` may do to the machine and the
venues) and `Handler`, which is `handle_emergency_flatten_tick`:

| action | code |
|---|---|
| `NotFlattening` | another phase: the throttle is reset (live.rs:743) |
| `Waits` | interval not over, cap reached, or STUCK (1031-1055) |
| `ReadFails` | `read_leg_qtys` is an `Err` (1058-1069) |
| `ZeroRead`, `Completes` | both legs zero: start or wait out the grace, then EmergencyComplete (1071-1137) |
| `CloseRound` | reduce-only closes, Extended first, counted by the kill switch (1139-1198) |

The environment: `Refresh` (a WS update reaches the cache), `CloseFills` (an IOC
close takes the leg to zero or part of the way), `LateFill`/`LateDies` (an entry
order reported unfilled), `Tick` (time), `OperatorArms`/`OperatorClears`. `Tick` holds
back the clock so that the cache trails at most `Lag` units and a late order
lives at most `LateBy`. Elapsed times are kept only up to the threshold they are
compared with. `fails` saturates at `Kill`: the code's counter keeps rising, its
only use is the comparison. The Strategy half lets an exit alone; the exit is
LiveRunner's.

### LiveRunner (live.rs, entry_dispatch.rs, exit_dispatch.rs, live_pnl.rs)
Adds the entry context, the emergency's fill baselines, the venues' histories,
the enter-timeout counter, and exit orders left working. `RunOneTick` replaces
`Strategy`:

| action | code |
|---|---|
| `EnterBoth`, `EnterHalf`, `EnterFails` | the three outcomes of `handle_decision_enter` |
| `Exit` = `ExitDone` or `ExitBroken` | `handle_decision_exit`: both legs filled (sub-minimum flush, reconcile, book), or a leg failed or mismatched (keep the context, emergency) |
| `Breached` | skew breach and session halt |
| `EndOfTick` | baseline, `Handler`, booking on completion, sweep in Flat (live.rs:607-639, 723-997) |

A dispatch is one action: the loop awaits it, and what happens on the venues
meanwhile is the difference between what closed (`shut`) and what was
reported (`filled`), plus caches that may lag. `ledger` and `trip` observe: the last
close recorded and what the trip put on the venues. Prices are left out; a
booking keeps the quantities `compute_realised_pnl` works on, which decide whether
it returns zero. `misread` counts what `reconcile_open_qty_with_exchange` erased of
Lighter while the venue held a genuine partial, because the cache it reads trails. All trips have one direction, so every close in the history
is on the side an emergency looks for, as it is for a run of same-side trips.

### LegExecutor (maker_loop.rs, poll_loop.rs, extended_maker.rs, lighter_maker.rs, lighter_fill.rs)
One leg of an entry or exit. `params` is `MakerLoopParams` as one of the three
callers fills it in; `LighterFill` is the taker round of lighter_fill.rs, which has
no grace, no floors and no "Position is missing" shortcut.

| action | code |
|---|---|
| `Place` | next chase round, or the taker round (maker_loop.rs:121-126, 164-165) |
| `ChaseFails`, `TakerFails` | a place or book read is an `Err` (152-159, 172-183) |
| `PositionMissing` | Pattern B: the rest is reported as filled (355-384) |
| `Poll`, `PollFails` | one turn of `poll_until_terminal_or_deadline`, with what `poll_fill_status` makes of its three lists |
| `StartGrace`, `GracePoll`, `Cancel` | in the order the profile has them (281-332, 414-426, 437-488) |
| `Finish`, `Return` | the round's fill is added; next round or the outcome (128-151, 187-191) |

`Fill`, `Expire` and `Show` are the venue and its streams: the fills, open and
cancelled lists are updated separately, each at most `Lag` behind. A cancel the
venue acknowledges has taken effect; one that fails is ignored, as in the code, and
the order works on as `ghost`. An IOC is over at once (Extended's taker is one,
Lighter's is a market order), so a taker order is not open when time passes.
Time passes while the loop sleeps (`Asleep`) and while it awaits an answer, to a book
read, a place, a poll or a cancel (`Awaiting`), which adds to `awaited`. A slow poll uses
up the round's timeout, which is a deadline on the clock (poll_loop.rs:71, 112); no deadline
of the loop bounds any other answer. Time is counted in poll intervals, so a timeout stands
for the whole intervals its last sleep runs to; the delay of a task that is ready is
left out. `traded` and `credited` observe what filled and what a
missing position was taken for.

### ParallelExit (parallel_exit.rs)
The coordinator of an exit around one leg. `other` is the other leg, of which only
the end matters; `since` is the time since it ended before this one.

| action | code |
|---|---|
| `LegRuns`, `LegWaits` | this leg is polled, in either phase (parallel_exit.rs:235-259) |
| `OtherEnds` | the other terminal: the deadline starts, or the exit has both (235-250) |
| `LegDropped`, `OtherDropped` | `timeout` expires: LegMismatchTimeout (248-265) |
| `VenueActs` | the venue, also after the leg was dropped: its order works on |

Every step is one of LegExecutor's or leaves the leg alone, so all that is proved of
a leg holds in an exit (`ExitRunsLeg`). Both legs are legs of this kind, so what is said
of one is said of either. In an entry `other` is "none" and nothing is dropped.

### RiskManager (risk/manager.rs, gates.rs, persistence.rs)
`store` is the manager's state in memory (`mem`), the file (`disk`) and the time of
the last write attempt. `Persist` replaces the file or, if the disk fails, leaves
it; either way the throttle restarts, as in the code.

| action | code |
|---|---|
| `Tick` | `tick`: day roll, acknowledgement, cool-down expiry, each with its `maybe_persist` (200-204, 412-542) |
| `EquitySample` | `record_equity_sample`: window, session drawdown (216-285) |
| `Enter` | `block_reason` in `apply_entry_gates`, then a trip is held |
| `Close` | `record_close`: daily sum, streak, cool-down (290-338, 544-580) |
| `Shutdown`, `Crash` | the loop's end with `flush` (live.rs:657), or without; both boot from the file (`load_state`) |
| `OperatorAcks`, `Elapse` | the RISK_ACK file; the clock |

At most one write is attempted per call, because the first one restarts the
throttle: what a later part of the same call changes waits for another call. The
samples are a set, for the code reads only their stamps and values; their last one
is their latest, since the clock does not step back. Two details are folded:
the fall from the highest sample is the largest fall from any, so `Sampled` asks
for one sample that is far enough above; and a process that is down changes
nothing, so a crash and the next boot are one step. `lossAt`, `changedAt` and
`unwritten` are history, read by properties only.

### Strategy
What a trip promises whoever drives it: it is opened from flat, on a breach that has
lasted `Persist` without a look that broke it, and the first look at or after
`MaxHold` ends it. `Look` is a decision with a deviation at hand; a tick or record on
which nobody is asked is a stutter. With `Strict` the look that opens has to breach
as well (`entry_check_threshold_at_fire`).

### Signal, Spread (xvenue/signal.rs, spread.rs)
Pure operators on the engines' state, named as the methods are. Options are sets of
at most one element; a deviation is an exact fraction (`CurrentDev`), where the code
has an f64. `Push` keeps the running sum as the code does, so that it can be wrong.
`SignalAssumption` is what `validate()` demands of the lockout (config.rs:377-386).

### LiveTick (live_tick.rs, emergency_handlers.rs, ws_health.rs, reference_guard.rs)

| action, operator | code |
|---|---|
| `ReadFails` | a mid that fails ends the tick (live_tick.rs:75-109) |
| `RecordsBoth`, `Stale`, `Flattens` | the staleness watchdog; on paper the flatten is made up inline (140-171, emergency_handlers.rs:56-127) |
| `ReferenceGuard` | which of the two books is suppressed (emergency_handlers.rs:327-373) |
| `Samples` | the books that are fed may commit a sample; skew watchdog (188-223) |
| `Decides`, `Forced`, `PositionSeen` | forced flatten on a session halt and the refreshed summary (225-239, emergency_handlers.rs:264-325) |
| `Evaluates`, `Passes`, `Carries` | decision, gates, dispatch (241-467) |
| `RestOfLoop` | a live emergency may complete; time passes; the risk manager's verdict changes |

Abstracted to their outcome: the spread engine, the orders of a dispatch (entry: no
leg, one leg, both; exit: any filled quantity of each leg), skew, the reference's
deviation, and the gates on an entry that look at something outside (kill file,
STUCK, maintenance, depth, entry filter).

### Backtest (bt.rs, replay_dex.rs)
`Advance` is `DualReplay::advance`: the venue whose next record is older. A dump is
not stored: the record is drawn when a cursor reaches it, and with it the timestamp
of the next one, because `advance` peeks. `Iterate` is one turn of `run_bt_async`:
both books are fed, and if a sample was committed or a position is open, the signal
engine is asked and the machine moved. An event the machine rejects ends the run
(`failed`), as the `?` does.

### Settlement (bt.rs)
`settle_trade` with its fill model (taking with a walk past the touch, resting on the
other side), in exact integers. `LegCash` is the reference: what the four orders
paid and received.

### ErrorDeferral (error_counter.rs, ws_event_defer.rs)
`call` holds for each thread the line it is logging, the locks it has yet to take
(`Steps`) and the expired lines between `pending_ws` and `recent`. One action per
lock: `RecordReset`, `Drain`, `Take`, `CommitBatch`, `Count`, `Prune`, `Forget`. A call
reads the clock once, at `Begin`; `Tick` holds the clock back so that a call lasts at
most `Slow`. The reset phrase may be in any line, a transient one, another warning or an INFO
line; the last two are "mention", which counts if it is not suppressed. `counted`, `drained`, `committed`, `saved`, `noted` are history.

### StatusFeed (live_status.rs, status/mod.rs, live_dual.rs)
`RefreshEquity` is `refresh_equity` with `read_total_equity_for_sample`, `update_equity` and
the baseline file; `WriteSnapshot` the snapshot. A boot finds the baseline of the file or, if
it cannot be read or parsed, none (status/mod.rs:545-558), and the day then starts anew. A venue is down, live, or answers
with the zero of an empty cache until its first account dump, which the comment at
live_status.rs:70-72 describes. `Restart` may come between any two steps, `Midnight`
too. `first`, `lost` and `whole` are history.

## 3. What the runs check

| run | module | result |
|---|---|---|
| `machine` | MCPositionMachine | `MachineConsistent`, `KeepsRoundTrip` hold |
| `flatten` | MCEmergencyFlatten | `VerifiedFlat`, `FreshEmergencyFlattens` hold |
| `runner_books` | MCLiveRunner | `RunnerTypeOK`, `CtxMatchesTrip`, `BookedOnce`, `RecoveryIsComplete`, `DustIsBounded` hold |
| `leg` | MCParallelExit | `ExitTypeOK`, `ReportIsReal`, `NothingKeepsWorking`, `WholeFillsAreReported`, `CoveredLegReturns`, `ExitReturns` hold |
| `risk` | MCRiskManager | `RiskTypeOK`, `DrawdownHalts`, `OneTripPastTheLimit`, `SamplesBounded`, `UnsavedIsRecent`, `EntryServesCooldown` hold |
| `backtest` | MCBacktest | `BacktestTypeOK`, `MeanIsOfWindow`, `NeverFails`, `NetIsCash`, `OpensOnFreshPair`, `ClosesBeforeSettlement`, `KeepsStrategy`, `ReplayEnds` hold |
| `tick` | MCLiveTick | `TickTypeOK`, `NeverRejects`, `PaperNeverStrands`, `SuppressesSustained`, `HaltFlattens`, `KeepsStrategy` hold |
| `errors` | MCErrorDeferral | `EveryLineOnce`, `RecoveredInTime`, `NothingOverstays` hold |
| `status` | MCStatusFeed | `PnlTodayFromDayStart` holds |
| `exiting_parked` | MCLiveRunner | `ExitingResolves` is violated |
| `outage` | MCLiveTick | `OutageEscalates` is violated |
| `spurious_sample` | MCStatusFeed | `SampleIsWhole` is violated |

The runs that end in a violation each state a sentence of the repository; the
findings in `PROJECT.json` quote it, and two more findings quote sentences that what
`runner_books` checks contradicts. In words:

- *exiting_parked*: a Lighter residual at or above the floor leaves the machine in
  Exiting, where `summary` is empty and no handler runs.
- *outage*: the staleness watchdog is asked only in a tick that has just read both
  venues, at the time at which it has just recorded both. A read that fails, which is
  how an outage shows, ends the tick before it. The trace holds a position through
  one failed read after the other, past `StaleAfter`, with no emergency.
- *spurious_sample*: after a restart one account is there and the other cache is
  still empty and answers zero. The sum is positive, so the warm-up gate lets it
  through, and half the equity is compared with the peak loaded from the file.
- *CtxMatchesTrip* (passes): in every emergency the context of the trip is there, with an
  Extended quantity. The comments say that it is stored only when both legs filled and
  dropped on a failed exit leg (entry_dispatch.rs:325-328, live.rs:839-846 and 869-871,
  exit_dispatch.rs:43-44); the code stores it with a Lighter quantity of zero on the
  half-open path (entry_dispatch.rs:370-378) and keeps it through a broken exit.
- *DustIsBounded* (passes): the doc of reconcile says that a position at or above the floor
  is left untouched (exit_dispatch.rs:566-571). It reads the cache right after the fills; one that
  has not shown the entry yet reads zero, and Flat is declared with two of three lots open.
  `misread` is what is erased in this way; without it in the bound TLC finds
  that trace (entry, end of the tick, exit).

`flatten` checks safety and liveness of the emergency on one instance: two quantities,
three faults and 12 attempts, larger than the two runs it replaces.

### Bounds

- `machine`: quantities 1..3, so a fill may be smaller than, equal to or larger
  than what is open; no other bound.
- `flatten`: quantities 1 and 2 (a close may fill partly, a late fill may be
  partial), `Lag = LateBy = 1` and `Grace = 3`, the smallest with `Grace > Lag + LateBy`;
  `Kill = 2`, so that one rejection and two in a row differ; three faults and 12
  attempts: the grace (5 rounds at interval 1) fits between any placement of the
  faults; with a smaller cap `FreshEmergencyFlattens` is false, as it is in the code.
  The deployed values (30 s interval, 100 attempts) scale the same orderings.
- `runner_books`: three lots on Lighter with a minimum of 2 give a residual below the
  minimum, at it, and none; one lot on Extended, whose half is not at issue; two trips, so
  that context, baseline, dust and history of one trip can leak into the next; a cache that
  trails by `Lag = 1` and `Grace = 2`, so that an exit may reconcile on what was there before the
  entry; four attempts and one fault; the operator may halt at any time. `LateBy` is 0, so a late entry
  fill comes before the next unit of time; longer ones are in `flatten` and in the
  theorems. Reads of the fill history succeed here (`HistoryMayFail`; see Observations).
- `leg`: a quantity of 2 with no minimum, so that a chase that filled half is
  followed by another and by a taker order for the rest; two chase rounds, so that
  one round's report feeds the next; timeout and grace of 2 with a lag of 1, so that
  an update can be late for a poll, for the deadline and just not for the grace; one
  failed call; one unit of time in which the venue does not answer, wherever it falls
  (`MaxAwaited`). All seven profiles, whose budgets are 2, 4, 8 and 12 against a mismatch
  deadline of 5: one with a budget of 4 can be dropped only if the venue was slow.
- `risk`: four clock values with a day of two seconds, so that days roll within and
  after a throttle of two; equities six percent apart against a threshold of five,
  and trips of minus and plus three against a limit of three percent, so that the
  comparison meets equality; tiers at one and two losses, the second with the longer
  pause; a window of two samples. Any number of crashes, shutdowns, acknowledgements
  and failing writes. `PnlBound`, `MaxLosses` and `MaxTime` are guards.
- `backtest`: two dumps of four or five records with gaps of 1 or 2 in buckets of 2,
  so that a bucket may have no, one or two records of a venue; a window of 3 that
  overflows; Extended 0, 10, 20 or 50 bps above Lighter or without a mid, against a
  threshold of 3, a stop of 6 and a cap of 25; `Persist = 2`, `MaxHold = 1`; a funding
  cycle of 8 with 3 locked before and 1 after it, the smallest with
  `MaxHold + Gap <= Pre`. `Lengths` bounds the dumps. `NetIsCash` takes all
  quadruples of four books (two usable, a thin one, a phantom one) and quantities below,
  at and above what a touch has.
- `tick`: deviations of 0 and plus and minus 3 at a threshold of 3, touch edges that
  make a dev of the other sign, books of both venues or of none, a reference that is
  missing, agrees, or puts Extended off; two ticks or one a minute, two bad minutes to
  suppress; gaps of 1 or 2 around `StaleAfter = 2`; `Horizon = 7` lets a breach
  mature, a trip run into its exit, a watchdog or a halt, and the next breach begin.
  `Gaps` and `Horizon` are the bounds; `outage` has one more unit of time.
- `errors`: two threads (symmetric), three calls of seven kinds, `Window = 3` and a day of 2
  within 5 seconds, calls that last up to one: enough for a line to expire while another
  call drains it, for two to expire at once, and for a queue out of order. `Lines`, `Horizon` and `Slow` are bounds.
- `status`, `spurious_sample`: two balances a venue, two days, three processes
  (`MaxBoots`), so that a day may be begun by one process and continued by the third.
- The violation runs use the smallest instance that shows the behaviour.

`MaxFaults` and `MaxTrips` bound the number of faults and trips; they appear as
guards and stand for "finitely many" in the liveness run only.

### Fairness

`FlattenFairSpec` assumes weak fairness of the two halves of the tick (the loop has
no exit but shutdown, and its awaits have timeouts), of `Market` (the exchange
eventually answers an IOC order and the connector eventually delivers an update;
the safety runs need no such assumption beyond the lag bounds) and of the clock.
`BacktestSpec` assumes it of `Iterate`: the loop is sequential and offline.
`ExitFairSpec` assumes it of the loop, the clock, the deadline, the streams, the end of
an IOC, and of the other leg of an exit: that it returns is what `ExitReturns` says of a
leg awaited alone, where no deadline helps.
Nothing is assumed of the operator, and no read or close is assumed to succeed
beyond the fault bound. `RunnerFairSpec` assumes the same of the runner; it is used
for the one liveness claim that fails.

## 4. What is proved

| theorem | states |
|---|---|
| `MachineInvariant`, `MachineTypeCorrect` | `MachineSpec => [](MachineTypeOK /\ MachineConsistent)`, `Reset` included |
| `MachineImplementsRoundTrip` | `RunnerMachineSpec => RT!RTSpec` |
| `FlattenTypeCorrect` | `FlattenSpec => []FlattenTypeOK` |
| `GraceVerifiesFlat` | `Grace > LateBy + Lag` implies `FlattenSpec => []VerifiedFlat` |
| `RunnerTypeCorrect` | `RunnerSpec => []RunnerTypeOK` |
| `EmergencyBooksEverything` | `Grace > LateBy + Lag` and readable histories imply `RunnerSpec => []RecoveryIsComplete` |
| `FlatForgetsOnlyDust` | `Grace > LateBy + Lag` implies `RunnerSpec => []DustIsBounded` |
| `RunnerBooksOnce`, `RunnerKeepsContext` | `RunnerSpec => [](BookedOnce /\ CtxMatchesTrip /\ MachineConsistent)` |
| `LegReportsWhatFilled`, `LegLeavesNothing` | `LegSpec => [](LegTypeOK /\ ReportIsReal /\ NothingKeepsWorking)` |
| `ExitRunsLeg`, `ExitTypeCorrect` | `ExitSpec => LegSpec`, `ExitSpec => []ExitTypeOK` |
| `CoveredLegsReturn` | `ExitSpec => []CoveredLegReturns` |
| `GraceFindsWholeFills` | `LegSpec => []WholeFillsAreReported` |
| `GatesHold`, `RiskTypeCorrect`, `DailyLossIsBounded` | `RiskSpec => [](RiskTypeOK /\ DrawdownHalts /\ OneTripPastTheLimit)` |
| `ThrottleLosesRecentOnly` | `RiskSpec => []UnsavedIsRecent` |
| `SamplesStayBounded` | `RiskSpec => []SamplesBounded` |
| `CooldownIsServed` | `RiskSpec => EntryServesCooldown` |
| `TickTypeCorrect`, `TickNeverRejects`, `TickPaperNeverStrands`, `TickSuppressesSustained` | `TickSpec => []...` of the four invariants of `tick` |
| `TickHaltFlattens` | `TickSpec => HaltFlattens` |
| `TickKeepsStrategy` | `TickSpec => Promise!StSpec` |
| `BacktestNeverFails` | `BacktestSpec => []NeverFails` |
| `BacktestClosesBeforeSettlement` | `BacktestSpec => ClosesBeforeSettlement` |
| `BacktestKeepsStrategy` | `BacktestSpec => Promise!StSpec` |
| `BacktestBooksCash` | `BacktestSpec => []NetIsCash` |
| `BacktestTypeCorrect`, `BacktestMeanIsOfWindow` | `BacktestSpec => [](BacktestTypeOK /\ MeanIsOfWindow)` |
| `BacktestOpensOnFreshPair` | `BacktestSpec => OpensOnFreshPair` |
| `TodayIsFromDayStart` | `StatusSpec => []PnlTodayFromDayStart` |
| `LinesAreCountedOnce`, `RecoveredLinesAreNotCounted`, `QueuesDoNotOverstay` | `LogSpec => [](EveryLineOnce /\ RecoveredInTime /\ NothingOverstays)` |

Every invariant and action property that a run checks is also a theorem, for every value
of the constants; what the bounds of section 3 leave out is decided there.

Assumptions: the named `ASSUME`s of the modules (quantities are positive, counters
and thresholds are naturals, thresholds that the code divides time or failures by
are not zero, the reasons the code uses are reasons, the absent value `None` is no
number, and the deferral window is not zero: `WS_DEFER_WINDOW_SECS` is 60). Three theorems
have hypotheses of their own:

- `GraceVerifiesFlat` and `EmergencyBooksEverything` take the grace to outlast the cache's lag
  and the late-fill window together; without it the code's own incident (#287) is a
  behaviour of the model. The second one also takes the fill histories to be readable:
  after a failed baseline the code books what it cannot have meant (Observations).
- `FlatForgetsOnlyDust` takes the same of the grace, so that the emergency's Flat leaves
  nothing. It takes nothing of the cache an exit reconciles with: what that costs is in the
  property, as `misread`.

Arguments.

- *Machine.* `MachineConsistent` alone is not inductive: nothing in it says that a
  Lighter fill is positive or that Exiting has a position. `Sound` adds the types and
  the shape of the position in every phase; it is kept by each arm of `Apply`, and
  that lemma (`ApplyKeepsSound`) is what the other two proof modules reuse.
- *Refinement.* Every event is a step of RoundTrip or changes neither stage nor
  exposure; the case split follows the arms of `Apply`.
- *Verified flat.* The strengthening relates the grace clock to the lags: while the
  handler has seen zero for `zeroFor` units, any size still open on a venue must be
  newer than the first zero read or hidden by a cache that has been wrong for as
  long; a late order has been working for at least that long since it was reported.
  When `zeroFor` has reached `Grace`, both would have outlived their bounds.
- *Books.* The inductive invariant ties `booked` and `ctx` to the phase, and follows
  the phase through the composed events of a dispatch; it needs of `Handler` only
  that it leaves the machine alone or completes the emergency.

- *Recovery.* `Accounted` says where every unit that was put on the venues is: still open, in
  the history after the baseline, or about to fill; it is kept by the closes of a round and
  by late fills. `ReadsBounded`, the invariant of the grace, shows that nothing is open
  and nothing can fill any more when the emergency completes, so the history then
  holds everything (`InFlight` and `BaselineOK` are what is known before).
- *Dust.* An exit writes off what is below the floor, what reconcile reads as gone and is
  gone, and what it misreads, which `misread` counts (`Erased`, `ReconcileDrops`). The bound
  therefore holds of every phase, with the open trip's share taken off
  (`OpenAfterFill`), and grows by one share per booking.

- *Leg.* `LegInv` bounds the watched order by what is left of the request and its
  shown fills by the real ones; it is what makes "report" an inductive notion
  (reported plus in flight is traded). `Used` adds up the time of the rounds
  before and of the wait the loop is in, each within its deadline (`Paced`); the products are a lemma of their own.
  `Exact` says that a whole fill the loop has not seen is hidden by a list that has
  been behind for as long as the grace has run (`Overdue`), so that it shows when
  the grace, longer than the lag, is over; afterwards there is nothing to miss.
- *Exit.* The deadline's time is part of the call's, which is within the budget and the time
  the venue took to answer (`Used`, `Since`), and so is a deadline that has passed.

- *Risk.* What one call does to memory and file is stated per part (`RollFacts`,
  `AckFacts`, `ClearFacts`, `SampledFacts`, `ClosedFacts`) and composed in `TickFacts`:
  a call leaves the file alone, is held back by the throttle, or makes one attempt
  after which whatever the file lacks was changed by this call (`OneAttempt`). That
  is what makes `UnsavedIsRecent` inductive. `StreakPauses` strengthens
  `EntryServesCooldown`: the pause of the present streak has run or is armed, and
  the expiry removes only what is over. `SparseStore` says of both windows, in memory and in
  the file, that their samples lie `SampleSecs` apart and within `Lookback`; they then fall
  into different slots counted from the oldest, and there are that many slots.

- *Tick.* The inductive invariant ties the summary to the phase, `openQty` to the trip on
  paper, the minute counters to the minutes that were really off (`astray`), and the
  breach in progress to the run of looks that Strategy keeps. Each watchdog, the forced
  flatten and each dispatch is then a case: what it does to the machine is computed
  from `Apply`, and mapped to a step of Strategy or a stutter.
- *Back-test.* `SignalProofs` says once, of the operators alone, what `Decide` returns
  (one breach at most, an entry on one that lasted, a position kept only while it
  may be); both refinements cite it. For the settlement, an entry outside the
  lockout leaves more than `Pre` to the end of the cycle, and the look after
  `MaxHold` comes at most `Gap` late.
- *Cash.* The slippage of each side against its mid and the gross move of the mids
  cancel for every fill price; the proof is the algebra of one leg, stated once.
- *Mean.* `FoldFunction` takes the elements of a window in an order nobody knows. It is shown
  that the order does not matter (`SumTakesAny`) and that equal numbers have equal sums
  wherever they stand (`SumMoves`), so appending adds and dropping the head subtracts.
- *Fresh pair.* A mid the engine remembers is of the cursor's record or an older one. A
  sample needs both mids in the bucket of the record that was fed, so the other cursor is
  in that bucket or beyond it, and the clock, the older of the two, is in it.

- *Status.* `first` of a day that has begun is the baseline in memory, or the file's, or was
  lost; what was sampled or published last was counted from it (`StatusInv`).
- *Log counts.* `Numbered` gives every line a name and says which call is at which lock with
  it; `InOnePlace`, `AndOnce` and `AndReported`, the parts of `EveryLineOnce`, are inductive
  with it. A line that leaves `pending_ws` early does so because it, or one before it,
  is over; `Queued` says that a queue is out of order by a call's time at most, and so
  neither an overstay nor a wrong count can be longer than that.

Only model-checked: the liveness properties `FreshEmergencyFlattens`, `ExitReturns` and
`ReplayEnds`, because fairness and ENABLED are outside what the prover handles. The three
violated properties are TLC's counterexamples. No module declares a RECURSIVE operator. The
library's induction theorems take an operator as a parameter, which the installed provers cannot
instantiate; where a proof needs induction (the lines a drain leaves, the sum of a window,
the size of a set) it goes through the least element of a set of naturals
(`NatSetInduction`, `AllNumbers`, `LeastStamp`), which the well-founded induction theorems
give for a set. `Undrained` is a recursive function rather than a filter of SequencesExt for that
reason: `SelectSeq` has no definition the prover can open.

## 5. Observations

Things the models made plain and which are not runs of their own.

Runner and execution:

- An entry that fails on the tick after EmergencyComplete starts its emergency with the
  attempts and the throttle of the previous one: the reset at live.rs:743, which is to
  make the next emergency "start fresh", runs only in a tick of another phase, and
  entry and handler run in the same tick.
- `current_position_size` (live_venue_ops.rs:276) compares "ETH-USD" with snapshots named
  "ETH": reconcile reads 0 for Extended whatever is open and takes the leg as
  closed, where exit_dispatch.rs:566-571 promises to keep a genuine partial.
  (`read_leg_qtys` strips the suffix; this lookup does not.) A cache that is late does the
  same on Lighter (`misread`).
- The doc of `handle_decision_exit` (exit_dispatch.rs:50-52) speaks of `record_close` calls with
  0.0 on the Failed paths; the code records nothing there, the emergency does.
- The PnL of an emergency is 0, fees included, unless both legs have closing fills
  after its baseline; after a failed Lighter entry, or a broken exit that closed one
  leg, one of them has none, in spite of the context kept for it
  (entry_dispatch.rs:362-369, exit_dispatch.rs:424-431, live_pnl.rs:142-162).
- `worst_case_budget_ms` (types.rs:264) is retries times timeout; the grace poll each
  unfilled round adds and the taker round with its own are not in it, so a leg that
  passes `validate()` (config.rs:404-437) can outlast `leg_mismatch_timeout_ms` and be
  dropped with its order working. Extended's budget is not checked at all. `Budget` is
  what a leg may sleep; the deadline is `timeout` on the clock (parallel_exit.rs:248, 258), so
  the time the venue takes to answer counts against it too, and no setting of
  the knobs alone keeps it from firing on a leg that is chasing (`CoveredLegReturns`).
- `record_rest_failure` and `EmergencyLoop::run` are called by tests only.
- A halt latched within five seconds of the last write is only in memory until the
  next call that persists; a process killed in between boots without it, where
  manager.rs:78-79 says it survives a restart. No failing disk is needed.
- The skew and staleness latches are reset only on paper; only the status shows them.
- The SUPPRESS flag of a maintenance window (live_tick.rs:319, "evaluated once per
  tick") is set only on ticks that evaluate, and stale on those that return early.

- Once the cap is reached the live handler returns early for as long as the phase
  stays EmergencyFlattening, and nothing else leaves that phase. The comment at
  src/xvenue/config.rs:285-287 says the runner re-enters; only
  `EmergencyLoop::run`, which tests use, yields `MaxAttemptsExceeded`.
  `FreshEmergencyFlattens` needs a cap that the faults cannot use up for this reason.
- The metric for the cap is written only by a round that sends closes; a round
  that crosses the cap with a failed or a zero read does not count it.
- A round that saw part of its order fill gets no grace poll. A further fill between
  the deadline's poll and the cancel, or one that trails the cancel in the lists, is
  then missed, and the next round asks for it again. `WholeFillsAreReported` is
  therefore stated for orders that fill whole; exits are reduce-only, so the venue
  stops an over-fill there, and an entry over-fill is exposure the machine does not
  record.
- The loops give up on a residual at or below the minimum, the flush of an exit
  writes off only what is below it: a residual of exactly the minimum is neither
  tried again nor flushed, and parks the machine (`exiting_parked`).
- Pattern B reports the rest as filled on the word of an error text. LiveRunner lets
  an exit under-report but not over-report; that case is left out.
- A failed baseline read leaves an empty set, so the diff against it returns the
  venue's whole close-side history, earlier trips included, where the log line at
  live.rs:771-772 promises a 0.0 placeholder.
- The equity reaches the risk manager only through the status reporter
  (live_status.rs:267). With `DEBOT_STATUS_ENABLED=0`, or while a balance cannot be
  read, there is no session equity: the session gate has no sample and the daily
  gate counts as open (gates.rs:53). `OneTripPastTheLimit` is therefore stated for
  trips entered with an equity.
- A total equity of zero or less is dropped before the drawdown check
  (manager.rs:217), so an account that is wiped out does not halt the bot.
- An acknowledgement is honoured before anything is written. A crash within the
  throttle brings the halt back with the file already gone; that errs on the safe
  side.
- The header of manager.rs gives both limits as strict (`<`, `>`); the code halts at
  equality.
Strategy, back-test, logs, status:

- With both touch edges negative, `effective_dev_bps` (signal.rs:95-119) yields a
  deviation on the wrong side of zero; the edges are kept from the last tick with two
  full books, however old.
- A breach accrues while the machine is Exiting or EmergencyFlattening (there is no
  summary then), so an entry may follow an emergency's Flat at once; an entry that a
  gate blocks has used up its breach.
- The lockout keeps a position from being held over a settlement only if
  `max_hold + tick gap <= pre` (`ClosesBeforeSettlement`); validate() compares `max_hold`
  alone.
- The doc of spread.rs:20-22 says the last mid in a bucket wins; the first aligned pair
  commits, later mids of the bucket are ignored. A blow-out past the cap commits
  nothing, so the deviation stays old and `ForceClose` cannot fire on it. The mean is
  never warm if the window is shorter than the warm-up.
- In the back-test the decision clock stops at the last record of the shorter dump; its
  reference filter is stateless, the live one counts minutes.
- The doc of `ioc_fill_price` (bt.rs:290-293) says 1.5 times the touch costs 1 bp and
  3 times costs 3; the code gives 0 and 2.
- The reference guard counts the first tick of a minute; minutes without a tick do not
  break "consecutive".
- ws_health.rs:97-104 wants only good books recorded; the tick records every read.
- The rolling counts are pruned from the front of a queue that a late flush leaves out
  of order, so an entry can stay longer than 30 minutes. A transient line whose own
  call is still on its way to `pending_ws` when the recovery drains is counted though
  it recovered: `RecoveredInTime` is about those the recovery finds.
- A baseline file that cannot be read or parsed reads as none, and the day's PnL restarts
  from the next sample: one more of the lost days of `PnlTodayFromDayStart`.
- A boot snapshot shows a PnL of 0 until both venues report. A baseline that could not
  be written is not tried again that day: `PnlTodayFromDayStart` excepts the days
  whose baseline died with a process.
- The S3 mirror notes the uploaded length before the upload has succeeded
  (status/mod.rs:423-449; the field's doc says "successful").
- `Reset`, `KillSwitch` and `ReferenceDeviation` are never emitted to the machine.

## 6. Not modelled

- Prices, fees and PnL values of live trades, the USD skew; a cancel the venue accepts and
  carries out later; the `enter_timeout` gate set to 0.
- The rules of the entry filter and the rounding of the sizing: any verdict may come.
- A restart of the runner on open venues: the machine boots Flat whatever is open, the
  code promises nothing about it, so there is nothing to check but the loss itself.
- An Extended entry order that fills after it was reported Failed (entry_dispatch.rs:382-399):
  the runner is Flat and nothing in it looks at the venue. Late fills are Lighter's only.
- A reference mid that is fresh but not positive (reference_guard.rs:193), which leaves the
  minute counters as they are.
- Flat per-trade charges of the back-test (fees, lag, emergency surcharge, missed
  rest), its grid and its file formats.
- Metrics, dumps, the S3 mirror, mail, dashboards: written and never read back.
- Configuration and start-up (parsing and wiring), shell and Python scripts. Of the
  28700 lines of Rust, 12100 are tests inside the modules.

## 7. Plan

1. Which terminals LiveRunner's `Exit` may assume of ParallelExit (Pattern B, a leg
   dropped in mid-round), shown instead of allowed.
2. RiskManager under LiveTick: the loss a session can reach across halts and restarts.
3. Proofs that compose: the risk manager under the tick (item 2) and the leg's theorems in
   LiveRunner's exit (item 1).
4. `EntryFilter` and `Sizing` as pure operators against reference definitions.

---------------------------- MODULE RiskManager ----------------------------
(***************************************************************************)
(* The risk gates of src/src/risk: manager.rs owns the persisted RiskState  *)
(* and the throttle of its file, gates.rs decides whether an entry is       *)
(* blocked, persistence.rs writes and reads the file.  The runner calls     *)
(* them from one task (live.rs): tick at the head of every iteration,       *)
(* block_reason before an entry, record_close when a trip ends, an equity   *)
(* sample from the status report, flush when it stops.                      *)
(*                                                                          *)
(* Money and equity are integers, thresholds basis points, time seconds of  *)
(* a clock that never steps back (the code reads the UTC clock for stamps   *)
(* and a monotonic one for the throttle).  A stamp, a sampled equity and an *)
(* armed time are positive, so 0 stands for None.  A rejected non-finite    *)
(* PnL, the audit log and the snapshots for the dashboard are left out.     *)
(***************************************************************************)
EXTENDS Integers, FiniteSets

CONSTANTS
    Equities,           \* readings of the total equity; 0 is possible
    Pnls,               \* realised results of a trip
    MaxDailyLossBps, DayLength, ResetAt,
    MaxSessionLossBps, Lookback, SampleSecs,
    Tier1, Tier1Secs, Tier2, Tier2Secs,
    PersistSecs,        \* PERSIST_MIN_INTERVAL_SECS
    DiskMayFail,        \* writing the file or removing the ack may fail
    MaxTime, PnlBound, MaxLosses    \* bounds of the model

ASSUME RiskAssumption ==
    /\ Equities \subseteq Nat /\ Pnls \subseteq Int
    /\ MaxDailyLossBps \in Nat /\ DayLength \in Nat \ {0} /\ ResetAt \in Nat
    /\ MaxSessionLossBps \in Nat /\ Lookback \in Nat /\ SampleSecs \in Nat \ {0}
    /\ Tier1 \in Nat /\ Tier1Secs \in Nat /\ Tier2 \in Nat /\ Tier2Secs \in Nat
    /\ PersistSecs \in Nat \ {0} /\ DiskMayFail \in BOOLEAN
    /\ MaxTime \in Nat /\ PnlBound \in Nat /\ MaxLosses \in Nat

VARIABLES
    now,        \* the clock, in seconds
    store,      \* the manager's state, its file and the time of the last write
    lastEquity, \* last_equity; 0 if None
    ack,        \* the RISK_ACK file
    position,   \* the trip the runner holds, and what its entry could see
    \* history, read by the properties only
    lossAt,     \* when this process last recorded a losing trip; 0 if never
    changedAt,  \* when a call last changed the state; 0 once it is on disk
    unwritten   \* the last write of the file failed

history  == <<lossAt, changedAt, unwritten>>
riskVars == <<now, store, lastEquity, ack, position, history>>

Bps == 10000
state == store.mem

\* RiskState::default(), also what a missing file is read as.
FreshState ==
    [losses |-> 0, cbUntil |-> 0, startEquity |-> 0, startTs |-> 0,
     pnlToday |-> 0, samples |-> {}, halted |-> FALSE]

RiskInit ==
    /\ now = 1
    /\ store = [mem |-> FreshState, disk |-> FreshState, last |-> 0]
    /\ lastEquity = 0 /\ ack = "absent" /\ position = "none"
    /\ lossAt = 0 /\ changedAt = 0 /\ unwritten = FALSE

(***************************************************************************)
(* Pure gates (gates.rs).                                                   *)
(***************************************************************************)
SessionDay(ts) == (ts - ResetAt) \div DayLength

\* The day's loss has reached the limit; unknown before the first equity.
DailyHalted(s) ==
    /\ MaxDailyLossBps > 0 /\ s.startEquity > 0
    /\ Bps * s.pnlToday <= -(MaxDailyLossBps * s.startEquity)

CoolingDown(s) == s.cbUntil > now

Blocked(s) == s.halted \/ DailyHalted(s) \/ CoolingDown(s)

\* The fall from `peak` reaches the session threshold.
DrawnDown(peak, equity) == Bps * (peak - equity) >= MaxSessionLossBps * peak

(***************************************************************************)
(* The file (persistence.rs) and its throttle.  A write replaces the file   *)
(* atomically or leaves it as it was; the time of the attempt counts either *)
(* way, so one call makes at most one attempt.                              *)
(***************************************************************************)
Outcomes == IF DiskMayFail THEN BOOLEAN ELSE {TRUE}

Persist(st, ok) == [st EXCEPT !.disk = IF ok THEN st.mem ELSE @, !.last = now]

Due(st) == st.last = 0 \/ now - st.last >= PersistSecs

MaybePersist(st, ok) == IF Due(st) THEN Persist(st, ok) ELSE st

(***************************************************************************)
(* Housekeeping at the head of an iteration.                                *)
(***************************************************************************)
\* Mutant: an equity not read yet becomes the session's.
RollToUnread(s) ==
    [s EXCEPT !.pnlToday = 0, !.startTs = now, !.startEquity = lastEquity]

\* A new session: its equity is the last reading, if this process has one.
NewDay(s) ==
    [s EXCEPT !.pnlToday = 0, !.startTs = now,
              !.startEquity = IF lastEquity # 0 THEN lastEquity ELSE @]

RollDaily(st, ok) ==
    IF st.mem.startTs # 0 /\ SessionDay(now) > SessionDay(st.mem.startTs)
    THEN MaybePersist([st EXCEPT !.mem = NewDay(@)], ok)
    ELSE st

\* Mutant: the window of peaks survives the acknowledgement.
AckKeepsPeaks(st, ok) ==
    IF ack = "plain" /\ st.mem.halted
    THEN MaybePersist([st EXCEPT !.mem.halted = FALSE], ok)
    ELSE st

\* Clears the halt and the window of peaks.
ConsumeAck(st, ok) ==
    IF ack = "plain" /\ st.mem.halted
    THEN MaybePersist([st EXCEPT !.mem.halted = FALSE, !.mem.samples = {}], ok)
    ELSE st

\* Mutant: an expired cooldown is not saved.
ClearUnsaved(st, ok) ==
    IF st.mem.cbUntil # 0 /\ ~CoolingDown(st.mem) THEN [st EXCEPT !.mem.cbUntil = 0] ELSE st

ClearCooldown(st, ok) ==
    IF st.mem.cbUntil # 0 /\ ~CoolingDown(st.mem)
    THEN MaybePersist([st EXCEPT !.mem.cbUntil = 0], ok)
    ELSE st

(***************************************************************************)
(* Equity sample and close.                                                 *)
(***************************************************************************)
\* Mutant: every reading is kept.
KeepEveryReading(samples, e) ==
    {s \in samples : s.ts >= now - Lookback} \cup {[ts |-> now, equity |-> e]}

\* The window of samples after a reading of e > 0: old ones pruned, this one
\* added if none is younger than SampleSecs.
Window(samples, e) ==
    LET kept == {s \in samples : s.ts >= now - Lookback}
        due  == \A s \in kept : now - s.ts >= SampleSecs
    IN  kept \cup (IF due THEN {[ts |-> now, equity |-> e]} ELSE {})

\* The drawdown from the highest sample is the largest drawdown from any.
Sampled(s, e) ==
    LET w == Window(s.samples, e) IN
    [s EXCEPT !.startEquity = IF s.startEquity = 0 THEN e ELSE @,
              !.startTs = IF s.startEquity = 0 THEN now ELSE @,
              !.samples = w,
              !.halted = @ \/ (/\ MaxSessionLossBps > 0
                               /\ \E p \in w : DrawnDown(p.equity, e))]

\* Mutant: the first tier hides the second.
FirstTierFirst(losses) ==
    IF Tier1 > 0 /\ losses >= Tier1 THEN Tier1Secs
    ELSE IF Tier2 > 0 /\ losses >= Tier2 THEN Tier2Secs ELSE -1

\* How long a streak of losses pauses the entries; -1 if it does not.
CooldownSecs(losses) ==
    IF Tier2 > 0 /\ losses >= Tier2 THEN Tier2Secs
    ELSE IF Tier1 > 0 /\ losses >= Tier1 THEN Tier1Secs ELSE -1

Later(a, b) == IF a > b THEN a ELSE b

\* Mutant: a win takes one loss off the streak.
WinTakesOneOff(s, pnl) ==
    LET secs == IF pnl < 0 THEN CooldownSecs(s.losses + 1) ELSE -1 IN
    [s EXCEPT !.pnlToday = @ + pnl,
              !.losses = IF pnl < 0 THEN @ + 1 ELSE IF pnl > 0 THEN @ - 1 ELSE @,
              !.cbUntil = IF secs < 0 THEN @ ELSE Later(@, now + secs)]

\* A loss lengthens the streak and may arm the cooldown, never an earlier one;
\* a win ends the streak but not the cooldown.
Closed(s, pnl) ==
    LET losses == CASE pnl < 0 -> s.losses + 1 [] pnl > 0 -> 0 [] pnl = 0 -> s.losses
        secs   == IF pnl < 0 THEN CooldownSecs(losses) ELSE -1
    IN  [s EXCEPT !.pnlToday = @ + pnl,
                  !.losses = losses,
                  !.cbUntil = IF secs < 0 THEN @ ELSE Later(@, now + secs)]

(***************************************************************************)
(* The calls of the runner.                                                 *)
(***************************************************************************)
\* The history of a call that makes `st` the store.
Stored(st, ok) ==
    /\ store' = st
    /\ changedAt' = CASE st.mem = st.disk -> 0
                      [] st.mem # st.disk /\ st.mem # state -> now
                      [] st.mem # st.disk /\ st.mem = state -> changedAt
    /\ unwritten' = IF Due(store) /\ st.last = now THEN ~ok ELSE unwritten

\* tick: roll the day, honour an acknowledgement, expire the cooldown.  An ack
\* that is removed without a halt does nothing; a malformed one stays.
Tick ==
    /\ \E ok, removed \in Outcomes :
         /\ Stored(ClearCooldown(ConsumeAck(RollDaily(store, ok), ok), ok), ok)
         /\ ack' = IF ack = "plain" /\ removed THEN "absent" ELSE ack
    /\ UNCHANGED <<now, lastEquity, position, lossAt>>

\* record_equity_sample, which ignores a total that is not positive.
EquitySample(e) ==
    /\ e > 0
    /\ lastEquity' = e
    /\ \E ok \in Outcomes :
         Stored(MaybePersist([store EXCEPT !.mem = Sampled(state, e)], ok), ok)
    /\ UNCHANGED <<now, ack, position, lossAt>>

\* The runner passes the risk gate and opens a trip.
Enter ==
    /\ position = "none"
    /\ ~Blocked(state)
    /\ position' = IF state.startEquity > 0 THEN "gated" ELSE "ungated"
    /\ UNCHANGED <<now, store, lastEquity, ack, history>>

\* record_close, when the exit or the emergency ends the trip.
Close(pnl) ==
    /\ position # "none"
    /\ state.pnlToday + pnl \in -PnlBound..PnlBound
    /\ pnl < 0 => state.losses < MaxLosses
    /\ position' = "none"
    /\ lossAt' = IF pnl < 0 THEN now ELSE lossAt
    /\ \E ok \in Outcomes :
         Stored(MaybePersist([store EXCEPT !.mem = Closed(state, pnl)], ok), ok)
    /\ UNCHANGED <<now, lastEquity, ack>>

\* A new process: RiskManager::new reads the file back and the runner boots
\* Flat.  How long the process is down does not matter to it.
Booted(st) ==
    /\ store' = [st EXCEPT !.mem = st.disk, !.last = 0]
    /\ lastEquity' = 0 /\ position' = "none"
    /\ lossAt' = 0 /\ changedAt' = 0 /\ unwritten' = FALSE
    /\ UNCHANGED <<now, ack>>

\* The shutdown signal ends the loop, which flushes what the throttle held.
Shutdown == \E ok \in Outcomes : Booted(Persist(store, ok))

\* The process dies: what was not written is gone.
Crash == Booted(store)

\* The operator drops an acknowledgement, well formed or not.
OperatorAcks ==
    /\ ack' \in {"plain", "malformed"}
    /\ UNCHANGED <<now, store, lastEquity, position, history>>

Elapse ==
    /\ now < MaxTime /\ now' = now + 1
    /\ UNCHANGED <<store, lastEquity, ack, position, history>>

RiskNext ==
    \/ Tick \/ (\E e \in Equities : EquitySample(e))
    \/ Enter \/ (\E pnl \in Pnls : Close(pnl))
    \/ Shutdown \/ Crash \/ OperatorAcks \/ Elapse

RiskSpec == RiskInit /\ [][RiskNext]_riskVars

(***************************************************************************)
(* Properties.                                                              *)
(***************************************************************************)
Sample == [ts : Nat, equity : Nat]
RiskState ==
    [losses : Nat, cbUntil : Nat, startEquity : Nat, startTs : Nat,
     pnlToday : Int, samples : SUBSET Sample, halted : BOOLEAN]

\* Every variable has its type.
RiskTypeOK ==
    /\ now \in Nat \ {0}
    /\ store \in [mem : RiskState, disk : RiskState, last : Nat]
    /\ lastEquity \in Nat
    /\ ack \in {"absent", "plain", "malformed"}
    /\ position \in {"none", "gated", "ungated"}
    /\ lossAt \in Nat /\ changedAt \in Nat /\ unwritten \in BOOLEAN

\* D-4: while the bot is not halted, the equity it last read has not fallen by
\* the threshold from any peak it still remembers, across day rolls,
\* acknowledgements and restarts (manager.rs:11-13, 458-461).
DrawdownHalts ==
    MaxSessionLossBps > 0 /\ ~state.halted /\ lastEquity # 0 =>
        \A p \in state.samples : ~DrawnDown(p.equity, lastEquity)

\* D-3: a trip that was entered with the session's equity known is never held
\* on a day that is already stopped, so the day's loss passes its limit by at
\* most the result of that one trip (manager.rs:8-10).
OneTripPastTheLimit ==
    position = "gated" => state.startEquity > 0 /\ ~DailyHalted(state)

\* The window of samples stays bounded, so that the file does (manager.rs:70-73).
SamplesBounded == Cardinality(state.samples) <= Lookback \div SampleSecs + 1

\* What a crash would lose was decided since the last write and within
\* PersistSecs of it: anything older is on disk, unless that write failed
\* (manager.rs:602-612).
UnsavedIsRecent ==
    state # store.disk /\ ~unwritten =>
        /\ store.last # 0
        /\ changedAt >= store.last /\ changedAt < store.last + PersistSecs

\* D-7: after a losing streak no entry comes before the cooldown of its tier
\* has run from the last loss, whatever closes, ticks and day rolls come
\* between (manager.rs:544-570).
EntryServesCooldown ==
    [][/\ position = "none" /\ position' # "none" /\ lossAt # 0 =>
          /\ (Tier2 > 0 /\ state.losses >= Tier2) => now >= lossAt + Tier2Secs
          /\ (Tier1 > 0 /\ state.losses >= Tier1 /\ (Tier2 = 0 \/ state.losses < Tier2))
                => now >= lossAt + Tier1Secs]_riskVars
=============================================================================

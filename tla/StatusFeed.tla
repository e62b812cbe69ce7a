----------------------------- MODULE StatusFeed -----------------------------
(***************************************************************************)
(* The equity feed and the status writer: read_total_equity_for_sample and  *)
(* refresh_equity of src/src/xvenue/live_status.rs, and of StatusReporter   *)
(* (status/mod.rs) the equity of the day, its baseline file and the         *)
(* snapshot, across restarts of the process.                                *)
(*                                                                          *)
(* A report is run at boot and then by the status timer: it reads both      *)
(* venues, updates the PnL of the day and writes status.json if that is     *)
(* due.  A file is replaced by a rename, so a write that fails or is cut     *)
(* off leaves the old one.  The sample also goes to the risk manager        *)
(* (module RiskManager); what else a snapshot shows is left out.            *)
(***************************************************************************)
EXTENDS Integers, FiniteSets

CONSTANTS
    Balances,   \* what an account may hold
    LastDay,    \* bound: the last UTC date
    MaxBoots    \* bound: the processes

Venues == {"ext", "lt"}

ASSUME StatusFeedAssumption ==
    /\ Balances \subseteq Nat \ {0}
    /\ LastDay \in Nat /\ MaxBoots \in Nat

VARIABLES
    day,        \* the UTC date
    feed,       \* the connectors' balances: "down", "empty" before the first
                \* account dump has arrived, or "live"
    arm,        \* "refresh" or "write": the next half of a report
    armed,      \* equity_initialized
    start,      \* equity_day_start with pnl_today_date, an option
    pnl,        \* pnl_total and pnl_today, [total, today]
    disk,       \* the baseline file, an option
    status,     \* status.json, an option: its PnL and the day it was sampled
    boots,      \* the processes so far
    sampledOn,  \* history: the day of this process's last sample, an option
    first,      \* history: the first sample of every day, an option
    lost,       \* history: the days whose baseline died with a process, unwritten or
                \* unreadable to the next one
    whole       \* history: every sample was what both venues held

process == <<arm, armed, start, pnl, sampledOn>>
statusHistories == <<first, lost, whole>>
statusVars == <<day, feed, process, disk, status, boots, statusHistories>>

\* Mutant: the date of the file is not looked at.
LoadedForToday(file) == {[b EXCEPT !.date = day] : b \in file}

\* load_equity_baseline, of a file that can be read and parsed.
Loaded(file) == file

\* A new process: its connectors know nothing yet, and without a warning it goes
\* on with no baseline if the file cannot be read or parsed.
Boots ==
    /\ arm' = "refresh" /\ armed' = FALSE /\ pnl' = [total |-> 0, today |-> 0]
    /\ start' \in {Loaded(disk), {}} /\ sampledOn' = {}
    /\ feed' \in [Venues -> {"down", "empty"}]

StatusInit ==
    /\ day = 0
    /\ arm = "refresh" /\ armed = FALSE /\ pnl = [total |-> 0, today |-> 0]
    /\ start = {} /\ sampledOn = {} /\ feed \in [Venues -> {"down", "empty"}]
    /\ disk = {} /\ status = {} /\ boots = 1
    /\ first = [d \in 0..LastDay |-> {}] /\ lost = {} /\ whole = TRUE

(***************************************************************************)
(* The sample.                                                              *)
(***************************************************************************)
Total(account) == account["ext"] + account["lt"]

\* read_equity_usd: an empty cache answers with a zero.
Answered(account) == [v \in Venues |-> IF feed[v] = "live" THEN account[v] ELSE 0]

\* read_total_equity_for_sample: all or nothing, and no zero before the first
\* positive total.
Sample(account) ==
    LET total == Total(Answered(account)) IN
    IF (\E v \in Venues : feed[v] = "down") \/ (total = 0 /\ ~armed) THEN {} ELSE {total}

\* persist_equity_baseline, whose failure is only logged.
Persists(baseline) == disk' \in {disk, {baseline}}

\* update_equity.
NewDay == \A b \in start : b.date # day

UpdateEquity(total) ==
    /\ IF NewDay
       THEN start' = {[date |-> day, equity |-> total]} /\ Persists([date |-> day, equity |-> total])
       ELSE UNCHANGED <<start, disk>>
    /\ \A b \in start' : pnl' = [total |-> total, today |-> total - b.equity]

RefreshEquity ==
    /\ arm = "refresh" /\ arm' = "write"
    /\ \E account \in [Venues -> Balances] :
        \/ Sample(account) = {}
           /\ UNCHANGED <<armed, start, pnl, disk, sampledOn, first, whole>>
        \/ \E total \in Sample(account) :
            /\ UpdateEquity(total) /\ armed' = TRUE
            /\ sampledOn' = {day} /\ whole' = (whole /\ total = Total(account))
            /\ first' = IF first[day] = {} THEN [first EXCEPT ![day] = {total}] ELSE first
    /\ UNCHANGED <<day, feed, status, boots, lost>>

\* write_snapshot_if_due; a snapshot that is not due, or fails, is skipped.
WriteSnapshot ==
    /\ arm = "write" /\ arm' = "refresh"
    /\ status' \in {status, {[pnl |-> pnl, on |-> sampledOn]}}
    /\ UNCHANGED <<day, feed, armed, start, pnl, sampledOn, disk, boots, statusHistories>>

(***************************************************************************)
(* The surroundings.                                                        *)
(***************************************************************************)
\* The process dies, at any point of a report, and is started again.
Restart ==
    /\ boots < MaxBoots /\ boots' = boots + 1
    /\ Boots
    /\ lost' = lost \cup {b.date : b \in start \ start'}
    /\ UNCHANGED <<day, disk, status, first, whole>>

\* A balance arrives, or a venue stops answering and answers again.
FeedMoves ==
    /\ \E v \in Venues :
        \/ feed[v] # "live" /\ feed' = [feed EXCEPT ![v] = "live"]
        \/ feed[v] = "live" /\ feed' = [feed EXCEPT ![v] = "down"]
        \/ feed[v] = "down" /\ ~armed /\ feed' = [feed EXCEPT ![v] = "empty"]
    /\ UNCHANGED <<day, process, disk, status, boots, statusHistories>>

Midnight ==
    /\ day < LastDay /\ day' = day + 1
    /\ UNCHANGED <<feed, process, disk, status, boots, statusHistories>>

StatusNext == RefreshEquity \/ WriteSnapshot \/ Restart \/ FeedMoves \/ Midnight

StatusSpec == StatusInit /\ [][StatusNext]_statusVars

(***************************************************************************)
(* Properties.                                                              *)
(***************************************************************************)
\* pnl_today of a snapshot is counted from the first sample of its UTC day,
\* whichever process took that one, unless its baseline could not be written or
\* read back (status/mod.rs:77-79, 340-352, 545-554).
PnlTodayFromDayStart ==
    \A s \in status : \A d \in s.on : \A f \in first[d] :
        d \notin lost => s.pnl.today = s.pnl.total - f

\* The total handed on is "all-or-nothing": "recording a single-venue equity
\* halves the rolling peak and trips a spurious session_dd halt, so we
\* deliberately skip" (live_status.rs:33, 41).
SampleIsWhole == whole
=============================================================================

---------------------------- MODULE ErrorDeferral ----------------------------
(***************************************************************************)
(* The counting logger: ErrorCountingLogger::log of src/src/error_counter.rs *)
(* and the deferral of transient WebSocket lines in ws_event_defer.rs, run   *)
(* by any thread that logs, with the status reporter reading the counts.     *)
(*                                                                          *)
(* A call reads the clock once, then takes one mutex after another; each     *)
(* action is what it does under one of them.  The totals and the last        *)
(* message follow the push into recent; errors and warnings are counted      *)
(* alike, so a line is its number, its time and its kind.  What the other    *)
(* threads do to the clock is bounded by Slow: a call lasts no longer.       *)
(***************************************************************************)
EXTENDS Naturals, FiniteSets, Sequences, SequencesExt, FiniteSetsExt

CONSTANTS
    Threads,
    Window,     \* WS_DEFER_WINDOW_SECS
    Rolling,    \* ROLLING_WINDOW_SECS
    Day,        \* WS_RESET_24H_WINDOW_SECS
    Slow,       \* bound: the longest a call takes
    Lines,      \* bound: the calls
    Horizon     \* bound: the last second

ASSUME ErrorDeferralAssumption ==
    /\ IsFiniteSet(Threads)
    /\ Window \in Nat \ {0} /\ Rolling \in Nat /\ Day \in Nat /\ Slow \in Nat
    /\ Lines \in Nat /\ Horizon \in Nat

\* What the text of a line makes of it.  WS_RESET_PHRASE may be in any line; an
\* INFO line that has it behaves like a mention that is not counted.
Reset     == "reset"
Phrased   == {Reset, "mention"}
Transient == {"transient", Reset}
Warning   == {"plain"} \cup Transient \cup Phrased
Recovery  == "recovery"     \* is_ws_recovery_event, an INFO line

\* The locks a call takes, in order.
Steps ==
    [kind \in Warning \cup {Recovery, "snapshot", "resets"} |->
        CASE kind \in Phrased  -> <<"record", "take", "push", "count">>
          [] kind = Recovery   -> <<"drain", "take", "push">>
          [] kind = "snapshot" -> <<"take", "push", "prune">>
          [] kind = "resets"   -> <<"forget">>
          [] OTHER             -> <<"take", "push", "count">>]

VARIABLES
    now,        \* the clock
    pending,    \* pending_ws
    recent,     \* Counters::recent
    total,      \* error_total and warn_total
    resets,     \* ws_resets_24h
    call,       \* of a thread, its call: the line, the locks to come and the
                \* expired lines it has taken from pending
    lines,      \* history: the calls so far
    counted,    \* history: the lines that were not suppressed
    drained,    \* history: of these, the lines a recovery dropped
    committed,  \* history: of these, the lines that reached recent
    saved,      \* history: the lines a recovery found in time
    noted       \* history: the resets that reached the queue

logHistories == <<lines, counted, drained, committed, saved, noted>>
logVars == <<now, pending, recent, total, resets, call, logHistories>>

Idle == [line |-> [id |-> 0, ts |-> 0, kind |-> "plain"], left |-> <<>>, taken |-> <<>>]

LogInit ==
    /\ now = 0 /\ pending = <<>> /\ recent = <<>> /\ total = 0
    /\ resets = <<>> /\ call = [t \in Threads |-> Idle]
    /\ lines = 0 /\ counted = {} /\ drained = {} /\ committed = {}
    /\ saved = {} /\ noted = {}

(***************************************************************************)
(* The queues, in the order their lines were pushed.                        *)
(***************************************************************************)
\* What a loop pops that stops at the first line not due.
DueInFront(queue, Due(_)) ==
    LET stop == SelectInSeq(queue, LAMBDA e : ~Due(e)) IN
    IF stop = 0 THEN queue ELSE SubSeq(queue, 1, stop - 1)

Rest(queue, popped) == SubSeq(queue, Len(popped) + 1, Len(queue))

Pruned(queue, window, ts) ==
    Rest(queue, DueInFront(queue, LAMBDA e : e.ts + window < ts))

\* Mutant: one line is popped and not all that are due.
FirstExpired(ts) ==
    IF pending # <<>> /\ Head(pending).ts + Window <= ts THEN <<Head(pending)>> ELSE <<>>

\* flush_expired_pending: the lines a call at ts takes.
Expired(ts) == DueInFront(pending, LAMBDA e : e.ts + Window <= ts)

\* Mutant: a line at the limit, which is taken, is kept as the drain keeps it.
KeptAsIfDrained(ts) == SelectSeq(pending, LAMBDA e : e.ts + Window >= ts)

StillWaiting(ts) == Rest(pending, Expired(ts))

\* Mutant: the comparison is turned round.
UndrainedIfRecent(ts) == SelectSeq(pending, LAMBDA e : e.ts + Window >= ts)

\* drain_on_recovery: what a recovery at ts leaves, of the first n lines; retain
\* as a function, where SelectSeq would do, so that it can be reasoned about.
Undrained(ts) ==
    LET kept[n \in 0..Len(pending)] ==
            IF n = 0 THEN <<>>
            ELSE IF pending[n].ts + Window < ts THEN Append(kept[n - 1], pending[n])
            ELSE kept[n - 1]
    IN  kept[Len(pending)]

(***************************************************************************)
(* The steps of a call.                                                     *)
(***************************************************************************)
Begin(t) ==
    /\ call[t].left = <<>> /\ lines < Lines
    /\ lines' = lines + 1
    /\ \E kind \in DOMAIN Steps :
        /\ call' = [call EXCEPT ![t] = [line  |-> [id |-> lines', ts |-> now, kind |-> kind],
                                        left  |-> Steps[kind],
                                        taken |-> <<>>]]
        /\ saved' = IF kind # Recovery THEN saved
                    ELSE saved \cup {e \in ToSet(pending) : now + Slow < e.ts + Window}
    /\ UNCHANGED <<now, pending, recent, total, resets,
                   counted, drained, committed, noted>>

\* The call is at this lock, and goes on to the next one or ends.
At(t, lock) == call[t].left # <<>> /\ Head(call[t].left) = lock

Goes(t, taken) ==
    call' = IF Len(call[t].left) = 1 THEN [call EXCEPT ![t] = Idle]
            ELSE [call EXCEPT ![t].left = Tail(@), ![t].taken = taken]

\* record_ws_reset_if_match.
RecordReset(t) ==
    /\ At(t, "record") /\ Goes(t, <<>>)
    /\ resets' = Append(Pruned(resets, Day, call[t].line.ts), call[t].line)
    /\ noted' = noted \cup {call[t].line}
    /\ UNCHANGED <<now, pending, recent, total,
                   lines, counted, drained, committed, saved>>

Drain(t) ==
    /\ At(t, "drain") /\ Goes(t, <<>>)
    /\ pending' = Undrained(call[t].line.ts)
    /\ drained' = drained \cup (ToSet(pending) \ ToSet(pending'))
    /\ UNCHANGED <<now, recent, total, resets,
                   lines, counted, committed, saved, noted>>

\* The first half of flush_expired_pending, under pending_ws ...
Take(t) ==
    /\ At(t, "take") /\ Goes(t, Expired(call[t].line.ts))
    /\ pending' = StillWaiting(call[t].line.ts)
    /\ UNCHANGED <<now, recent, total, resets, logHistories>>

\* ... and commit_batch, under recent.
CommitBatch(t) ==
    /\ At(t, "push") /\ Goes(t, <<>>)
    /\ recent' = recent \o call[t].taken
    /\ total' = total + Len(call[t].taken)
    /\ committed' = committed \cup ToSet(call[t].taken)
    /\ UNCHANGED <<now, pending, resets, lines, counted, drained, saved, noted>>

\* The line itself, deferred or committed, unless SUPPRESS_COUNTING, which the
\* tick thread may set at any time, is read to be set.
Count(t) ==
    LET line == call[t].line IN
    /\ At(t, "count") /\ Goes(t, <<>>)
    /\ \/ UNCHANGED <<pending, recent, total, counted, committed>>
       \/ /\ counted' = counted \cup {line}
          /\ IF line.kind \in Transient
             THEN pending' = Append(pending, line) /\ UNCHANGED <<recent, total, committed>>
             ELSE /\ recent' = Append(recent, line) /\ total' = total + 1
                  /\ committed' = committed \cup {line} /\ UNCHANGED pending
    /\ UNCHANGED <<now, resets, lines, drained, saved, noted>>

\* rolling_counts, of a snapshot, and ws_reset_24h_count.
Prune(t) ==
    /\ At(t, "prune") /\ Goes(t, <<>>)
    /\ recent' = Pruned(recent, Rolling, call[t].line.ts)
    /\ UNCHANGED <<now, pending, total, resets, logHistories>>

Forget(t) ==
    /\ At(t, "forget") /\ Goes(t, <<>>)
    /\ resets' = Pruned(resets, Day, call[t].line.ts)
    /\ UNCHANGED <<now, pending, recent, total, logHistories>>

Tick ==
    /\ now < Horizon
    /\ \A t \in Threads : call[t].left # <<>> => now < call[t].line.ts + Slow
    /\ now' = now + 1
    /\ UNCHANGED <<pending, recent, total, resets, call, logHistories>>

LogNext ==
    \/ Tick
    \/ \E t \in Threads : \/ Begin(t) \/ RecordReset(t) \/ Drain(t) \/ Take(t)
                          \/ CommitBatch(t) \/ Count(t) \/ Prune(t) \/ Forget(t)

\* The end of the bounds.
Over ==
    /\ lines = Lines /\ now = Horizon /\ \A t \in Threads : call[t].left = <<>>
    /\ UNCHANGED logVars

LogSpec == LogInit /\ [][LogNext \/ Over]_logVars

(***************************************************************************)
(* Properties.                                                              *)
(***************************************************************************)
Taken(t) == ToSet(call[t].taken)

\* A line that was not suppressed is pending, on its way, committed or drained,
InOnePlace ==
    counted = ToSet(pending) \cup (UNION {Taken(t) : t \in Threads}) \cup committed \cup drained

\* in one of these, and once,
AndOnce ==
    /\ ToSet(pending) \cap (committed \cup drained) = {} /\ committed \cap drained = {}
    /\ \A t \in Threads : Taken(t) \cap (ToSet(pending) \cup committed \cup drained) = {}
    /\ \A t, u \in Threads : t # u => Taken(t) \cap Taken(u) = {}
    /\ IsInjective(pending) /\ \A t \in Threads : IsInjective(call[t].taken)
    /\ total = Cardinality(committed)

\* and while its window lasts it is among those that are reported; so is a reset.
AndReported ==
    /\ \A e \in committed : now <= e.ts + Rolling => e \in ToSet(recent)
    /\ \A e \in noted : now <= e.ts + Day => e \in ToSet(resets)

\* Whatever the threads do between two locks, a line that was not suppressed is
\* in one place, pending, on its way, committed or drained by a recovery, and
\* is committed once (ws_event_defer.rs:139); while its window lasts, it is among
\* those that are counted, and a reset is among its own, suppressed or not.
EveryLineOnce == InOnePlace /\ AndOnce /\ AndReported

\* A transient line that a recovery finds pending, with the time a call may
\* take left before its window ends, is not counted as a failure, not even by a
\* call on another thread (ws_event_defer.rs:103).
RecoveredInTime == saved \cap committed = {}

\* A queue is pruned from its front although its lines need not be in the order
\* of their times: a line stays too long by no more than a call takes, in
\* pending_ws and in the queue of resets (ws_event_defer.rs:131).
NothingOverstays ==
    \A t \in Threads : LET ts == call[t].line.ts IN
        /\ At(t, "push") => \A e \in ToSet(pending) : ts < e.ts + Window + Slow
        /\ call[t].line.kind \in Phrased /\ At(t, "take") =>
            \A e \in ToSet(resets) : ts <= e.ts + Day + Slow

=============================================================================

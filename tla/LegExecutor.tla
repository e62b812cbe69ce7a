---------------------------- MODULE LegExecutor ----------------------------
(***************************************************************************)
(* One leg of an entry or an exit: the loop of src/src/trade/execution/     *)
(* maker_loop.rs that places post-only rounds, falls back to a taker order, *)
(* and reports one quantity, with the three profiles its callers run it     *)
(* with (extended_maker.rs, lighter_maker.rs; lighter_fill.rs is the taker  *)
(* round alone).                                                            *)
(*                                                                          *)
(* The loop learns of fills from three WS-fed lists (poll_fill_status),     *)
(* which may trail the venue by up to Lag and need not agree with each      *)
(* other.  A step is the code between two awaits; the venue acts in between.*)
(* Time is counted in poll intervals and passes while the loop sleeps and   *)
(* while it awaits an answer of the venue.  Prices and fill values are left *)
(* out.                                                                     *)
(***************************************************************************)
EXTENDS Integers

CONSTANTS
    None,
    Target,         \* target_qty a caller may ask for
    DustQty,        \* dust_qty
    MinQty,         \* venue_min_qty
    Retries,        \* chase_retries
    Timeout,        \* chase_timeout_ms, fill_timeout_ms
    ChaseGrace,     \* lighter_chase_grace_poll_ms
    TakerGrace,     \* extended_ and lighter_taker_grace_poll_ms
    Lag,            \* longest time a list trails the venue
    MaxFaults,      \* bound: failed calls
    MaxAwaited      \* bound: time the venue takes to answer, in all

ASSUME LegAssumption ==
    /\ Target \subseteq Nat \ {0} /\ DustQty \in Nat /\ MinQty \in Nat
    /\ Retries \in Nat /\ Timeout \in Nat \ {0}
    /\ ChaseGrace \in Nat /\ TakerGrace \in Nat /\ Lag \in Nat
    /\ MaxFaults \in Nat /\ MaxAwaited \in Nat

VARIABLES
    params,     \* MakerLoopParams and the floors, fixed for a call
    req,        \* MakerRequest, fixed for a call, and the size the venue holds
    pc,         \* where the loop is
    kind,       \* the round it is in: "chase" or "taker"
    round,      \* chase rounds so far
    total,      \* total_filled
    failure,    \* last_failure
    seen,       \* the outcome of this round's order so far
    asked,      \* this order has been sent a cancel
    graced,     \* this order has had its grace poll
    timer,      \* time in the present wait
    order,      \* this round's order on the venue and in the lists, or None
    lag,        \* for how long the lists have been behind on it
    ghost,      \* size still working of orders the loop has left behind
    traded,     \* what the venue has filled for this call
    credited,   \* what was taken as closed without a fill
    split,      \* an order was filled in part at some time
    awaited,    \* time the venue has taken to answer this call's requests
    faults      \* faults so far

request == <<params, req>>
report  == <<total, failure>>
watch   == <<seen, asked, graced, timer>>
market  == <<order, lag, ghost, traded, split>>
legVars == <<request, pc, kind, round, report, watch, market, credited, awaited, faults>>

Most(a, b) == IF a > b THEN a ELSE b
Least(a, b) == IF a < b THEN a ELSE b

(***************************************************************************)
(* The knobs each caller runs the loop with.                                *)
(***************************************************************************)
Extended(postOnly, fallback) ==
    [postOnly |-> postOnly, fallback |-> fallback, graceFirst |-> TRUE,
     chaseGrace |-> 0, takerGrace |-> TakerGrace,
     chaseFloor |-> DustQty, takerFloor |-> Most(MinQty, DustQty)]

LighterMaker(fallback) ==
    [postOnly |-> TRUE, fallback |-> fallback, graceFirst |-> FALSE,
     chaseGrace |-> ChaseGrace, takerGrace |-> TakerGrace,
     chaseFloor |-> Most(DustQty, MinQty), takerFloor |-> Most(MinQty, DustQty)]

LighterFill ==
    [postOnly |-> FALSE, fallback |-> TRUE, graceFirst |-> FALSE,
     chaseGrace |-> 0, takerGrace |-> 0, chaseFloor |-> 0, takerFloor |-> 0]

Profiles ==
    {Extended(p, f) : p, f \in BOOLEAN} \cup {LighterMaker(f) : f \in BOOLEAN} \cup {LighterFill}

Nothing == [filled |-> 0, cancelled |-> FALSE]

\* A reduce-only call may ask for more than the venue still holds.
LegInit ==
    /\ params \in Profiles
    /\ \E q \in Target, ro \in BOOLEAN : \E h \in 0..q :
        req = [target |-> q, reduceOnly |-> ro, held |-> IF ro THEN h ELSE 0]
    /\ pc = "next" /\ kind = "chase" /\ round = 0
    /\ total = 0 /\ failure = None
    /\ seen = Nothing /\ asked = FALSE /\ graced = FALSE /\ timer = 0
    /\ order = None /\ lag = 0 /\ ghost = 0 /\ traded = 0 /\ split = FALSE
    /\ credited = 0 /\ awaited = 0 /\ faults = 0

(***************************************************************************)
(* The venue.                                                               *)
(***************************************************************************)
Placed(q) == [size |-> q, filled |-> 0, open |-> TRUE,
              shown |-> 0, listed |-> FALSE, ended |-> FALSE]

Cancelled(o) == ~o.open /\ o.filled < o.size

Behind(o) == o.shown # o.filled \/ o.listed # o.open \/ o.ended # Cancelled(o)

\* Reduce-only orders never close more than is held.
Allowed(n) == req.reduceOnly => n <= req.held - traded

Moves(o) ==
    /\ order' = o
    /\ lag' = IF Behind(order) THEN lag ELSE 0
    /\ UNCHANGED <<request, pc, kind, round, report, watch, ghost, credited, awaited, faults>>

Fill(n) ==
    /\ order # None /\ order.open
    /\ n <= order.size - order.filled /\ Allowed(n)
    /\ Moves([order EXCEPT !.filled = @ + n, !.open = order.filled + n < order.size])
    /\ traded' = traded + n
    /\ split' = (split \/ order.filled + n < order.size)

\* A post-only quote that crosses, the rest of an IOC, a rejection.
Expire ==
    /\ order # None /\ order.open
    /\ Moves([order EXCEPT !.open = FALSE])
    /\ UNCHANGED <<traded, split>>

\* An update reaches one of the lists.
Show ==
    /\ order # None /\ Behind(order)
    /\ order' \in {[order EXCEPT !.shown = order.filled], [order EXCEPT !.listed = order.open],
                   [order EXCEPT !.ended = Cancelled(order)]} \ {order}
    /\ lag' = IF Behind(order') THEN lag ELSE 0
    /\ UNCHANGED <<request, pc, kind, round, report, watch, ghost, traded, split, credited,
                   awaited, faults>>

GhostFill ==
    /\ ghost > 0 /\ Allowed(1)
    /\ ghost' = ghost - 1 /\ traded' = traded + 1
    /\ UNCHANGED <<request, pc, kind, round, report, watch, order, lag, split, credited,
                   awaited, faults>>

Venue == (\E n \in 1..req.target : Fill(n)) \/ Expire \/ Show \/ GhostFill

(***************************************************************************)
(* Placing.                                                                 *)
(***************************************************************************)
\* Mutant: every round asks for the whole quantity.
WholeTarget == req.target

Remaining == req.target - total

Rounds == Most(Retries, 1)

MayChase ==
    kind = "chase" /\ params.postOnly /\ round < Rounds /\ Remaining > params.chaseFloor

MayTake == ~MayChase /\ params.fallback /\ Remaining > params.takerFloor

Fault == faults < MaxFaults /\ faults' = faults + 1

Watches(o) ==
    /\ order' = o /\ lag' = 0
    /\ seen' = Nothing /\ asked' = FALSE /\ graced' = FALSE /\ timer' = 0

Place ==
    /\ pc = "next" /\ (MayChase \/ MayTake)
    /\ kind' = IF MayChase THEN "chase" ELSE "taker"
    /\ Watches(Placed(Remaining))
    /\ pc' = "poll"
    /\ UNCHANGED <<request, round, report, ghost, traded, split, credited, awaited, faults>>

\* Reading the book or placing fails, or the book gives no price: no more
\* chasing.  An order whose placing failed may have reached the venue all the
\* same.
ChaseFails ==
    /\ pc = "next" /\ MayChase
    /\ \/ Fault /\ ghost' \in {ghost, ghost + Remaining}
       \/ UNCHANGED <<faults, ghost>>
    /\ failure' = "VenueRejected" /\ kind' = "taker"
    /\ UNCHANGED <<request, pc, round, total, watch, order, lag, traded, split, credited,
                   awaited>>

\* lighter_fill.rs has its own names for what ends a taker order.
RejectedAtPlace == IF params = LighterFill THEN "VenueRejected" ELSE "TakerRejected"
RejectedLater == IF params = LighterFill THEN "Cancelled" ELSE "TakerRejected"

TakerFails ==
    /\ pc = "next" /\ MayTake /\ Fault
    /\ failure' = IF total = 0 THEN RejectedAtPlace ELSE failure
    /\ ghost' \in {ghost, ghost + Remaining}
    /\ pc' = "done"
    /\ UNCHANGED <<request, kind, round, total, watch, order, lag, traded, split, credited,
                   awaited>>

\* "Position is missing for reduce-only": the rest is taken as closed.  The
\* answer may be wrong.
PositionMissing ==
    /\ pc = "next" /\ MayTake /\ req.reduceOnly /\ params # LighterFill
    /\ IF req.held = traded THEN UNCHANGED faults ELSE Fault
    /\ total' = total + Remaining /\ credited' = credited + Remaining
    /\ pc' = "done"
    /\ UNCHANGED <<request, kind, round, failure, watch, market, awaited>>

Return ==
    /\ pc = "next" /\ ~MayChase /\ ~MayTake
    /\ pc' = "done"
    /\ UNCHANGED <<request, kind, round, report, watch, market, credited, awaited, faults>>

(***************************************************************************)
(* Watching the order: poll_until_terminal_or_deadline, then the cancel and *)
(* the grace poll in the order the profile has them.                        *)
(***************************************************************************)
\* What poll_fill_status makes of the three lists.
Terminal(o) == o.ended \/ (~o.listed /\ o.shown > 0)

Deadline == timer >= Timeout

\* Mutant: the venue's running sum is taken for the fills since the last poll.
Accumulated == seen.filled + order.shown

FilledThisRound == Most(seen.filled, order.shown)

Poll ==
    /\ pc = "poll"
    /\ seen' = [filled |-> FilledThisRound, cancelled |-> order.ended]
    /\ pc' = IF Terminal(order) \/ Deadline THEN "settle" ELSE "sleep"
    /\ UNCHANGED <<request, kind, round, report, asked, graced, timer, market, credited,
                   awaited, faults>>

PollFails ==
    /\ pc = "poll" /\ Fault
    /\ pc' = IF Deadline THEN "settle" ELSE "sleep"
    /\ UNCHANGED <<request, kind, round, report, watch, market, credited, awaited>>

Grace == IF kind = "chase" THEN params.chaseGrace ELSE params.takerGrace

GraceFirst == kind = "taker" /\ params.graceFirst

\* Mutant: there is no grace poll.
NeverGraced == FALSE

GraceDue == seen.filled = 0 /\ ~seen.cancelled /\ Grace > 0 /\ ~graced

StartGrace ==
    /\ pc = "settle" /\ GraceDue /\ (GraceFirst \/ asked)
    /\ pc' = "grace" /\ timer' = 0
    /\ UNCHANGED <<request, kind, round, report, seen, asked, graced, market, credited,
                   awaited, faults>>

GracePoll(ok) ==
    /\ pc = "grace" /\ timer = Grace
    /\ IF ok THEN UNCHANGED faults ELSE Fault
    /\ seen' = IF ok /\ order.shown > 0
               THEN [filled |-> order.shown, cancelled |-> order.ended] ELSE seen
    /\ graced' = TRUE /\ pc' = "settle"
    /\ UNCHANGED <<request, kind, round, report, asked, timer, market, credited, awaited>>

\* The answer to a cancel is ignored: when it fails the order works on.
Cancel(ok) ==
    /\ pc = "settle" /\ ~asked /\ ~(GraceFirst /\ GraceDue)
    /\ asked' = TRUE
    /\ IF ok THEN /\ order' = [order EXCEPT !.open = FALSE]
                  /\ lag' = IF Behind(order) THEN lag ELSE 0
                  /\ UNCHANGED faults
             ELSE order.open /\ Fault /\ UNCHANGED <<order, lag>>
    /\ UNCHANGED <<request, pc, kind, round, report, seen, graced, timer, ghost, traded, split,
                   credited, awaited>>

\* Mutant: an order that has filled is not sent a cancel.
SettledByFill == (asked \/ seen.filled > 0) /\ ~GraceDue

Settled == asked /\ ~GraceDue

\* Mutant: a cancelled round does not count.
RequotesForEver == IF seen.cancelled THEN round ELSE round + 1

NextRound == round + 1

\* The round's fill counts once; the order is left behind.
Finish ==
    /\ pc = "settle" /\ Settled
    /\ total' = total + seen.filled
    /\ ghost' = IF order.open THEN ghost + order.size - order.filled ELSE ghost
    /\ order' = None /\ lag' = 0
    /\ seen' = Nothing /\ asked' = FALSE /\ graced' = FALSE /\ timer' = 0
    /\ \/ /\ kind = "chase"
          /\ pc' = "next" /\ round' = NextRound
          /\ failure' = IF seen.cancelled /\ seen.filled = 0 THEN "Cancelled" ELSE failure
       \/ /\ kind = "taker"
          /\ pc' = "done" /\ UNCHANGED round
          /\ failure' = IF total' > 0 THEN failure
                        ELSE IF seen.cancelled THEN RejectedLater ELSE "Timeout"
    /\ UNCHANGED <<request, kind, traded, split, credited, awaited, faults>>

(***************************************************************************)
(* Time passes while the loop sleeps and while it awaits the venue: the     *)
(* book, a placing, a poll, a cancel.  The deadline of a round is on the    *)
(* clock, so polls use it up; nothing else bounds an answer.  Lists keep    *)
(* within Lag and an IOC order is over at once.                             *)
(***************************************************************************)
Budget ==
    (IF params.postOnly THEN Rounds * (Timeout + params.chaseGrace) ELSE 0)
    + (IF params.fallback THEN Timeout + params.takerGrace ELSE 0)

Asleep == pc = "sleep" \/ (pc = "grace" /\ timer < Grace)

Awaiting ==
    \/ pc = "next" /\ (MayChase \/ MayTake)
    \/ pc = "poll"
    \/ pc = "settle" /\ ~asked /\ ~(GraceFirst /\ GraceDue)
    \/ pc = "grace" /\ timer >= Grace

TimerRuns ==
    timer' = IF Asleep THEN timer + 1
             ELSE IF pc = "poll" THEN Least(timer + 1, Timeout) ELSE timer

Tick ==
    /\ \/ Asleep /\ UNCHANGED awaited
       \/ Awaiting /\ awaited < MaxAwaited /\ awaited' = awaited + 1
    /\ pc # "next" => /\ kind = "taker" => ~order.open
                      /\ Behind(order) => lag < Lag
    /\ lag' = IF pc # "next" /\ Behind(order) THEN lag + 1 ELSE 0
    /\ TimerRuns
    /\ pc' = IF pc = "sleep" THEN "poll" ELSE pc
    /\ UNCHANGED <<request, kind, round, report, seen, asked, graced, order, ghost, traded, split,
                   credited, faults>>

Loop ==
    \/ Place \/ ChaseFails \/ TakerFails \/ PositionMissing \/ Return
    \/ Poll \/ PollFails \/ StartGrace \/ Finish
    \/ \E ok \in BOOLEAN : GracePoll(ok) \/ Cancel(ok)

LegNext == Loop \/ Tick \/ Venue

LegSpec == LegInit /\ [][LegNext]_legVars

(***************************************************************************)
(* Properties.                                                              *)
(***************************************************************************)
Order == [size : Nat, filled : Nat, open : BOOLEAN,
          shown : Nat, listed : BOOLEAN, ended : BOOLEAN]

\* Every variable has its type; no more is reported than was asked for.
LegTypeOK ==
    /\ params \in Profiles
    /\ req \in [target : Target, reduceOnly : BOOLEAN, held : Nat]
    /\ pc \in {"next", "poll", "sleep", "settle", "grace", "done"}
    /\ kind \in {"chase", "taker"} /\ round \in 0..Rounds
    /\ total \in 0..req.target
    /\ failure \in {None, "VenueRejected", "Cancelled", "TakerRejected", "Timeout"}
    /\ seen \in [filled : Nat, cancelled : BOOLEAN]
    /\ asked \in BOOLEAN /\ graced \in BOOLEAN /\ timer \in Nat
    /\ order \in Order \cup {None} /\ lag \in 0..Lag
    /\ ghost \in Nat /\ traded \in Nat /\ credited \in Nat /\ split \in BOOLEAN
    /\ awaited \in 0..MaxAwaited /\ faults \in 0..MaxFaults

\* What a leg reports was filled on the venue, apart from what a missing
\* position was taken for: partial fills are never counted twice, over polls
\* of one order or over rounds.
ReportIsReal == total - credited <= traded

\* When the call returns nothing of it is still working, unless a call to the
\* venue failed: every round cancels its order, "regardless of outcome"
\* (maker_loop.rs:281).
NothingKeepsWorking == pc = "done" /\ faults = 0 => ghost = 0

\* The grace polls catch late fills "so total_filled reflects reality and we
\* don't double-fill" (#322): with orders that fill whole or not at all, a
\* grace longer than the lag and no failed call, the report is exact.  (A fill
\* in parts may be missed, and the next round over-fills: only rounds that saw
\* nothing are polled again.)
GraceCovers == (params.postOnly => params.chaseGrace > Lag) /\ params.takerGrace > Lag

WholeFillsAreReported ==
    pc = "done" /\ GraceCovers /\ ~split /\ faults = 0 => traded = total - credited
=============================================================================

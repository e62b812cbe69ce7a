----------------------------- MODULE Settlement -----------------------------
(***************************************************************************)
(* What a closed trade of the back-test is booked at: the fill model of a   *)
(* book snapshot, the signed slippage of a side, and settle_trade of        *)
(* src/src/xvenue/bt.rs.  Prices and costs are in 1/10000 of a price unit,  *)
(* so that a basis point of a price is whole.  A book that could not be     *)
(* read is the empty option.  The Bernoulli draw of a resting order is a    *)
(* parameter; fees, the lag, the emergency surcharge and the penalty of a   *)
(* missed rest, which are flat amounts per trade, are left out.             *)
(***************************************************************************)
EXTENDS Integers

CONSTANTS
    Books,      \* snapshots [mid, bid, ask, bidSize, askSize]
    Sizes       \* quantities of a trade

ASSUME SettlementAssumption ==
    /\ Books \subseteq [mid : Int, bid : Int, ask : Int, bidSize : Nat, askSize : Nat]
    /\ Sizes \subseteq Nat \ {0}

Bps == 10000
WidestSpread == 50

Tradable(b) ==
    /\ b.bid > 0 /\ b.ask > 0 /\ b.bidSize > 0 /\ b.askSize > 0 /\ b.mid > 0
    /\ b.ask > b.bid /\ (b.ask - b.bid) * Bps <= WidestSpread * b.mid

Opposite(side) == IF side = "Buy" THEN "Sell" ELSE "Buy"

\* The price and the size a side takes.
Touch(b, side) ==
    IF side = "Buy" THEN [price |-> b.ask, size |-> b.askSize]
    ELSE [price |-> b.bid, size |-> b.bidSize]

\* ioc_fill_price: past the touch, a basis point for every whole multiple of
\* it beyond the first.
IocFill(b, side, q) ==
    LET touch == Touch(b, side)
        walk  == IF q <= touch.size THEN 0 ELSE (q \div touch.size) - 1
    IN  touch.price * (IF side = "Buy" THEN Bps + walk ELSE Bps - walk)

\* An order that rests joins the other side of the touch; it may be filled
\* there only if that queue is longer than the order.
RestingFill(b, side) == Touch(b, Opposite(side)).price * Bps

MayRest(b, side, q) == q < Touch(b, Opposite(side)).size

\* The price of one side, [resting or not] by the draw.
FillPrice(b, side, q, rests) ==
    IF rests /\ MayRest(b, side, q) THEN RestingFill(b, side) ELSE IocFill(b, side, q)

\* signed_side_cost: positive when worse than the mid.
SideCost(fill, mid, side, q) ==
    q * (IF side = "Buy" THEN fill - Bps * mid ELSE Bps * mid - fill)

\* compute_leg_slippage_cost: the flat amount if either book is unusable.
LegCost(entry, exit, side, q, rests, flat) ==
    IF \A b \in {entry, exit} : Tradable(b)
    THEN SideCost(FillPrice(entry, side, q, rests[1]), entry.mid, side, q)
            + SideCost(FillPrice(exit, Opposite(side), q, rests[2]), exit.mid, Opposite(side), q)
    ELSE flat

\* entry_sides and exit_sides: a Long spread buys Extended and sells Lighter.
EntrySide(d, v) == IF (d = "Long") = (v = "ext") THEN "Buy" ELSE "Sell"

\* Mutant: both legs gain when prices rise.
GrossOfSum(d, q, entry, exit) ==
    LET moved == (exit["ext"].mid - entry["ext"].mid) + (exit["lt"].mid - entry["lt"].mid)
    IN  Bps * (IF d = "Long" THEN q ELSE -q) * moved

\* settle_trade: the move of the spread, in the direction of the trade.
Gross(d, q, entry, exit) ==
    LET moved == (exit["ext"].mid - entry["ext"].mid) - (exit["lt"].mid - entry["lt"].mid)
    IN  Bps * (IF d = "Long" THEN q ELSE -q) * moved

\* Extended always takes; Lighter rests when it is post-only and filled.
Net(d, q, entry, exit, rests, flat) ==
    Gross(d, q, entry, exit)
        - LegCost(entry["ext"], exit["ext"], EntrySide(d, "ext"), q, <<FALSE, FALSE>>, flat)
        - LegCost(entry["lt"], exit["lt"], EntrySide(d, "lt"), q, rests, flat)

(***************************************************************************)
(* The reference: the cash a trade leaves behind.                           *)
(***************************************************************************)
Cash(side, fill, q) == IF side = "Sell" THEN q * fill ELSE -(q * fill)

LegCash(entry, exit, side, q, rests) ==
    Cash(side, FillPrice(entry, side, q, rests[1]), q)
        + Cash(Opposite(side), FillPrice(exit, Opposite(side), q, rests[2]), q)

\* With all four books usable, the booked result is the cash received less the
\* cash paid at the fill prices of the four orders, whichever of the Lighter
\* ones rested.
BookedAtCash(d, q) ==
    \A rests \in [1..2 -> BOOLEAN], e1, x1, e2, x2 \in Books :
        (\A b \in {e1, x1, e2, x2} : Tradable(b)) =>
            Net(d, q, [ext |-> e1, lt |-> e2], [ext |-> x1, lt |-> x2], rests, 0)
            = LegCash(e1, x1, EntrySide(d, "ext"), q, <<FALSE, FALSE>>)
                + LegCash(e2, x2, EntrySide(d, "lt"), q, rests)

CashTrades == {t \in {"Long", "Short"} \X Sizes : BookedAtCash(t[1], t[2])}
=============================================================================

------------------------ MODULE LegExecutorProofs ------------------------
(* What a leg reports and what it leaves working, for every profile, and when *)
(* an exit may drop it.                                                       *)
EXTENDS ParallelExit, TLAPS

Watching == {"poll", "sleep", "settle", "grace"}

\* The types, and where an order is watched.
LegShape ==
    /\ LegTypeOK
    /\ pc \in Watching => order \in Order
    /\ pc \notin Watching => order = None

\* The order asks for no more than is left, and the lists trail what it filled.
Measured ==
    pc \in Watching =>
        /\ seen.filled <= order.shown /\ order.shown <= order.filled
        /\ order.filled <= order.size /\ total + order.size <= req.target
        /\ kind = "chase" => round < Rounds

InFlight == IF pc \in Watching THEN order.filled ELSE 0

\* What is reported, and what the watched order will add, was traded.
Reported == total - credited + InFlight <= traded

\* Only a failed call leaves an order open.
CleanedUp ==
    /\ ghost > 0 => faults > 0
    /\ pc \in Watching /\ asked /\ faults = 0 => ~order.open

LegInv == LegShape /\ Measured /\ Reported /\ CleanedUp

\* The knobs of every profile are of the types the loop computes with.
LEMMA ProfileTypes ==
    ASSUME NEW p \in Profiles
    PROVE  /\ p.postOnly \in BOOLEAN /\ p.fallback \in BOOLEAN /\ p.graceFirst \in BOOLEAN
           /\ p.chaseGrace \in Nat /\ p.takerGrace \in Nat
           /\ p.chaseFloor \in Nat /\ p.takerFloor \in Nat
  <1>1. Most(MinQty, DustQty) \in Nat /\ Most(DustQty, MinQty) \in Nat
    BY LegAssumption DEF Most
  <1>2. CASE \E q, f \in BOOLEAN : p = Extended(q, f)
    <2>1. PICK q, f \in BOOLEAN : p = Extended(q, f)
      BY <1>2
    <2> QED BY <2>1, <1>1, LegAssumption DEF Extended
  <1>3. CASE \E f \in BOOLEAN : p = LighterMaker(f)
    <2>1. PICK f \in BOOLEAN : p = LighterMaker(f)
      BY <1>3
    <2> QED BY <2>1, <1>1, LegAssumption DEF LighterMaker
  <1>4. CASE p = LighterFill
    BY <1>4 DEF LighterFill
  <1> QED BY <1>2, <1>3, <1>4 DEF Profiles

\* The number of chase rounds and the budget of a call are naturals.
LEMMA BudgetIsNat ==
    ASSUME params \in Profiles
    PROVE  Rounds \in Nat /\ Budget \in Nat
  <1>1. Rounds \in Nat
    BY LegAssumption DEF Rounds, Most
  <1>2. Timeout + params.chaseGrace \in Nat /\ Timeout + params.takerGrace \in Nat
    BY ProfileTypes, LegAssumption
  <1>3. \A a, b \in Nat : a * b \in Nat
    OBVIOUS
  <1>4. Rounds * (Timeout + params.chaseGrace) \in Nat
    BY <1>1, <1>2, <1>3
  <1> QED BY <1>1, <1>2, <1>4 DEF Budget

\* The call starts with nothing reported and nothing working.
LEMMA LegInitInv == LegInit => LegInv
  <1> SUFFICES ASSUME LegInit PROVE LegInv
    OBVIOUS
  <1>1. Rounds \in Nat /\ Budget \in Nat
    BY BudgetIsNat DEF LegInit
  <1>2. PICK q \in Target, ro \in BOOLEAN :
          \E h \in 0..q : req = [target |-> q, reduceOnly |-> ro, held |-> IF ro THEN h ELSE 0]
    BY DEF LegInit
  <1>3. q \in Nat
    BY LegAssumption
  <1>4. req \in [target : Target, reduceOnly : BOOLEAN, held : Nat] /\ req.target \in Nat
    BY <1>2, <1>3
  <1>5. LegTypeOK
    <2>1. /\ 0 \in 0..Rounds /\ 0 \in 0..req.target /\ 0 \in 0..Lag
          /\ 0 \in 0..MaxAwaited /\ 0 \in 0..MaxFaults /\ 0 \in Nat
      BY <1>1, <1>4, LegAssumption
    <2>2. seen \in [filled : Nat, cancelled : BOOLEAN]
      BY DEF LegInit, Nothing
    <2> QED BY <2>1, <2>2, <1>4 DEF LegInit, LegTypeOK
  <1> QED
    BY <1>5 DEF LegInit, LegInv, LegShape, Measured, Reported, CleanedUp, InFlight, Watching

\* The facts every step's arithmetic rests on.
LEMMA Numbers ==
    ASSUME LegTypeOK
    PROVE  /\ Rounds \in Nat /\ Budget \in Nat /\ req.target \in Nat \ {0} /\ req.held \in Nat
           /\ round \in Nat /\ total \in Nat /\ total <= req.target /\ Remaining \in Nat
           /\ params.chaseFloor \in Nat /\ params.takerFloor \in Nat /\ Grace \in Nat
           /\ timer \in Nat /\ ghost \in Nat /\ traded \in Nat /\ credited \in Nat
           /\ seen.filled \in Nat /\ seen.cancelled \in BOOLEAN
           /\ awaited \in Nat /\ faults \in Nat /\ lag \in Nat
  <1>1. Rounds \in Nat /\ Budget \in Nat
    BY BudgetIsNat DEF LegTypeOK
  <1>2. req.target \in Nat \ {0} /\ req.held \in Nat
    BY LegAssumption DEF LegTypeOK
  <1>3. total \in Nat /\ total <= req.target /\ Remaining \in Nat
    BY <1>2 DEF LegTypeOK, Remaining
  <1>4. params.chaseFloor \in Nat /\ params.takerFloor \in Nat /\ Grace \in Nat
    BY ProfileTypes DEF LegTypeOK, Grace
  <1>5. seen.filled \in Nat /\ seen.cancelled \in BOOLEAN
    BY DEF LegTypeOK
  <1> QED BY <1>1, <1>2, <1>3, <1>4, <1>5, LegAssumption DEF LegTypeOK

\* A request and a profile stay what they are, and so do the bounds made of them.
LEMMA BoundsStay ==
    ASSUME UNCHANGED request
    PROVE  Rounds' = Rounds /\ Budget' = Budget /\ req' = req /\ params' = params
  BY DEF request, Rounds, Budget, Most

\* An order that is placed asks for what is left.
LEMMA PlaceInv == LegInv /\ Place => LegInv'
  <1> SUFFICES ASSUME LegInv, Place PROVE LegInv'
    OBVIOUS
  <1> USE DEF LegInv
  <1>0. LegTypeOK BY DEF LegShape
  <1>1. Remaining > 0 /\ (kind' = "chase" => round < Rounds)
    BY <1>0, Numbers DEF Place, MayChase, MayTake
  <1>2. order' = Placed(Remaining) /\ order' \in Order
    BY <1>0, Numbers DEF Place, Watches, Placed, Order
  <1>3. seen' = Nothing /\ asked' = FALSE /\ graced' = FALSE /\ timer' = 0 /\ lag' = 0
        /\ pc' = "poll" /\ kind' \in {"chase", "taker"}
    BY DEF Place, Watches
  <1>4. UNCHANGED <<request, round, report, ghost, traded, split, credited, awaited, faults>>
    BY DEF Place
  <1>5. LegShape'
    <2>1. seen' \in [filled : Nat, cancelled : BOOLEAN] /\ lag' \in 0..Lag
      BY <1>3, LegAssumption DEF Nothing
    <2> QED
      BY <2>1, <1>0, <1>2, <1>3, <1>4, BoundsStay DEF LegShape, LegTypeOK, Watching, report
  <1>6. Measured'
    BY <1>0, <1>1, <1>2, <1>3, <1>4, Numbers, BoundsStay
       DEF Measured, Placed, Nothing, Remaining, report
  <1>7. Reported'
    BY <1>0, <1>2, <1>3, <1>4, Numbers
       DEF Reported, InFlight, Placed, LegShape, Place, Watching, report
  <1>8. CleanedUp'
    BY <1>3, <1>4 DEF CleanedUp
  <1> QED BY <1>5, <1>6, <1>7, <1>8

\* A call that fails reports nothing and may leave an order behind.
LEMMA FailsInv == LegInv /\ (ChaseFails \/ TakerFails) => LegInv'
  <1> SUFFICES ASSUME LegInv, ChaseFails \/ TakerFails PROVE LegInv'
    OBVIOUS
  <1> USE DEF LegInv
  <1>0. LegTypeOK BY DEF LegShape
  <1>1. pc = "next" /\ pc' \in {"next", "done"} /\ kind' \in {"chase", "taker"}
    BY <1>0 DEF ChaseFails, TakerFails, LegTypeOK
  <1>2. faults' \in 0..MaxFaults /\ ghost' \in Nat /\ (faults' = 0 => ghost' = ghost /\ faults = 0)
    <2>1. CASE Fault
      BY <1>0, <2>1, Numbers, LegAssumption DEF ChaseFails, TakerFails, Fault
    <2>2. CASE ~Fault
      BY <1>0, <2>2, Numbers, LegAssumption DEF ChaseFails, TakerFails, LegTypeOK
    <2> QED BY <2>1, <2>2
  <1>3. UNCHANGED <<request, round, total, watch, order, lag, traded, split, credited, awaited>>
    BY DEF ChaseFails, TakerFails
  <1>4. failure' \in {None, "VenueRejected", "Cancelled", "TakerRejected", "Timeout"}
    BY <1>0 DEF ChaseFails, TakerFails, RejectedAtPlace, LegTypeOK
  <1>5. LegShape'
    BY <1>0, <1>1, <1>2, <1>3, <1>4, BoundsStay DEF LegShape, LegTypeOK, Watching, watch
  <1>6. Measured' /\ Reported' /\ CleanedUp'
    BY <1>0, <1>1, <1>2, <1>3, Numbers, BoundsStay
       DEF Measured, Reported, CleanedUp, InFlight, Watching
  <1> QED BY <1>5, <1>6

\* A missing position credits what is left without a fill.
LEMMA MissingInv == LegInv /\ PositionMissing => LegInv'
  <1> SUFFICES ASSUME LegInv, PositionMissing PROVE LegInv'
    OBVIOUS
  <1> USE DEF LegInv
  <1>0. LegTypeOK BY DEF LegShape
  <1>1. total' = req.target /\ credited' = credited + Remaining /\ pc = "next" /\ pc' = "done"
    BY <1>0, Numbers DEF PositionMissing, Remaining
  <1>2. faults' \in 0..MaxFaults /\ faults' >= faults
    BY <1>0, Numbers, LegAssumption DEF PositionMissing, Fault, LegTypeOK
  <1>3. UNCHANGED <<request, kind, round, failure, watch, market, awaited>>
    BY DEF PositionMissing
  <1>4. LegShape'
    BY <1>0, <1>1, <1>2, <1>3, Numbers, BoundsStay
       DEF LegShape, LegTypeOK, Watching, watch, market
  <1>5. Measured' /\ Reported' /\ CleanedUp'
    BY <1>0, <1>1, <1>2, <1>3, Numbers
       DEF Measured, Reported, CleanedUp, InFlight, Watching, market, Remaining
  <1> QED BY <1>4, <1>5

\* A poll reads what the lists show, never more than was filled.
LEMMA PollInv == LegInv /\ (Poll \/ PollFails) => LegInv'
  <1> SUFFICES ASSUME LegInv, Poll \/ PollFails PROVE LegInv'
    OBVIOUS
  <1> USE DEF LegInv
  <1>0. LegTypeOK BY DEF LegShape
  <1>1. pc = "poll" /\ pc' \in {"sleep", "settle"} /\ order \in Order
    BY DEF Poll, PollFails, LegShape, Watching
  <1>2. /\ seen' \in [filled : Nat, cancelled : BOOLEAN]
        /\ seen.filled <= order.shown => seen'.filled <= order.shown
    BY <1>0, <1>1, Numbers
       DEF Poll, PollFails, FilledThisRound, Most, Order, watch, LegTypeOK
  <1>3. faults' \in 0..MaxFaults /\ faults' >= faults
    BY <1>0, Numbers, LegAssumption DEF Poll, PollFails, Fault, LegTypeOK
  <1>4. UNCHANGED <<request, kind, round, report, asked, graced, timer, market, credited, awaited>>
    BY DEF Poll, PollFails, watch
  <1>5. LegShape'
    BY <1>0, <1>1, <1>2, <1>3, <1>4, BoundsStay
       DEF LegShape, LegTypeOK, Watching, report, market
  <1>6. Measured' /\ Reported' /\ CleanedUp'
    BY <1>0, <1>1, <1>2, <1>3, <1>4, Numbers, BoundsStay
       DEF Measured, Reported, CleanedUp, InFlight, Watching, report, market
  <1> QED BY <1>5, <1>6

\* Waiting for the grace poll and making it.
LEMMA GraceInv == LegInv /\ (StartGrace \/ \E ok \in BOOLEAN : GracePoll(ok)) => LegInv'
  <1> SUFFICES ASSUME LegInv, StartGrace \/ \E ok \in BOOLEAN : GracePoll(ok) PROVE LegInv'
    OBVIOUS
  <1> USE DEF LegInv
  <1>0. LegTypeOK BY DEF LegShape
  <1>1. pc \in {"settle", "grace"} /\ pc' \in {"settle", "grace"} /\ order \in Order
    BY DEF StartGrace, GracePoll, LegShape, Watching
  <1>2. /\ seen' \in [filled : Nat, cancelled : BOOLEAN]
        /\ seen.filled <= order.shown => seen'.filled <= order.shown
    BY <1>0, <1>1, Numbers DEF StartGrace, GracePoll, Order, LegTypeOK
  <1>3. /\ faults' \in 0..MaxFaults /\ faults' >= faults
        /\ timer' \in Nat /\ graced' \in BOOLEAN
    <2>1. faults' = faults \/ Fault
      BY DEF StartGrace, GracePoll
    <2>2. faults \in 0..MaxFaults /\ graced \in BOOLEAN
      BY <1>0 DEF LegTypeOK
    <2>3. faults' \in 0..MaxFaults /\ faults' >= faults
      BY <2>1, <2>2, LegAssumption DEF Fault
    <2>4. timer' \in Nat
      BY <1>0, Numbers DEF StartGrace, GracePoll
    <2>5. graced' \in BOOLEAN
      BY <2>2 DEF StartGrace, GracePoll
    <2> QED BY <2>3, <2>4, <2>5
  <1>4. UNCHANGED <<request, kind, round, report, asked, market, credited, awaited>>
    BY DEF StartGrace, GracePoll
  <1>5. LegShape'
    BY <1>0, <1>1, <1>2, <1>3, <1>4, BoundsStay
       DEF LegShape, LegTypeOK, Watching, report, market
  <1>6. Measured' /\ Reported' /\ CleanedUp'
    BY <1>0, <1>1, <1>2, <1>3, <1>4, Numbers, BoundsStay
       DEF Measured, Reported, CleanedUp, InFlight, Watching, report, market
  <1> QED BY <1>5, <1>6

\* A cancel ends the order unless it fails.
LEMMA CancelInv == LegInv /\ (\E ok \in BOOLEAN : Cancel(ok)) => LegInv'
  <1> SUFFICES ASSUME LegInv, NEW ok \in BOOLEAN, Cancel(ok) PROVE LegInv'
    OBVIOUS
  <1> USE DEF LegInv
  <1>0. LegTypeOK BY DEF LegShape
  <1>1. pc = "settle" /\ asked' = TRUE /\ order \in Order
    BY DEF Cancel, LegShape, Watching
  <1>2. /\ order' \in Order /\ order'.filled = order.filled /\ order'.size = order.size
        /\ order'.shown = order.shown /\ lag' \in 0..Lag
        /\ faults' \in 0..MaxFaults /\ faults' >= faults
    <2>1. CASE ok
      <3>1. order' = [order EXCEPT !.open = FALSE] /\ lag' \in {lag, 0} /\ faults' = faults
        BY <2>1 DEF Cancel
      <3>2. lag' \in 0..Lag /\ faults' \in 0..MaxFaults /\ faults' >= faults
        BY <3>1, <1>0, LegAssumption DEF LegTypeOK
      <3>3. /\ order' \in Order /\ order'.filled = order.filled
            /\ order'.size = order.size /\ order'.shown = order.shown
        BY <3>1, <1>1 DEF Order
      <3> QED BY <3>2, <3>3
    <2>2. CASE ~ok
      <3>1. order' = order /\ lag' = lag /\ Fault
        BY <2>2 DEF Cancel
      <3>2. lag \in 0..Lag /\ faults \in 0..MaxFaults
        BY <1>0 DEF LegTypeOK
      <3> QED BY <3>1, <3>2, <1>1, LegAssumption DEF Fault
    <2> QED BY <2>1, <2>2
  <1>3. faults' = 0 => ~order'.open
    BY <1>0, <1>1, Numbers DEF Cancel, Fault, Order
  <1>4. UNCHANGED <<request, pc, kind, round, report, seen, graced, timer, ghost, traded, split,
                    credited, awaited>>
    BY DEF Cancel
  <1>5. LegShape'
    BY <1>0, <1>1, <1>2, <1>4, BoundsStay DEF LegShape, LegTypeOK, Watching, report
  <1>6. Measured' /\ Reported' /\ CleanedUp'
    BY <1>0, <1>1, <1>2, <1>3, <1>4, Numbers, BoundsStay
       DEF Measured, Reported, CleanedUp, InFlight, Watching, report
  <1> QED BY <1>5, <1>6

\* A finished round reports what was seen of its order.
LEMMA FinishInv == LegInv /\ (Finish \/ Return) => LegInv'
  <1> SUFFICES ASSUME LegInv, Finish \/ Return PROVE LegInv'
    OBVIOUS
  <1> USE DEF LegInv
  <1>0. LegTypeOK BY DEF LegShape
  <1>1. CASE Return
    <2>1. pc = "next" /\ pc' = "done"
          /\ UNCHANGED <<request, kind, round, report, watch, market, credited, awaited, faults>>
      BY <1>1 DEF Return
    <2>2. LegShape'
      BY <1>0, <2>1, BoundsStay DEF LegShape, LegTypeOK, Watching, report, watch, market
    <2> QED
      BY <2>1, <2>2, BoundsStay
         DEF Measured, Reported, CleanedUp, InFlight, Watching, report, market
  <1>2. CASE Finish
    <2>1. pc = "settle" /\ pc' \in {"next", "done"} /\ order \in Order /\ asked
      BY <1>2 DEF Finish, Settled, LegShape, Watching
    <2>2. /\ order' = None /\ lag' = 0 /\ timer' = 0 /\ asked' = FALSE /\ graced' = FALSE
          /\ seen' \in [filled : Nat, cancelled : BOOLEAN]
          /\ UNCHANGED <<request, kind, traded, split, credited, awaited, faults>>
      BY <1>2 DEF Finish, Nothing
    <2>3. round' \in 0..Rounds
      BY <1>2, <1>0, <2>1, Numbers DEF Finish, NextRound, Measured, Watching, LegTypeOK
    <2>4. total' = total + seen.filled /\ total' \in 0..req.target
      BY <1>2, <1>0, <2>1, Numbers DEF Finish, Measured, Watching, Order
    <2>5. failure' \in {None, "VenueRejected", "Cancelled", "TakerRejected", "Timeout"}
      BY <1>2, <1>0 DEF Finish, RejectedLater, LegTypeOK
    <2>6. ghost' \in Nat /\ (ghost' > 0 => faults > 0)
      BY <1>2, <1>0, <2>1, Numbers DEF Finish, CleanedUp, Measured, Watching, Order
    <2>10. lag' \in 0..Lag /\ timer' \in Nat
      BY <2>2, LegAssumption
    <2>7. LegTypeOK'
      BY <1>0, <2>1, <2>2, <2>3, <2>4, <2>5, <2>6, <2>10, BoundsStay DEF LegTypeOK
    <2>11. LegShape'
      BY <2>1, <2>2, <2>7 DEF LegShape, Watching
    <2>8. Measured' /\ CleanedUp'
      BY <2>1, <2>2, <2>6 DEF Measured, CleanedUp, Watching
    <2>9. Reported'
      BY <1>0, <2>1, <2>2, <2>4, Numbers
         DEF Reported, InFlight, Measured, Watching, Order
    <2> QED BY <2>8, <2>9, <2>11
  <1> QED BY <1>1, <1>2

\* Time changes no order and no report.
LEMMA TickInv == LegInv /\ Tick => LegInv'
  <1> SUFFICES ASSUME LegInv, Tick PROVE LegInv'
    OBVIOUS
  <1> USE DEF LegInv
  <1>0. LegTypeOK BY DEF LegShape
  <1>1. /\ pc \in Watching => pc' \in Watching
        /\ pc \notin Watching => pc' = pc
        /\ pc' \in {"next", "poll", "sleep", "settle", "grace", "done"}
    BY <1>0 DEF Tick, Watching, LegTypeOK
  <1>2. timer' \in Nat /\ lag' \in 0..Lag
    <2>1. timer' \in Nat
      BY <1>0, Numbers, LegAssumption DEF Tick, TimerRuns, Least
    <2>2. lag' \in 0..Lag
      BY <1>0, LegAssumption DEF Tick, LegTypeOK
    <2> QED BY <2>1, <2>2
  <1>3. awaited' \in 0..MaxAwaited
    BY <1>0, LegAssumption DEF Tick, LegTypeOK
  <1>4. UNCHANGED <<request, kind, round, report, seen, asked, graced, order, ghost, traded, split,
                    credited, faults>>
    BY DEF Tick
  <1>5. LegShape'
    BY <1>0, <1>1, <1>2, <1>3, <1>4, BoundsStay DEF LegShape, LegTypeOK, report
  <1>6. Measured' /\ Reported' /\ CleanedUp'
    BY <1>0, <1>1, <1>4, BoundsStay
       DEF Measured, Reported, CleanedUp, InFlight, report
  <1> QED BY <1>5, <1>6

\* The venue fills, ends or shows an order, or fills one that was left behind.
LEMMA VenueInv == LegInv /\ Venue => LegInv'
  <1> SUFFICES ASSUME LegInv, Venue PROVE LegInv'
    OBVIOUS
  <1> USE DEF LegInv
  <1>0. LegTypeOK BY DEF LegShape
  <1>1. CASE GhostFill
    <2>1. /\ ghost > 0 /\ ghost' = ghost - 1 /\ traded' = traded + 1
          /\ UNCHANGED <<request, pc, kind, round, report, watch, order, lag, split, credited,
                         awaited, faults>>
      BY <1>1 DEF GhostFill
    <2>2. LegShape'
      BY <1>0, <2>1, Numbers, BoundsStay DEF LegShape, LegTypeOK, Watching, report, watch
    <2>3. InFlight \in Int /\ InFlight' = InFlight
      BY <1>0, <2>1, Numbers DEF InFlight, LegShape, Order
    <2> QED
      BY <1>0, <2>1, <2>2, <2>3, Numbers, BoundsStay
         DEF Measured, Reported, CleanedUp, Watching, report, watch
  <1>2. CASE ~GhostFill
    <2>1. pc \in Watching /\ order \in Order
      BY <1>2 DEF Venue, Fill, Expire, Show, LegShape
    <2>2. /\ UNCHANGED <<request, pc, kind, round, report, watch, ghost, credited, awaited, faults>>
          /\ lag' \in {lag, 0}
      BY <1>2 DEF Venue, Fill, Expire, Show, Moves
    <2>3. /\ order' \in Order /\ order'.size = order.size
          /\ order.shown <= order.filled => order.shown <= order'.shown
          /\ order.shown <= order.filled => order'.shown <= order'.filled
          /\ order.filled <= order.size => order'.filled <= order'.size
          /\ order'.open => order.open
          /\ traded' - traded = order'.filled - order.filled /\ traded' \in Nat
          /\ split' \in BOOLEAN
      <3>0. split \in BOOLEAN /\ traded \in Nat
        BY <1>0 DEF LegTypeOK
      <3>1. CASE \E n \in 1..req.target : Fill(n)
        <4>1. PICK n \in 1..req.target : Fill(n)
          BY <3>1
        <4>2. n \in Nat /\ order.open /\ n <= order.size - order.filled
              /\ order' = [order EXCEPT !.filled = @ + n, !.open = order.filled + n < order.size]
              /\ traded' = traded + n
              /\ split' = (split \/ order.filled + n < order.size)
          BY <4>1, <1>0, Numbers DEF Fill, Moves
        <4> DEFINE whole == order.filled + n < order.size
        <4>3. order.filled + n \in Nat /\ whole \in BOOLEAN
          BY <4>2, <2>1 DEF Order
        <4> HIDE DEF whole
        <4>4. PICK b \in BOOLEAN :
                order' = [order EXCEPT !.filled = order.filled + n, !.open = b]
          <5>1. order' = [order EXCEPT !.filled = order.filled + n, !.open = whole]
            BY <4>2 DEF whole
          <5> QED BY <5>1, <4>3
        <4>5. /\ order' \in Order /\ order'.filled = order.filled + n
              /\ order'.size = order.size /\ order'.shown = order.shown
          BY <4>3, <4>4, <2>1 DEF Order
        <4>6. split' \in BOOLEAN
          BY <4>2, <3>0
        <4>7. order.filled \in Nat /\ order.shown \in Nat /\ order.size \in Nat
          BY <2>1 DEF Order
        <4> QED BY <4>2, <4>5, <4>6, <4>7, <3>0
      <3>2. CASE Expire
        <4>1. order' = [order EXCEPT !.open = FALSE] /\ traded' = traded /\ split' = split
          BY <3>2 DEF Expire, Moves
        <4>2. /\ order' \in Order /\ order'.filled = order.filled /\ order'.size = order.size
              /\ order'.shown = order.shown /\ ~order'.open
          BY <4>1, <2>1 DEF Order
        <4>3. order.filled \in Nat /\ order.shown \in Nat
          BY <2>1 DEF Order
        <4> QED BY <4>1, <4>2, <4>3, <3>0
      <3>3. CASE Show
        <4>1. traded' = traded /\ split' = split
          BY <3>3 DEF Show
        <4>2. Cancelled(order) \in BOOLEAN
          BY DEF Cancelled
        <4>3. \/ order' = [order EXCEPT !.shown = order.filled]
              \/ order' = [order EXCEPT !.listed = order.open]
              \/ order' = [order EXCEPT !.ended = Cancelled(order)]
          BY <3>3 DEF Show
        <4>4. CASE order' = [order EXCEPT !.shown = order.filled]
          BY <4>4, <4>1, <3>0, <2>1 DEF Order
        <4>5. CASE order' = [order EXCEPT !.listed = order.open]
          BY <4>5, <4>1, <3>0, <2>1 DEF Order
        <4>6. CASE order' = [order EXCEPT !.ended = Cancelled(order)]
          BY <4>6, <4>1, <4>2, <3>0, <2>1 DEF Order
        <4> QED BY <4>3, <4>4, <4>5, <4>6
      <3> QED BY <1>2, <3>1, <3>2, <3>3 DEF Venue
    <2>4. LegShape'
      BY <1>0, <2>1, <2>2, <2>3, BoundsStay, LegAssumption
         DEF LegShape, LegTypeOK, report, watch
    <2>5. Measured' /\ CleanedUp'
      BY <1>0, <2>1, <2>2, <2>3, Numbers, BoundsStay
         DEF Measured, CleanedUp, report, watch, Order
    <2>6. Reported'
      BY <1>0, <2>1, <2>2, <2>3, Numbers DEF Reported, InFlight, report, Order
    <2> QED BY <2>4, <2>5, <2>6
  <1> QED BY <1>1, <1>2

LEMMA LegNextInv == LegInv /\ [LegNext]_legVars => LegInv'
  <1> SUFFICES ASSUME LegInv, [LegNext]_legVars PROVE LegInv'
    OBVIOUS
  <1>1. CASE UNCHANGED legVars
    BY <1>1 DEF LegInv, LegShape, LegTypeOK, Measured, Reported, CleanedUp, InFlight, Watching,
       legVars, request, report, watch, market, Rounds, Budget, Most
  <1>2. CASE Loop
    BY <1>2, PlaceInv, FailsInv, MissingInv, PollInv, GraceInv, CancelInv, FinishInv DEF Loop
  <1> QED BY <1>1, <1>2, TickInv, VenueInv DEF LegNext

\* What a leg reports was filled, whatever failed (maker_loop.rs:130, 168), and
\* without a failed call nothing of it works on (maker_loop.rs:283, 420, 423).
THEOREM LegReportsWhatFilled == LegSpec => [](LegTypeOK /\ ReportIsReal /\ NothingKeepsWorking)
  <1>1. LegInv => LegTypeOK /\ ReportIsReal /\ NothingKeepsWorking
    <2> SUFFICES ASSUME LegInv PROVE LegTypeOK /\ ReportIsReal /\ NothingKeepsWorking
      OBVIOUS
    <2>1. LegTypeOK
      BY DEF LegInv, LegShape
    <2>2. InFlight \in Nat
      BY DEF LegInv, LegShape, InFlight, Order
    <2>3. faults \in Nat
      BY <2>1, Numbers
    <2> QED
      BY <2>1, <2>2, <2>3, Numbers
         DEF LegInv, Reported, CleanedUp, ReportIsReal, NothingKeepsWorking
  <1> QED BY <1>1, LegInitInv, LegNextInv, PTL DEF LegSpec

(***************************************************************************)
(* Time.                                                                    *)
(***************************************************************************)
ChaseCost == Timeout + params.chaseGrace

ChaseTime == IF params.postOnly THEN Rounds * ChaseCost ELSE 0

\* What the rounds before this one may have slept, and what this one has.
Before == IF kind = "chase" THEN round * ChaseCost ELSE ChaseTime

Elapsed == IF pc \in {"poll", "sleep"} THEN timer
           ELSE IF pc = "grace" THEN Timeout + timer
           ELSE IF graced THEN Timeout + Grace ELSE Timeout

Used == IF pc \in Watching THEN Before + Elapsed
        ELSE IF pc = "next" THEN Before ELSE Budget

\* Every wait is within its deadline, and every round one of the profile's.
Paced ==
    /\ ~params.postOnly => round = 0
    /\ pc \in Watching => IF kind = "chase" THEN params.postOnly ELSE params.fallback
    /\ pc = "poll" => timer <= Timeout /\ ~graced
    /\ pc = "sleep" => timer < Timeout /\ ~graced
    /\ pc = "grace" => timer <= Grace /\ ~graced

\* Multiplication, which the solvers are told of and not asked to find.
LEMMA Products ==
    ASSUME NEW a \in Nat, NEW b \in Nat, NEW c \in Nat
    PROVE  /\ a * c \in Nat /\ (a + 1) * c = a * c + c /\ 0 * c = 0
           /\ a <= b => a * c <= b * c
  <1>1. a * c \in Nat /\ (a + 1) * c = a * c + c /\ 0 * c = 0
    OBVIOUS
  <1>2. ASSUME a <= b PROVE a * c <= b * c
    <2>1. b * c = a * c + (b - a) * c
      OBVIOUS
    <2>2. (b - a) * c \in Nat
      BY <1>2
    <2> QED BY <1>1, <2>1, <2>2
  <1> QED BY <1>1, <1>2

\* The costs are naturals, and a round fits in the budget.
LEMMA Costs ==
    ASSUME LegTypeOK, Paced
    PROVE  /\ ChaseCost \in Nat /\ ChaseTime \in Nat /\ Before \in Nat /\ Elapsed \in Nat
           /\ round * ChaseCost \in Nat /\ (round + 1) * ChaseCost = round * ChaseCost + ChaseCost
           /\ round * ChaseCost <= ChaseTime
           /\ params.postOnly /\ round < Rounds => round * ChaseCost + ChaseCost <= ChaseTime
           /\ Budget = ChaseTime + (IF params.fallback THEN Timeout + params.takerGrace ELSE 0)
           /\ params.chaseGrace \in Nat /\ params.takerGrace \in Nat /\ Timeout \in Nat \ {0}
           /\ params.postOnly \in BOOLEAN /\ params.fallback \in BOOLEAN
  <1>1. /\ params.chaseGrace \in Nat /\ params.takerGrace \in Nat /\ Timeout \in Nat \ {0}
        /\ params.postOnly \in BOOLEAN /\ params.fallback \in BOOLEAN
    BY ProfileTypes, LegAssumption DEF LegTypeOK
  <1>2. ChaseCost \in Nat
    BY <1>1 DEF ChaseCost
  <1>3. Rounds \in Nat /\ round \in Nat /\ round <= Rounds /\ timer \in Nat /\ Grace \in Nat
    BY Numbers DEF LegTypeOK
  <1>4. /\ round * ChaseCost \in Nat /\ Rounds * ChaseCost \in Nat
        /\ (round + 1) * ChaseCost = round * ChaseCost + ChaseCost
        /\ round * ChaseCost <= Rounds * ChaseCost /\ 0 * ChaseCost = 0
    BY <1>2, <1>3, Products
  <1>5. round < Rounds => (round + 1) * ChaseCost <= Rounds * ChaseCost
    <2>1. round < Rounds => round + 1 \in Nat /\ round + 1 <= Rounds
      BY <1>3
    <2> QED BY <2>1, <1>2, <1>3, Products
  <1>6. ChaseTime \in Nat /\ round * ChaseCost <= ChaseTime
    BY <1>1, <1>4 DEF ChaseTime, Paced
  <1>7. Before \in Nat /\ Elapsed \in Nat
    BY <1>1, <1>3, <1>4, <1>6 DEF Before, Elapsed
  <1>8. Budget = ChaseTime + (IF params.fallback THEN Timeout + params.takerGrace ELSE 0)
    BY DEF Budget, ChaseTime, ChaseCost
  <1> QED BY <1>1, <1>2, <1>4, <1>5, <1>6, <1>7, <1>8 DEF ChaseTime

\* Neither the profile nor what it costs changes.
LEMMA CostsStay ==
    ASSUME UNCHANGED request
    PROVE  /\ ChaseCost' = ChaseCost /\ ChaseTime' = ChaseTime /\ Budget' = Budget
           /\ params' = params
           /\ UNCHANGED kind => Grace' = Grace
           /\ UNCHANGED <<kind, round>> => Before' = Before
  BY BoundsStay DEF ChaseCost, ChaseTime, Grace, Before

\* Sums of what is not spelled out, which the solvers are told of as well.
LEMMA Sums ==
    /\ \A a, b, c \in Nat : b <= c => a + b <= a + c /\ b + a <= c + a
    /\ \A a, b, c \in Nat : b <= c => b + (a + 1) <= c + (a + 1) /\ b + (a + 1) = b + a + 1
    /\ \A a, b, c \in Nat : a <= b /\ b <= c => a <= c
  OBVIOUS

LEMMA PacedInit == LegInit => Paced
  BY DEF LegInit, Paced, Watching

\* A round starts only if the profile has it, and a wait ends at its deadline.
LEMMA PacedStep ==
    ASSUME LegInv, Paced, [LegNext]_legVars
    PROVE  Paced'
  <1>0. LegTypeOK /\ Measured
    BY DEF LegInv, LegShape
  <1>1. CASE UNCHANGED legVars \/ Venue
    <2>1. UNCHANGED <<request, pc, kind, round, graced, timer>>
      BY <1>1 DEF legVars, watch, Venue, Fill, Expire, Show, GhostFill, Moves
    <2> QED BY <2>1, CostsStay DEF Paced, Watching
  <1>2. CASE Place
    <2>1. /\ pc' = "poll" /\ timer' = 0 /\ graced' = FALSE /\ UNCHANGED <<request, round>>
          /\ \/ kind' = "chase" /\ params.postOnly
             \/ kind' = "taker" /\ params.fallback
      BY <1>2 DEF Place, Watches, MayChase, MayTake
    <2> QED BY <1>0, <2>1, Costs, CostsStay DEF Paced
  <1>3. CASE ChaseFails \/ TakerFails \/ PositionMissing \/ Return
    <2>1. pc' \in {"next", "done"} /\ UNCHANGED <<request, round>>
      BY <1>3 DEF ChaseFails, TakerFails, PositionMissing, Return
    <2> QED BY <2>1, CostsStay DEF Paced, Watching
  <1>4. CASE Poll \/ PollFails
    <2>1. /\ pc = "poll" /\ UNCHANGED <<request, kind, round, timer, graced>>
          /\ pc' \in {"settle", "sleep"} /\ (pc' = "sleep" => ~Deadline)
      <3>1. CASE Poll
        BY <3>1 DEF Poll
      <3>2. CASE PollFails
        BY <3>2 DEF PollFails, watch
      <3> QED BY <1>4, <3>1, <3>2
    <2>2. pc' = "sleep" => timer < Timeout
      BY <1>0, <2>1, Costs, Numbers DEF Deadline
    <2> QED BY <2>1, <2>2, CostsStay DEF Paced, Watching
  <1>5. CASE StartGrace
    <2>1. /\ pc = "settle" /\ pc' = "grace" /\ timer' = 0 /\ ~graced
          /\ UNCHANGED <<request, kind, round, graced>>
      BY <1>5 DEF StartGrace, GraceDue
    <2> QED BY <1>0, <2>1, CostsStay, Numbers DEF Paced, Watching
  <1>6. CASE \E ok \in BOOLEAN : GracePoll(ok) \/ Cancel(ok)
    <2>1. /\ pc \in {"grace", "settle"} /\ pc' = "settle" /\ UNCHANGED <<request, kind, round>>
      BY <1>6 DEF GracePoll, Cancel
    <2> QED BY <2>1, CostsStay DEF Paced, Watching
  <1>7. CASE Finish
    <2>1. /\ pc = "settle" /\ pc' \in {"next", "done"} /\ UNCHANGED <<request, kind>>
          /\ kind # "chase" => round' = round
      BY <1>7 DEF Finish
    <2> QED BY <2>1, CostsStay DEF Paced, Watching
  <1>8. CASE Tick
    <2>1. /\ UNCHANGED <<request, kind, round, graced>>
          /\ pc' = (IF pc = "sleep" THEN "poll" ELSE pc) /\ TimerRuns
      BY <1>8 DEF Tick
    <2>2. /\ pc = "sleep" => timer' = timer + 1
          /\ pc = "poll" => timer' <= Timeout
          /\ pc = "grace" => timer' <= Grace
      BY <1>0, <2>1, Costs, Numbers DEF TimerRuns, Asleep, Least, Paced
    <2> QED BY <1>0, <2>1, <2>2, CostsStay, Costs, Numbers DEF Paced, Watching
  <1> QED BY <1>1, <1>2, <1>3, <1>4, <1>5, <1>6, <1>7, <1>8 DEF LegNext, Loop

\* What may have been slept is a natural, within the budget.
LEMMA UsedFits ==
    ASSUME LegTypeOK, Measured, Paced
    PROVE  Used \in Nat /\ Budget \in Nat /\ Used <= Budget
  <1>1. Budget \in Nat /\ Used \in Nat
    BY Costs, Numbers DEF Used
  <1>2. CASE pc \in Watching
    <2>1. Elapsed <= Timeout + Grace
      BY <1>2, Costs, Numbers DEF Elapsed, Paced, Watching
    <2>2. Before + Timeout + Grace <= Budget
      BY <1>2, Costs, Numbers DEF Paced, Measured, Before, Grace, ChaseCost, LegTypeOK
    <2> QED BY <1>1, <1>2, <2>1, <2>2, Costs, Numbers DEF Used
  <1>3. CASE pc \notin Watching
    BY <1>1, <1>3, Costs DEF Used, Before
  <1> QED BY <1>1, <1>2, <1>3

\* Nothing the loop does gives time back.
LEMMA LoopUses ==
    ASSUME LegInv, Paced, Loop
    PROVE  Used <= Used' /\ awaited' = awaited
  <1>0. LegTypeOK /\ Measured /\ Used \in Nat /\ Budget \in Nat /\ Used <= Budget
    BY UsedFits DEF LegInv, LegShape
  <1>1. awaited' = awaited
    BY DEF Loop, Place, ChaseFails, TakerFails, PositionMissing, Return, Poll, PollFails,
       StartGrace, GracePoll, Cancel, Finish
  <1>2. UNCHANGED request
    BY DEF Loop, Place, ChaseFails, TakerFails, PositionMissing, Return, Poll, PollFails,
       StartGrace, GracePoll, Cancel, Finish
  <1>3. /\ Budget' = Budget /\ ChaseTime' = ChaseTime /\ ChaseCost' = ChaseCost
        /\ (kind' = kind => Grace' = Grace)
        /\ (kind' = kind /\ round' = round => Before' = Before)
    BY <1>2, CostsStay
  <1>4. Before <= ChaseTime /\ Before \in Nat /\ ChaseTime \in Nat
    BY <1>0, Costs DEF Before
  <1>5. CASE pc' = "done"
    BY <1>0, <1>1, <1>3, <1>5 DEF Used, Watching
  <1>6. CASE Place
    <2>1. /\ pc = "next" /\ pc' = "poll" /\ timer' = 0 /\ round' = round
          /\ (kind' = kind \/ kind' = "taker")
      BY <1>6 DEF Place, Watches, MayChase
    <2>2. Before <= Before'
      BY <1>3, <1>4, <2>1 DEF Before
    <2>3. Used = Before /\ Used' = Before' + 0
      BY <2>1 DEF Used, Elapsed, Watching
    <2>4. Before' \in Nat
      BY <1>3, <1>4, <2>1 DEF Before
    <2> QED BY <1>1, <2>2, <2>3, <2>4
  <1>7. CASE ChaseFails
    <2>1. pc = "next" /\ pc' = "next" /\ kind' = "taker"
      BY <1>7 DEF ChaseFails
    <2>2. Used = Before /\ Used' = ChaseTime
      BY <2>1, <1>3 DEF Used, Before, Watching
    <2> QED BY <1>1, <1>4, <2>2
  <1>8. CASE Poll \/ PollFails
    <2>1. /\ pc = "poll" /\ UNCHANGED <<kind, round, timer, graced>>
          /\ pc' \in {"settle", "sleep"}
      <3>1. CASE Poll
        BY <3>1 DEF Poll
      <3>2. CASE PollFails
        BY <3>2 DEF PollFails, watch
      <3> QED BY <1>8, <3>1, <3>2
    <2>2. Elapsed <= Elapsed' /\ Elapsed \in Nat /\ Elapsed' \in Nat
      BY <1>0, <1>3, <2>1, Costs, Numbers DEF Elapsed, Paced
    <2>3. Used = Before + Elapsed /\ Used' = Before + Elapsed'
      BY <1>3, <2>1 DEF Used, Watching
    <2> QED BY <1>1, <1>4, <2>2, <2>3, Sums
  <1>9. CASE StartGrace \/ \E ok \in BOOLEAN : GracePoll(ok) \/ Cancel(ok)
    <2>1. /\ UNCHANGED <<kind, round>> /\ pc \in Watching /\ pc' \in Watching
      BY <1>9 DEF StartGrace, GracePoll, Cancel, Watching
    <2>2. Elapsed <= Elapsed' /\ Elapsed \in Nat /\ Elapsed' \in Nat
      <3>1. CASE StartGrace
        <4>1. pc = "settle" /\ pc' = "grace" /\ timer' = 0 /\ ~graced
          BY <3>1 DEF StartGrace, GraceDue
        <4> QED BY <1>0, <4>1, Costs DEF Elapsed
      <3>2. CASE \E ok \in BOOLEAN : GracePoll(ok)
        <4>1. pc = "grace" /\ pc' = "settle" /\ timer = Grace /\ graced'
          BY <3>2 DEF GracePoll
        <4> QED BY <1>0, <1>3, <2>1, <4>1, Costs, Numbers DEF Elapsed
      <3>3. CASE \E ok \in BOOLEAN : Cancel(ok)
        <4>1. pc = "settle" /\ UNCHANGED <<pc, timer, graced>>
          BY <3>3 DEF Cancel
        <4> QED BY <1>0, <1>3, <2>1, <4>1, Costs, Numbers DEF Elapsed
      <3> QED BY <1>9, <3>1, <3>2, <3>3
    <2>3. Used = Before + Elapsed /\ Used' = Before + Elapsed'
      BY <1>3, <2>1 DEF Used
    <2> QED BY <1>1, <1>4, <2>2, <2>3, Sums
  <1>10. CASE Finish /\ pc' # "done"
    <2>1. pc = "settle" /\ pc' = "next" /\ kind = "chase" /\ kind' = kind /\ round' = round + 1
      BY <1>10 DEF Finish, NextRound
    <2>2. Elapsed <= ChaseCost /\ Elapsed \in Nat
      BY <1>0, <2>1, Costs DEF Elapsed, Grace, ChaseCost
    <2>3. Before' = Before + ChaseCost /\ ChaseCost \in Nat
      BY <1>0, <1>3, <2>1, Costs, Numbers DEF Before
    <2>4. Used = Before + Elapsed /\ Used' = Before'
      BY <2>1 DEF Used, Watching
    <2> QED BY <1>1, <1>4, <2>2, <2>3, <2>4
  <1>11. pc' # "done" => ~TakerFails /\ ~PositionMissing /\ ~Return
    BY DEF TakerFails, PositionMissing, Return
  <1> QED BY <1>1, <1>5, <1>6, <1>7, <1>8, <1>9, <1>10, <1>11 DEF Loop

\* One unit of time is slept, or is one the venue took.
LEMMA TickUses ==
    ASSUME LegInv, Paced, Tick
    PROVE  Used + awaited + 1 <= Used' + awaited'
  <1>0. LegTypeOK /\ Used \in Nat /\ awaited \in Nat
    BY UsedFits, Numbers DEF LegInv, LegShape
  <1>1. /\ UNCHANGED <<request, kind, round, graced>> /\ TimerRuns
        /\ pc' = IF pc = "sleep" THEN "poll" ELSE pc
    BY DEF Tick
  <1>2. Before' = Before /\ Grace' = Grace /\ Budget' = Budget
    BY <1>1, CostsStay
  <1>3. CASE Asleep
    <2>1. awaited' = awaited /\ timer' = timer + 1
      BY <1>0, <1>1, <1>3, Numbers DEF Tick, Asleep, Awaiting, TimerRuns
    <2>2. pc \in Watching /\ pc' \in Watching /\ Elapsed' = Elapsed + 1
      BY <1>0, <1>1, <1>3, <2>1, Costs, Numbers DEF Asleep, Elapsed, Watching
    <2> QED BY <1>0, <1>2, <2>1, <2>2, Costs DEF Used
  <1>4. CASE ~Asleep
    <2>1. awaited' = awaited + 1 /\ pc' = pc
      BY <1>1, <1>4 DEF Tick, Asleep
    <2>2. Elapsed <= Elapsed' /\ Elapsed \in Nat /\ Elapsed' \in Nat
      <3>1. pc = "poll" => timer' = Least(timer + 1, Timeout) /\ timer <= Timeout
        BY <1>0, <1>1, <1>4 DEF TimerRuns, Paced
      <3>2. pc # "poll" => timer' = timer
        BY <1>1, <1>4 DEF TimerRuns
      <3>3. timer <= timer' /\ timer \in Nat /\ timer' \in Nat
        BY <1>0, <3>1, <3>2, Costs, Numbers DEF Least
      <3> QED BY <1>0, <1>1, <1>2, <2>1, <3>2, <3>3, Costs, Numbers DEF Elapsed
    <2>3. CASE pc \in Watching
      <3>1. Used = Before + Elapsed /\ Used' = Before + Elapsed' /\ Before \in Nat
        BY <1>0, <1>2, <2>1, <2>3, Costs DEF Used
      <3>2. PICK a, b, c \in Nat : a = Before /\ b = Elapsed /\ c = Elapsed'
        BY <2>2, <3>1
      <3>3. b <= c /\ Used = a + b /\ Used' = a + c
        BY <2>2, <3>1, <3>2
      <3> HIDE <3>1, <3>2
      <3> QED BY <1>0, <2>1, <3>3
    <2>4. CASE pc \notin Watching
      <3>1. Used' = Used
        BY <1>2, <2>1, <2>4 DEF Used
      <3> QED BY <1>0, <2>1, <3>1
    <2> QED BY <2>3, <2>4
  <1> QED BY <1>3, <1>4

(***************************************************************************)
(* Whole fills.                                                             *)
(***************************************************************************)
Promised == GraceCovers /\ ~split /\ faults = 0

\* The watched order fills whole or not at all, and once it had its grace poll
\* the loop knows which.
Known ==
    /\ order.filled > 0 => order.filled = order.size /\ ~order.open
    /\ order.shown \in {0, order.filled}
    /\ order.ended => Cancelled(order)
    /\ seen.filled \in {0, order.filled}
    /\ seen.cancelled => order.filled = 0 /\ ~order.open
    /\ graced => ~order.open /\ (seen.filled = 0 => order.filled = 0)

\* During the grace the order is over and a fill that does not show is overdue.
Overdue ==
    pc = "grace" =>
        /\ kind = "taker" \/ asked
        /\ timer > 0 => ~order.open
        /\ order.shown # order.filled => lag >= timer

Exact ==
    Promised =>
        /\ traded = total - credited + InFlight
        /\ pc \in Watching => Known
        /\ Overdue

ExactInv == LegInv /\ Paced /\ Exact

\* Of a watched order in the terms the arithmetic needs.
LEMMA OrderFields ==
    ASSUME LegInv, pc \in Watching
    PROVE  /\ order \in Order /\ order.filled \in Nat /\ order.shown \in Nat /\ order.size \in Nat
           /\ order.open \in BOOLEAN /\ order.ended \in BOOLEAN /\ order.filled <= order.size
  BY DEF LegInv, LegShape, Measured, Order

\* What was promised was promised before.
LEMMA PromisedBefore ==
    ASSUME LegInv, LegNext, Promised'
    PROVE  /\ Promised /\ faults' = 0 /\ ~split' /\ ghost = 0
           /\ params' = params /\ req' = req
  <1>0. LegTypeOK BY DEF LegInv, LegShape
  <1>1. params' = params /\ req' = req
    BY DEF LegNext, Loop, Venue, Place, ChaseFails, TakerFails, PositionMissing, Return, Poll,
       PollFails, StartGrace, GracePoll, Cancel, Finish, Tick, Fill, Expire, Show, GhostFill,
       Moves, request
  <1>2. faults = 0 \/ faults' # 0
    <2>1. faults' = faults \/ faults' = faults + 1
      BY DEF LegNext, Loop, Venue, Place, ChaseFails, TakerFails, PositionMissing, Return, Poll,
         PollFails, StartGrace, GracePoll, Cancel, Finish, Tick, Fill, Expire, Show, GhostFill,
         Moves, Fault
    <2> QED BY <2>1, <1>0, Numbers
  <1>3. split => split'
    BY DEF LegNext, Loop, Venue, Place, ChaseFails, TakerFails, PositionMissing, Return, Poll,
       PollFails, StartGrace, GracePoll, Cancel, Finish, Tick, Fill, Expire, Show, GhostFill,
       Moves, market, watch
  <1>4. GraceCovers
    BY <1>1 DEF Promised, GraceCovers
  <1>5. ghost = 0
    BY <1>0, <1>2, Numbers DEF Promised, LegInv, CleanedUp
  <1> QED BY <1>1, <1>2, <1>3, <1>4, <1>5 DEF Promised

LEMMA ExactOutside ==
    ASSUME ExactInv, LegNext, Promised',
           Place \/ ChaseFails \/ TakerFails \/ PositionMissing \/ Return \/ GhostFill
    PROVE  Exact'
  <1>0. LegInv /\ LegTypeOK /\ Promised /\ faults' = 0 /\ ghost = 0 /\ faults = 0
    BY PromisedBefore DEF ExactInv, LegInv, LegShape, Promised
  <1>1. ~TakerFails /\ ~GhostFill
    BY <1>0 DEF TakerFails, GhostFill, Fault
  <1>2. pc = "next" /\ traded = total - credited
    <2>1. pc = "next"
      BY <1>1 DEF Place, ChaseFails, PositionMissing, Return
    <2> QED BY <2>1, <1>0, Numbers DEF ExactInv, Exact, InFlight, Watching
  <1>3. CASE Place
    <2>1. /\ order' = Placed(Remaining) /\ pc' = "poll" /\ seen' = Nothing /\ graced' = FALSE
          /\ UNCHANGED <<total, credited, traded>>
      BY <1>3 DEF Place, Watches, report
    <2> QED
      BY <2>1, <1>0, <1>2, Numbers
         DEF Exact, Known, Overdue, Nothing, Placed, InFlight, Watching
  <1>4. CASE PositionMissing
    <2>1. /\ total' = total + Remaining /\ credited' = credited + Remaining /\ pc' = "done"
          /\ traded' = traded
      BY <1>4 DEF PositionMissing, market
    <2> QED BY <2>1, <1>0, <1>2, Numbers DEF Exact, Overdue, InFlight, Watching
  <1>5. CASE Return
    <2>1. pc' = "done" /\ UNCHANGED <<total, credited, traded>>
      BY <1>5 DEF Return, report, market
    <2> QED BY <2>1, <1>0, <1>2, Numbers DEF Exact, Overdue, InFlight, Watching
  <1>6. CASE ChaseFails
    <2>1. pc' = pc /\ UNCHANGED <<total, credited, traded>>
      BY <1>6 DEF ChaseFails
    <2> QED BY <2>1, <1>0, <1>2, Numbers DEF Exact, Overdue, InFlight, Watching
  <1> QED BY <1>1, <1>3, <1>4, <1>5, <1>6

LEMMA ExactPoll ==
    ASSUME ExactInv, LegNext, Promised', Poll \/ PollFails \/ StartGrace
    PROVE  Exact'
  <1>0. LegInv /\ LegTypeOK /\ Promised /\ faults' = 0 /\ faults = 0
    BY PromisedBefore DEF ExactInv, LegInv, LegShape, Promised
  <1>1. /\ pc \in Watching /\ pc' \in Watching /\ ~PollFails
        /\ UNCHANGED <<kind, total, credited, traded, order, lag, asked, graced>>
    BY <1>0 DEF Poll, PollFails, StartGrace, Fault, Watching, report, market
  <1>2. Known /\ traded = total - credited + InFlight
    BY <1>0, <1>1 DEF ExactInv, Exact
  <1>3. InFlight' = InFlight
    BY <1>1 DEF InFlight
  <1>4. CASE Poll
    <2>1. /\ pc' # "grace"
          /\ seen' = [filled |-> FilledThisRound, cancelled |-> order.ended]
      BY <1>4 DEF Poll
    <2>2. seen'.filled \in {0, order.filled} /\ (seen'.filled = 0 => seen.filled = 0)
      BY <2>1, <1>0, <1>1, <1>2, OrderFields, Numbers DEF Known, FilledThisRound, Most
    <2>3. seen'.cancelled => order.filled = 0 /\ ~order.open
      BY <2>1, <1>0, <1>1, <1>2, OrderFields DEF Known, Cancelled
    <2>4. Known'
      BY <2>2, <2>3, <1>1, <1>2 DEF Known, Cancelled
    <2> QED BY <2>1, <2>4, <1>1, <1>2, <1>3 DEF Exact, Overdue
  <1>5. CASE StartGrace
    <2>1. seen' = seen /\ pc' = "grace" /\ timer' = 0 /\ (kind = "taker" \/ asked)
      BY <1>5 DEF StartGrace, GraceFirst
    <2>2. Known'
      BY <2>1, <1>1, <1>2 DEF Known, Cancelled
    <2> QED BY <2>1, <2>2, <1>0, <1>1, <1>2, <1>3, Numbers DEF Exact, Overdue
  <1> QED BY <1>1, <1>4, <1>5

\* The grace outlasts the lag, so the grace poll sees what there is.
LEMMA ExactGrace ==
    ASSUME ExactInv, LegNext, Promised', \E ok \in BOOLEAN : GracePoll(ok)
    PROVE  Exact'
  <1>0. LegInv /\ LegTypeOK /\ Paced /\ Promised /\ faults' = 0 /\ faults = 0
    BY PromisedBefore DEF ExactInv, LegInv, LegShape, Promised
  <1>1. GracePoll(TRUE)
    <2>1. ~GracePoll(FALSE)
      BY <1>0 DEF GracePoll, Fault
    <2> QED BY <2>1
  <1>2. /\ pc = "grace" /\ pc' = "settle" /\ timer = Grace /\ graced' = TRUE
        /\ UNCHANGED <<kind, total, credited, traded, order, lag, asked>>
    BY <1>1 DEF GracePoll, report, market
  <1>3. Known /\ Overdue /\ traded = total - credited + InFlight
    BY <1>0, <1>2 DEF ExactInv, Exact, Watching
  <1>4. InFlight' = InFlight
    BY <1>2 DEF InFlight, Watching
  <1>5. Grace > Lag /\ Grace \in Nat /\ Lag \in Nat /\ lag <= Lag /\ lag \in Nat
    <2>1. kind \in {"chase", "taker"} /\ lag \in 0..Lag
      BY <1>0 DEF LegTypeOK
    <2>2. kind = "chase" => params.postOnly
      BY <1>0, <1>2 DEF Paced, Watching
    <2>3. Grace > Lag
      BY <2>1, <2>2, <1>0 DEF Grace, Promised, GraceCovers
    <2> QED BY <2>1, <2>3, <1>0, Numbers, LegAssumption
  <1>6. order.shown = order.filled /\ ~order.open
    BY <1>2, <1>3, <1>5 DEF Overdue
  <1>7. /\ order.filled \in Nat
        /\ seen' = IF order.shown > 0
                   THEN [filled |-> order.shown, cancelled |-> order.ended] ELSE seen
    BY <1>0, <1>1, <1>2, OrderFields DEF GracePoll, Watching
  <1>8. Known'
    <2>1. CASE order.shown > 0
      <3>1. seen'.filled = order.filled /\ seen'.cancelled = order.ended
        BY <2>1, <1>6, <1>7
      <3> QED
        BY <3>1, <2>1, <1>0, <1>2, <1>3, <1>6, <1>7, OrderFields DEF Known, Cancelled, Watching
    <2>2. CASE ~(order.shown > 0)
      <3>1. seen' = seen /\ order.filled = 0
        BY <2>2, <1>6, <1>7
      <3> QED BY <3>1, <1>2, <1>3, <1>6 DEF Known, Cancelled
    <2> QED BY <2>1, <2>2
  <1> QED BY <1>2, <1>3, <1>4, <1>8 DEF Exact, Overdue

LEMMA ExactCancel ==
    ASSUME ExactInv, LegNext, Promised', \E ok \in BOOLEAN : Cancel(ok)
    PROVE  Exact'
  <1>0. LegInv /\ LegTypeOK /\ Promised /\ faults' = 0 /\ faults = 0
    BY PromisedBefore DEF ExactInv, LegInv, LegShape, Promised
  <1>1. Cancel(TRUE)
    <2>1. ~Cancel(FALSE)
      BY <1>0 DEF Cancel, Fault
    <2> QED BY <2>1
  <1>2. /\ pc = "settle" /\ pc' = pc /\ order' = [order EXCEPT !.open = FALSE]
        /\ UNCHANGED <<kind, total, credited, traded, seen, graced>>
    BY <1>1 DEF Cancel, report
  <1>3. Known /\ traded = total - credited + InFlight
    BY <1>0, <1>2 DEF ExactInv, Exact, Watching
  <1>4. /\ order'.filled = order.filled /\ order'.shown = order.shown /\ order'.size = order.size
        /\ order'.ended = order.ended /\ ~order'.open
    BY <1>0, <1>2, OrderFields DEF Order, Watching
  <1>5. InFlight' = InFlight
    BY <1>2, <1>4 DEF InFlight
  <1>6. Known'
    BY <1>2, <1>3, <1>4 DEF Known, Cancelled
  <1> QED BY <1>2, <1>3, <1>5, <1>6 DEF Exact, Overdue

\* A round ends when what is seen of its order is all there is.
LEMMA ExactFinish ==
    ASSUME ExactInv, LegNext, Promised', Finish
    PROVE  Exact'
  <1>0. LegInv /\ LegTypeOK /\ Paced /\ Promised
    BY PromisedBefore DEF ExactInv, LegInv, LegShape
  <1>1. /\ pc = "settle" /\ pc' \in {"next", "done"} /\ Settled
        /\ total' = total + seen.filled /\ UNCHANGED <<credited, traded>>
    BY DEF Finish
  <1>2. Known /\ traded = total - credited + order.filled
    BY <1>0, <1>1 DEF ExactInv, Exact, InFlight, Watching
  <1>3. Grace > 0
    <2>1. kind \in {"chase", "taker"}
      BY <1>0 DEF LegTypeOK
    <2>2. kind = "chase" => params.postOnly
      BY <1>0, <1>1 DEF Paced, Watching
    <2>3. Grace > Lag /\ Grace \in Nat
      BY <2>1, <2>2, <1>0, Numbers DEF Grace, Promised, GraceCovers
    <2> QED BY <2>3, LegAssumption
  <1>4. seen.filled = order.filled
    BY <1>1, <1>2, <1>3 DEF Settled, GraceDue, Known
  <1> QED
    BY <1>0, <1>1, <1>2, <1>4, Numbers, OrderFields DEF Exact, Overdue, InFlight, Watching

LEMMA ExactTick ==
    ASSUME ExactInv, LegNext, Promised', Tick
    PROVE  Exact'
  <1>0. LegInv /\ LegTypeOK /\ Promised /\ faults = 0
    BY PromisedBefore DEF ExactInv, LegInv, LegShape, Promised
  <1>1. /\ pc' = (IF pc = "sleep" THEN "poll" ELSE pc) /\ TimerRuns
        /\ pc # "next" => lag' = (IF Behind(order) THEN lag + 1 ELSE 0)
        /\ UNCHANGED <<kind, total, credited, traded, seen, asked, graced, order>>
    BY DEF Tick, report
  <1>2. traded = total - credited + InFlight /\ Overdue /\ (pc \in Watching => Known)
    BY <1>0 DEF ExactInv, Exact
  <1>3. /\ (pc' \in Watching) = (pc \in Watching) /\ InFlight' = InFlight
        /\ pc \in Watching => Known'
    BY <1>1, <1>2 DEF InFlight, Watching, Known, Cancelled
  <1>4. CASE pc = "grace"
    <2>1. order \in Order
      BY <1>0, <1>4 DEF LegInv, LegShape, Watching
    <2>2. ~order.open
      BY <1>0, <1>2, <1>4, <2>1 DEF Tick, Overdue, LegInv, CleanedUp, Watching
    <2>3. timer' <= timer + 1 /\ timer' \in Nat
      BY <1>0, <1>1, <1>4, Numbers DEF TimerRuns
    <2>4. Overdue'
      BY <1>0, <1>1, <1>2, <1>4, <2>1, <2>2, <2>3, Numbers DEF Overdue, Behind
    <2> QED BY <1>1, <1>2, <1>3, <2>4 DEF Exact
  <1>5. CASE pc # "grace"
    <2>1. Overdue'
      BY <1>1, <1>5 DEF Overdue
    <2> QED BY <1>1, <1>2, <1>3, <2>1 DEF Exact
  <1> QED BY <1>4, <1>5

\* A whole fill, the end of an order, or an update of a list.
LEMMA ExactVenue ==
    ASSUME ExactInv, LegNext, Promised',
           (\E n \in 1..req.target : Fill(n)) \/ Expire \/ Show
    PROVE  Exact'
  <1>0. LegInv /\ LegTypeOK /\ Promised /\ ~split'
    BY PromisedBefore DEF ExactInv, LegInv, LegShape
  <1>1. /\ pc \in Watching
        /\ UNCHANGED <<pc, kind, total, credited, seen, asked, graced, timer>>
    BY <1>0 DEF Fill, Expire, Show, Moves, report, watch, LegInv, LegShape
  <1>2. Known /\ traded = total - credited + order.filled /\ Overdue
    BY <1>0, <1>1 DEF ExactInv, Exact, InFlight
  <1>3. timer \in Nat /\ lag \in Nat /\ traded \in Nat /\ total \in Nat /\ credited \in Nat
        /\ seen.filled \in Nat
    BY <1>0, Numbers
  <1>4. CASE \E n \in 1..req.target : Fill(n)
    <2>1. PICK n \in 1..req.target : Fill(n)
      BY <1>4
    <2>2. /\ n \in Nat \ {0} /\ order.open /\ n <= order.size - order.filled
          /\ order' = [order EXCEPT !.filled = @ + n, !.open = order.filled + n < order.size]
          /\ traded' = traded + n /\ lag' \in {lag, 0}
          /\ ~(order.filled + n < order.size)
      <3>1. n \in Nat \ {0}
        BY <1>0, Numbers
      <3>2. split' = (split \/ order.filled + n < order.size)
        BY <2>1 DEF Fill
      <3> QED BY <2>1, <3>1, <3>2, <1>0 DEF Fill, Moves
    <2>3. order.filled = 0 /\ order.shown = 0 /\ seen.filled = 0 /\ n = order.size
          /\ ~order.ended /\ ~seen.cancelled /\ ~graced
      BY <2>2, <1>0, <1>1, <1>2, OrderFields DEF Known, Cancelled
    <2>4. /\ order'.filled = n /\ order'.shown = 0 /\ order'.size = n
          /\ ~order'.open /\ ~order'.ended
      BY <2>2, <2>3, <1>0, <1>1, OrderFields DEF Order
    <2>5. Known'
      BY <2>3, <2>4, <1>1 DEF Known
    <2>6. pc = "grace" => timer = 0
      BY <2>2, <1>2, <1>3 DEF Overdue
    <2>7. Overdue'
      BY <2>2, <2>4, <2>6, <1>1, <1>2, <1>3 DEF Overdue
    <2> QED BY <2>2, <2>3, <2>4, <2>5, <2>7, <1>1, <1>2, <1>3 DEF Exact, InFlight
  <1>5. CASE Expire
    <2>1. /\ order' = [order EXCEPT !.open = FALSE] /\ traded' = traded
          /\ lag' = IF Behind(order) THEN lag ELSE 0
      BY <1>5 DEF Expire, Moves
    <2>2. /\ order'.filled = order.filled /\ order'.shown = order.shown
          /\ order'.size = order.size /\ order'.ended = order.ended /\ ~order'.open
      BY <2>1, <1>0, <1>1, OrderFields DEF Order
    <2>3. Known'
      BY <2>2, <1>1, <1>2 DEF Known, Cancelled
    <2>4. Overdue'
      BY <2>1, <2>2, <1>1, <1>2 DEF Overdue, Behind
    <2> QED BY <2>1, <2>2, <2>3, <2>4, <1>1, <1>2 DEF Exact, InFlight
  <1>6. CASE Show
    <2>1. /\ traded' = traded /\ lag' = IF Behind(order') THEN lag ELSE 0
          /\ \/ order' = [order EXCEPT !.shown = order.filled]
             \/ order' = [order EXCEPT !.listed = order.open]
             \/ order' = [order EXCEPT !.ended = Cancelled(order)]
      BY <1>6 DEF Show
    <2>2. /\ order'.filled = order.filled /\ order'.size = order.size /\ order'.open = order.open
          /\ order'.shown \in {order.shown, order.filled}
          /\ order'.ended => order.ended \/ Cancelled(order)
      BY <2>1, <1>0, <1>1, OrderFields DEF Order
    <2>3. Known'
      BY <2>2, <1>1, <1>2 DEF Known, Cancelled
    <2>4. Overdue'
      BY <2>1, <2>2, <1>1, <1>2 DEF Overdue, Behind
    <2> QED BY <2>1, <2>2, <2>3, <2>4, <1>1, <1>2 DEF Exact, InFlight
  <1> QED BY <1>4, <1>5, <1>6

LEMMA ExactStep == ExactInv /\ [LegNext]_legVars => ExactInv'
  <1> SUFFICES ASSUME ExactInv, [LegNext]_legVars PROVE ExactInv'
    OBVIOUS
  <1>1. LegInv' /\ Paced'
    BY LegNextInv, PacedStep DEF ExactInv
  <1>2. CASE UNCHANGED legVars
    <2>1. Exact'
      BY <1>2 DEF ExactInv, Exact, Promised, GraceCovers, Known, Overdue, InFlight, Cancelled,
         legVars, request, report, watch, market
    <2> QED BY <1>1, <2>1 DEF ExactInv
  <1>3. CASE LegNext /\ Promised'
    BY <1>1, <1>3, ExactOutside, ExactPoll, ExactGrace, ExactCancel, ExactFinish, ExactTick,
       ExactVenue DEF LegNext, Loop, Venue, ExactInv
  <1>4. CASE ~Promised'
    BY <1>1, <1>4 DEF ExactInv, Exact
  <1> QED BY <1>2, <1>3, <1>4

\* With orders that fill whole or not at all, no failed call and a grace longer
\* than the lists' lag, a leg reports exactly what it traded: the grace poll of
\* maker_loop.rs:285-332 and 437-488 leaves no late fill out.
THEOREM GraceFindsWholeFills == LegSpec => []WholeFillsAreReported
  <1>1. LegInit => ExactInv
    <2>1. ASSUME LegInit PROVE Exact
      BY <2>1 DEF LegInit, Exact, InFlight, Watching, Overdue
    <2> QED BY <2>1, LegInitInv, PacedInit DEF ExactInv
  <1>2. ExactInv => WholeFillsAreReported
    <2> SUFFICES ASSUME ExactInv, pc = "done", Promised PROVE traded = total - credited
      BY DEF WholeFillsAreReported, Promised
    <2>1. LegTypeOK
      BY DEF ExactInv, LegInv, LegShape
    <2> QED BY <2>1, Numbers DEF ExactInv, Exact, InFlight, Watching
  <1> QED BY <1>1, <1>2, ExactStep, PTL DEF LegSpec

\* The filled total of a leg never passes its target and never counts more
\* rounds than there are (maker_loop.rs:121-151).
THEOREM LegTypeCorrect == LegSpec => []LegTypeOK
  <1>1. LegTypeOK /\ ReportIsReal /\ NothingKeepsWorking
       => LegTypeOK
    OBVIOUS
  <1> QED BY <1>1, LegReportsWhatFilled, PTL

\* No order of a leg outlives the call, unless a call to the venue failed
\* (maker_loop.rs:283, 420, 423).
THEOREM LegLeavesNothing == LegSpec => []NothingKeepsWorking
  <1>1. LegTypeOK /\ ReportIsReal /\ NothingKeepsWorking
       => NothingKeepsWorking
    OBVIOUS
  <1> QED BY <1>1, LegReportsWhatFilled, PTL

(***************************************************************************)
(* The parallel exit.                                                       *)
(***************************************************************************)
LEMMA ExitStepIsLeg == [ExitNext]_exitVars => [LegNext]_legVars
  BY DEF ExitNext, exitVars, LegRuns, OtherEnds, LegDropped, OtherDropped, LegWaits, VenueActs,
     LegNext

\* A leg of an exit is a leg: what is proved of LegSpec holds in a parallel exit
\* whatever the other leg and the deadline do (parallel_exit.rs:180-279).
THEOREM ExitRunsLeg == ExitSpec => LegSpec
  <1>1. ExitInit => LegInit
    BY DEF ExitInit
  <1> QED BY <1>1, ExitStepIsLeg, PTL DEF ExitSpec, LegSpec

\* The deadline has run for no longer than what was slept and awaited.
Since ==
    /\ other \in {"none", "running", "done"}
    /\ since = None \/ (since \in 0..Mismatch /\ since <= Used + awaited)
    /\ outcome \in {"pending", "Both", "LegMismatchTimeout"}

ExitInv == LegInv /\ Paced /\ Since /\ CoveredLegReturns

\* The leg keeps its invariants and the size of its budget.
LEMMA ExitKeepsLeg ==
    ASSUME ExitInv, [ExitNext]_exitVars
    PROVE  /\ (LegInv /\ Paced)' /\ Budget' = Budget /\ Budget \in Nat
           /\ Used \in Nat /\ Used' \in Nat /\ Used <= Budget
           /\ awaited \in Nat /\ awaited' \in Nat
  <1>1. [LegNext]_legVars
    BY ExitStepIsLeg
  <1>2. (LegInv /\ Paced)'
    BY <1>1, LegNextInv, PacedStep DEF ExitInv
  <1>3. UNCHANGED request
    BY <1>1 DEF LegNext, Loop, Venue, Place, ChaseFails, TakerFails, PositionMissing, Return,
       Poll, PollFails, StartGrace, GracePoll, Cancel, Finish, Tick, Fill, Expire, Show,
       GhostFill, Moves, legVars
  <1>4. Used \in Nat /\ Budget \in Nat /\ Used <= Budget /\ awaited \in Nat
    BY UsedFits, Numbers DEF ExitInv, LegInv, LegShape
  <1>5. (LegTypeOK /\ Measured /\ Paced)'
    BY <1>2 DEF LegInv, LegShape
  <1>6. (LegTypeOK /\ Measured /\ Paced => Used \in Nat)'
    BY UsedFits, PTL
  <1>7. awaited' \in Nat
    BY <1>5 DEF LegTypeOK
  <1> QED BY <1>2, <1>3, <1>4, <1>5, <1>6, <1>7, BoundsStay

\* A step that is not one of the loop or the clock takes no time.
LEMMA NoTimeUsed ==
    ASSUME Venue \/ UNCHANGED legVars
    PROVE  UNCHANGED <<pc, Used, awaited, Budget>>
  <1>1. UNCHANGED <<request, pc, kind, round, graced, timer, awaited>>
    BY DEF Venue, Fill, Expire, Show, GhostFill, Moves, legVars, watch
  <1> QED BY <1>1, CostsStay DEF Used, Elapsed

LEMMA ExitStep == ExitInv /\ [ExitNext]_exitVars => ExitInv'
  <1> SUFFICES ASSUME ExitInv, [ExitNext]_exitVars PROVE ExitInv'
    OBVIOUS
  <1>1. /\ (LegInv /\ Paced)' /\ Budget' = Budget /\ Budget \in Nat
        /\ Used \in Nat /\ Used' \in Nat /\ Used <= Budget
        /\ awaited \in Nat /\ awaited' \in Nat
    BY ExitKeepsLeg
  <1>2. Since /\ CoveredLegReturns /\ Mismatch \in Nat /\ None \notin Nat
    BY ExitAssumption DEF ExitInv
  <1>9. PICK u, v, b \in Nat : u = Used /\ v = Used' /\ b = Budget
    BY <1>1
  <1>3. CASE LegRuns
    <2>1. outcome' \in {"pending", "Both"} /\ UNCHANGED <<other, since>> /\ Loop
      BY <1>3 DEF LegRuns
    <2>2. u <= v /\ awaited' = awaited
      BY <2>1, <1>9, LoopUses DEF ExitInv
    <2> QED BY <2>1, <2>2, <1>1, <1>2, <1>9 DEF ExitInv, Since, CoveredLegReturns
  <1>4. CASE OtherEnds
    <2>1. /\ other' = "done" /\ since' \in {since, 0} /\ outcome' \in {outcome, "Both"}
          /\ outcome = "pending" /\ UNCHANGED <<Used, awaited>>
      BY <1>4, NoTimeUsed DEF OtherEnds
    <2> QED BY <2>1, <1>1, <1>2 DEF ExitInv, Since, CoveredLegReturns
  <1>5. CASE LegDropped
    <2>1. /\ since = Mismatch /\ outcome' = "LegMismatchTimeout"
          /\ UNCHANGED <<Used, awaited, other, since>>
      BY <1>5, NoTimeUsed DEF LegDropped, DeadlinePassed
    <2>2. Mismatch <= Budget + awaited
      BY <2>1, <1>1, <1>2 DEF Since
    <2> QED BY <2>1, <2>2, <1>1, <1>2 DEF ExitInv, Since, CoveredLegReturns
  <1>6. CASE OtherDropped
    <2>1. /\ pc = "done" /\ outcome' = "LegMismatchTimeout"
          /\ UNCHANGED <<pc, Used, awaited, other, since>>
      BY <1>6, NoTimeUsed DEF OtherDropped
    <2> QED BY <2>1, <1>1, <1>2 DEF ExitInv, Since, CoveredLegReturns
  <1>7. CASE LegWaits
    <2>1. /\ outcome = "pending" /\ UNCHANGED <<other, outcome>> /\ since # Mismatch
          /\ since' = IF since = None THEN None ELSE since + 1
          /\ Tick
      BY <1>7 DEF LegWaits
    <2>2. u + awaited + 1 <= v + awaited'
      BY <2>1, <1>9, TickUses DEF ExitInv
    <2>3. since = None \/ (since \in 0..Mismatch /\ since <= u + awaited)
      BY <1>2, <1>9 DEF Since
    <2>4. since' = None \/ (since' \in 0..Mismatch /\ since' <= v + awaited')
      <3>1. CASE since = None
        BY <2>1, <3>1
      <3>2. CASE since # None
        <4>1. since \in 0..Mismatch /\ since # Mismatch /\ since <= u + awaited
              /\ since' = since + 1
          BY <2>1, <2>3, <3>2
        <4>2. awaited \in Nat /\ awaited' \in Nat /\ Mismatch \in Nat
          BY <1>1, <1>2
        <4>3. since' \in 0..Mismatch
          BY <4>1, <4>2
        <4>4. since' <= v + awaited'
          <5>1. PICK n, w, x \in Nat : n = since /\ w = awaited /\ x = awaited'
            BY <4>1, <4>2
          <5>2. n <= u + w /\ u + w + 1 <= v + x /\ since' = n + 1
            BY <2>2, <4>1, <5>1
          <5>3. n + 1 <= v + x
            BY <5>2
          <5> QED BY <5>1, <5>2, <5>3
        <4> QED BY <4>3, <4>4
      <3> QED BY <3>1, <3>2
    <2>5. Since'
      BY <2>1, <2>4, <1>2, <1>9 DEF Since
    <2> QED BY <2>1, <2>5, <1>1 DEF ExitInv, CoveredLegReturns
  <1>8. CASE VenueActs \/ UNCHANGED exitVars
    <2>1. UNCHANGED <<other, since, outcome, pc, Used, awaited>>
      BY <1>8, NoTimeUsed DEF VenueActs, exitVars
    <2> QED BY <2>1, <1>1, <1>2 DEF ExitInv, Since, CoveredLegReturns
  <1> QED BY <1>3, <1>4, <1>5, <1>6, <1>7, <1>8 DEF ExitNext

LEMMA ExitInitInv == ExitInit => ExitInv
  <1> SUFFICES ASSUME ExitInit PROVE ExitInv
    OBVIOUS
  <1>1. other \in {"none", "running"} /\ since = None /\ outcome = "pending"
    BY DEF ExitInit
  <1>2. LegInv /\ Paced
    BY LegInitInv, PacedInit DEF ExitInit
  <1> QED BY <1>1, <1>2 DEF ExitInv, Since, CoveredLegReturns

\* For every profile, quantity, lag and deadline, an exit drops a leg in
\* mid-round only if the leg's rounds and graces, with the time the venue took
\* to answer it, reach leg_mismatch_timeout_ms (parallel_exit.rs:246-270).
THEOREM CoveredLegsReturn == ExitSpec => []CoveredLegReturns
  <1>1. ExitInv => CoveredLegReturns
    BY DEF ExitInv
  <1> QED BY <1>1, ExitInitInv, ExitStep, PTL DEF ExitSpec

\* The leg and the coordinator keep their types; the deadline never runs past
\* leg_mismatch_timeout_ms (parallel_exit.rs:240-270).
THEOREM ExitTypeCorrect == ExitSpec => []ExitTypeOK
  <1>1. ExitInv => ExitTypeOK
    BY DEF ExitInv, Since, ExitTypeOK, LegInv, LegShape
  <1> QED BY <1>1, ExitInitInv, ExitStep, PTL DEF ExitSpec
=============================================================================

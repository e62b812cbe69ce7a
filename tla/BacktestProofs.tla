--------------------------- MODULE BacktestProofs ---------------------------
(* Theorems about the back-test, for every configuration, every market and    *)
(* dumps of every length: no decision is ever rejected, every position is     *)
(* opened and closed as the strategy promises, none is held through a         *)
(* settlement, and what a closed trade is booked at is the cash it left.      *)
EXTENDS Backtest, SignalProofs, PositionMachineProofs, FiniteSetTheorems,
        WellFoundedInduction

\* Held with q open on either leg.
FullyHeld(m, q) ==
    /\ m \in Machine
    /\ m.phase = "Held" /\ m.position \in Position /\ m.position.fullyFilled
    /\ \A l \in Leg : m.position.open[l] = q

OpenLeg == [dir : Dir, at : Nat, qty : Qty]

\* The machine and the leg agree: flat without one, held in full with one.
LegAgrees ==
    \/ open = {} /\ machine = Flat
    \/ \E p \in OpenLeg : /\ open = {p} /\ FullyHeld(machine, p.qty)
                          /\ p.at <= seen /\ engine.spread # {}
                          /\ p.at < seen => seen - p.at < MaxHold
                          /\ ~InFundingLockout(p.at)

\* Every record is later than the one before it, by Gap at most.
CursorsOK ==
    /\ cur \in [Venue -> [ts : Nat, mid : Nat]]
    /\ next \in [Venue -> SUBSET Nat]
    /\ \A v \in Venue : \A t \in next[v] : cur[v].ts < t /\ t <= cur[v].ts + Gap

RunsOK ==
    /\ runs \in [Dir -> SUBSET Nat]
    /\ \A d \in Dir : \A x, y \in runs[d] : x = y /\ x <= seen

\* The breach began no earlier than the run of breaches it is part of.
BreachInRun ==
    breach = {} \/ \E b \in Breach : /\ breach = {b} /\ b.at <= seen /\ engine.spread # {}
                                     /\ \E x \in runs[b.dir] : x <= b.at

\* While a position is open every record is looked at.
LooksOn == open # {} => AlignedTs <= seen + Gap

EngineShape(e) == DOMAIN e = {"ext", "lt", "last", "window", "sum", "spread"}

BtInv ==
    /\ EngineShape(engine) /\ CursorsOK /\ RunsOK /\ BreachInRun /\ LegAgrees /\ LooksOn
    /\ seen \in Nat /\ seen <= AlignedTs
    /\ run \in {"on", "done"}

LEMMA GapIsNat == Gap \in Nat /\ Gap > 0 /\ Mids \in [Venue -> SUBSET Nat]
BY BacktestAssumption

LEMMA AlignedIsNat ==
    ASSUME CursorsOK
    PROVE  AlignedTs \in Nat
BY DEF CursorsOK, AlignedTs, Venue

\* A full entry leaves the machine held, with q open on both legs.
LEMMA EntryHolds ==
    ASSUME NEW q \in Qty, machine = Flat
    PROVE  \E m : EntryFilled(q) = {m} /\ FullyHeld(m, q)
<1> DEFINE o == Opened(Fresh, "ext", q)
           b == Opened(o, "lt", q)
           n == [b EXCEPT !.fullyFilled = TRUE]
<1>1. Fresh \in Position /\ Fresh.open = [l \in Leg |-> 0] /\ q \in Nat
  BY MachineAssumption DEF Fresh, Position
<1>2. Then({machine}, EntrySignal) = {At("EnteringExtended", Fresh)}
  BY DEF Then, Apply, EntrySignal, Accepts, Flat, At
<1>3. ASSUME NEW m, m = At("EnteringExtended", Fresh)
      PROVE  Then({m}, ExtendedFilled(q)) = {At("EnteringLighter", o)}
  BY <1>3 DEF Then, Apply, ExtendedFilled, Accepts, At, OnExtendedFilled
<1>4. ASSUME NEW m, m = At("EnteringLighter", o)
      PROVE  Then({m}, LighterFilled(q)) = {At("Held", n)}
  BY <1>4 DEF Then, Apply, LighterFilled, Accepts, At, OnLighterFilled
<1>5. EntryFilled(q) = {At("Held", n)}
  BY <1>2, <1>3, <1>4 DEF EntryFilled
<1>6. OpenedPost(Fresh, "ext", q)
  BY <1>1, OpenedGrows DEF Leg
<1>7. o \in Position /\ o.open["ext"] = q /\ o.open["lt"] = 0
  BY <1>1, <1>6 DEF OpenedPost, Leg
<1>. HIDE DEF o
<1>8. OpenedPost(o, "lt", q)
  BY <1>1, <1>7, OpenedGrows DEF Leg
<1>9. b \in Position /\ b.open["ext"] = q /\ b.open["lt"] = q
  BY <1>1, <1>7, <1>8 DEF OpenedPost, Leg
<1>. HIDE DEF b
<1>10. n \in Position /\ n.open = b.open /\ n.fullyFilled
  BY <1>9 DEF Position
<1>. HIDE DEF n
<1>11. FullyHeld(At("Held", n), q)
  BY <1>9, <1>10 DEF FullyHeld, At, Leg, Machine, Phase
<1>q. QED BY <1>5, <1>11

\* A full exit of what was entered leaves the machine flat.
LEMMA ExitFlattens ==
    ASSUME NEW q \in Qty, NEW r \in ExitReason, FullyHeld(machine, q)
    PROVE  ExitFilledBoth(r, q) = {Flat}
<1> DEFINE p == [machine.position EXCEPT !.exitReason = r]
           x == Drained(p, "ext", q)
           y == Drained(x, "lt", q)
<1>1. q \in Nat /\ q > 0
  BY MachineAssumption
<1>2. Then({machine}, ExitSignal(r)) = {At("Exiting", p)}
  BY DEF Then, Apply, ExitSignal, Accepts, At, FullyHeld
<1>3. p \in Position /\ p.open["ext"] = q /\ p.open["lt"] = q
  BY DEF FullyHeld, Position, Leg
<1>. HIDE DEF p
<1>4. x \in Position /\ x.open["ext"] = 0 /\ x.open["lt"] = q
  BY <1>1, <1>3 DEF Drained, Position, Leg
<1>5. OnExitFilled("Exiting", p, "ext", q) = At("Exiting", x)
  BY <1>1, <1>4 DEF OnExitFilled, NoneOpen, Leg
<1>. HIDE DEF x
<1>6. y.open["ext"] = 0 /\ y.open["lt"] = 0
  BY <1>1, <1>4 DEF Drained, Position, Leg
<1>7. OnExitFilled("Exiting", x, "lt", q) = Flat
  BY <1>6 DEF OnExitFilled, NoneOpen, Leg
<1>8. ASSUME NEW m, m = At("Exiting", p)
      PROVE  Then({m}, ExitFilled("ext", q)) = {At("Exiting", x)}
  BY <1>5, <1>8 DEF Then, Apply, ExitFilled, Accepts, At
<1>9. ASSUME NEW m, m = At("Exiting", x)
      PROVE  Then({m}, ExitFilled("lt", q)) = {Flat}
  BY <1>7, <1>9 DEF Then, Apply, ExitFilled, Accepts, At
<1>q. QED BY <1>2, <1>8, <1>9 DEF ExitFilledBoth

\* A venue that advances moves the clock by Gap at most, and never back.
LEMMA ProceedFacts ==
    ASSUME CursorsOK, Proceed
    PROVE  /\ CursorsOK' /\ AlignedTs <= AlignedTs' /\ AlignedTs' <= AlignedTs + Gap
           /\ run' \in {"on", "done"}
<1>1. run' \in {"on", "done"}
  BY DEF Proceed
<1>2. CASE UNCHANGED replay
  BY <1>1, <1>2, GapIsNat, AlignedIsNat DEF replay, CursorsOK, AlignedTs
<1>3. CASE ~UNCHANGED replay
  <2> DEFINE v == Turn
  <2>1. v \in Venue
    BY DEF Turn, Venue
  <2> HIDE DEF v
  <2>0. PICK t \in next[v], mid \in Mids[v], n \in {left[v] - 1} :
            /\ cur' = [cur EXCEPT ![v] = [ts |-> t, mid |-> mid]]
            /\ next' \in {[next EXCEPT ![v] = a] : a \in After(t, n)}
    BY <1>3 DEF Proceed, Advance, v
  <2>2. PICK a \in After(t, n) : next' = [next EXCEPT ![v] = a]
    BY <2>0
  <2>3. t \in Nat /\ cur[v].ts < t /\ t <= cur[v].ts + Gap /\ mid \in Nat
    BY <2>1, GapIsNat DEF CursorsOK
  <2>4. a \in SUBSET Nat /\ \A u \in a : t < u /\ u <= t + Gap
    BY <2>3, GapIsNat DEF After
  <2>5. CursorsOK'
    BY <2>0, <2>1, <2>2, <2>3, <2>4 DEF CursorsOK
  <2>6. AlignedTs <= AlignedTs' /\ AlignedTs' <= AlignedTs + Gap
    <3>1. cur'[v].ts = t /\ \A u \in Venue \ {v} : cur'[u] = cur[u]
      BY <2>0, <2>1 DEF CursorsOK
    <3>2. cur["ext"].ts \in Nat /\ cur["lt"].ts \in Nat
      BY DEF CursorsOK, Venue
    <3>q. QED BY <2>1, <2>3, <3>1, <3>2, GapIsNat DEF AlignedTs, Venue
  <2>q. QED BY <1>1, <2>5, <2>6
<1>q. QED BY <1>2, <1>3

\* Feeding a record keeps the last spread, or replaces it.
LEMMA FedFacts ==
    ASSUME NEW e, EngineShape(e), NEW v \in Venue
    PROVE  EngineShape(Fed(e, v)) /\ (e.spread # {} => Fed(e, v).spread # {})
<1> DEFINE f == [e EXCEPT ![v] = {[bucket |-> BucketOf(cur[v].ts), mid |-> cur[v].mid]}]
           b == BucketOf(cur[v].ts)
<1>1. EngineShape(f) /\ f.spread = e.spread
  BY DEF EngineShape, Venue
<1>. HIDE DEF f
<1>2. ASSUME NEW s PROVE EngineShape(Push(f, s))
  BY <1>1 DEF EngineShape, Push
<1>3. EngineShape(MaybeCommit(f, b)) /\ (f.spread # {} => MaybeCommit(f, b).spread # {})
  <2>1. ASSUME NEW s
        PROVE  LET g == [Push(f, s) EXCEPT !.spread = {s}, !.last = {b}]
               IN  EngineShape(g) /\ g.spread # {}
    BY <1>2 DEF EngineShape
  <2>q. QED BY <1>1, <2>1 DEF MaybeCommit
<1>4. Fed(e, v) = IF cur[v].mid > 0 THEN MaybeCommit(f, b) ELSE e
  BY DEF Fed, Update, f
<1>q. QED BY <1>1, <1>3, <1>4

LEMMA FedEngineFacts ==
    ASSUME EngineShape(engine)
    PROVE  EngineShape(FedEngine) /\ (engine.spread # {} => FedEngine.spread # {})
BY FedFacts DEF FedEngine, Venue

LEMMA DevFollowsSpread == \A e : CurrentDev(e) = {} <=> e.spread = {}
BY DEF CurrentDev

\* A look keeps a run going, starts it, or ends it.
LEMMA LookFacts ==
    ASSUME BtInv, Ask(FedEngine, Verdict(FedEngine))
    PROVE  /\ seen' = AlignedTs /\ AlignedTs \in Nat /\ RunsOK'
           /\ \A d \in BreachedNow(FedEngine) :
                 /\ \E x \in runs'[d] : x <= AlignedTs
                 /\ runs[d] # {} => runs'[d] = runs[d]
<1>1. /\ seen' = AlignedTs
      /\ runs' = [d \in Dir |-> IF d \notin BreachedNow(FedEngine) THEN {} ELSE
                                IF runs[d] = {} THEN {AlignedTs} ELSE runs[d]]
  BY DEF Ask
<1>2. AlignedTs \in Nat /\ seen \in Nat /\ seen <= AlignedTs /\ RunsOK
  BY AlignedIsNat DEF BtInv
<1>3. RunsOK'
  <2>1. runs' \in [Dir -> SUBSET Nat]
    BY <1>1, <1>2 DEF RunsOK
  <2>2. ASSUME NEW d \in Dir, NEW x \in runs'[d], NEW y \in runs'[d] PROVE x = y /\ x <= seen'
    BY <1>1, <1>2, <2>2 DEF RunsOK
  <2>q. QED BY <2>1, <2>2 DEF RunsOK
<1>4. ASSUME NEW d \in BreachedNow(FedEngine)
      PROVE  (\E x \in runs'[d] : x <= AlignedTs) /\ (runs[d] # {} => runs'[d] = runs[d])
  <2>1. d \in Dir
    BY DEF BreachedNow
  <2>2. runs'[d] = IF runs[d] = {} THEN {AlignedTs} ELSE runs[d]
    BY <1>1, <2>1
  <2>3. \A x \in runs[d] : x \in Nat /\ x <= seen
    BY <1>2, <2>1 DEF RunsOK
  <2>q. QED BY <1>2, <2>2, <2>3
<1>q. QED BY <1>1, <1>2, <1>3, <1>4

EntryRuns(d) == IF CheckAtFire THEN runs'[d] ELSE runs[d] \cup runs'[d]

\* From flat, a look leaves the position alone or opens one on a breach that
\* has lasted, outside the lockout.
LEMMA AskFlat ==
    ASSUME BtInv, open = {}, engine' = FedEngine, Ask(FedEngine, Verdict(FedEngine))
    PROVE  /\ Proceed
           /\ \/ open' = {} /\ machine' = machine /\ BreachInRun'
              \/ /\ breach' = {} /\ engine'.spread # {} /\ ~InFundingLockout(AlignedTs)
                 /\ \E d \in Dir, q \in Qty :
                     /\ open' = {[dir |-> d, at |-> AlignedTs, qty |-> q]}
                     /\ FullyHeld(machine', q)
                     /\ \E t \in EntryRuns(d) : AlignedTs - t >= Persist
<1> DEFINE e    == FedEngine
           v    == Verdict(e)
           devs == CurrentDev(e)
           warm == IsWarm(e, MinWarm)
           t    == AlignedTs
<1>1. machine = Flat /\ Position0 = {}
  BY DEF BtInv, LegAgrees, Position0
<1>2. v = Decide(breach, t, devs, warm, {}) /\ warm \in BOOLEAN
  BY <1>1 DEF Verdict, IsWarm
<1>3. t \in Nat /\ seen' = t /\ seen \in Nat /\ seen <= t /\ BreachAt(breach, t)
  BY LookFacts DEF BtInv, BreachInRun, BreachAt, Breach
<1>4. devs # {} <=> engine'.spread # {}
  BY DevFollowsSpread
<1>5. breach # {} => devs # {}
  BY <1>4, FedEngineFacts DEF BtInv, BreachInRun
<1>6. breach' = v.breach
  BY DEF Ask
<1>7. CASE v.out = Hold
  <2>1. Outcomes(v.out) = {[ms |-> {machine}, leg |-> open]}
    BY <1>7 DEF Outcomes, Hold
  <2>2. machine' = machine /\ open' = open /\ Proceed
    BY <2>1 DEF Ask
  <2>3. BreachInRun'
    <3>1. CASE v.breach = {}
      BY <3>1, <1>6 DEF BreachInRun
    <3>2. CASE v.breach # {} /\ devs # {} /\ warm /\ ~InFundingLockout(t)
      <4>1. PICK dev \in devs : Waits(breach, t, dev, v)
        <5>1. \E dev \in devs : Waits(breach, t, dev, v) \/ Fires(breach, t, dev, v)
          BY <1>2, <1>3, <3>2, DecideFlatFacts
        <5>q. QED BY <5>1, <3>2 DEF Fires
      <4>2. PICK d \in Dir : /\ EntersOn(dev, d)
                             /\ \/ v.breach = {[dir |-> d, at |-> t]}
                                \/ v.breach = breach /\ \E b \in breach : b.dir = d
        BY <4>1, <3>2 DEF Waits
      <4>3. d \in BreachedNow(e)
        BY <1>1, <3>2, <4>2 DEF BreachedNow, EntersOn
      <4>4. (\E x \in runs'[d] : x <= t) /\ (runs[d] # {} => runs'[d] = runs[d])
        BY <4>3, LookFacts
      <4>5. CASE v.breach = {[dir |-> d, at |-> t]}
        <5> DEFINE n == [dir |-> d, at |-> t]
        <5>1. n \in Breach /\ n.at = t /\ n.dir = d
          BY <1>3 DEF Breach
        <5>2. breach' = {n} /\ n.at <= seen' /\ engine'.spread # {}
          BY <1>3, <1>4, <1>6, <3>2, <4>5, <5>1
        <5>3. \E x \in runs'[n.dir] : x <= n.at
          BY <4>4, <5>1
        <5>q. QED BY <5>1, <5>2, <5>3 DEF BreachInRun
      <4>6. CASE v.breach = breach /\ \E b \in breach : b.dir = d
        <5>1. PICK b \in Breach : /\ breach = {b} /\ b.at <= seen
                                  /\ \E x \in runs[b.dir] : x <= b.at
          BY <4>6 DEF BtInv, BreachInRun
        <5>2. b.dir = d /\ runs'[b.dir] = runs[b.dir]
          BY <4>4, <4>6, <5>1
        <5>3. breach' = {b} /\ b.at <= seen' /\ engine'.spread # {}
          BY <1>3, <1>4, <1>6, <3>2, <4>6, <5>1 DEF Breach
        <5>q. QED BY <5>1, <5>2, <5>3 DEF BreachInRun
      <4>q. QED BY <4>2, <4>5, <4>6
    <3>3. v.breach # {} => devs # {} /\ warm /\ ~InFundingLockout(t)
      BY <1>2, <1>3, <1>5, DecideFlatFacts
    <3>q. QED BY <3>1, <3>2, <3>3
  <2>q. QED BY <2>2, <2>3
<1>8. CASE v.out # Hold
  <2>1. PICK dev \in devs : warm /\ ~InFundingLockout(t) /\ Fires(breach, t, dev, v)
    BY <1>2, <1>3, <1>8, DecideFlatFacts DEF Waits
  <2>2. PICK d \in Dir, a \in Nat :
            /\ v.out = Enter(d) /\ t - a >= Persist
            /\ \/ EntersOn(dev, d) /\ (a = t \/ \E b \in breach : b.dir = d /\ b.at = a)
               \/ ~CheckAtFire /\ \E b \in breach : b.dir = d /\ b.at = a
    BY <2>1 DEF Fires
  <2>3. Outcomes(v.out) = {[ms |-> EntryFilled(q),
                            leg |-> {[dir |-> d, at |-> t, qty |-> q]}] : q \in Qty}
    BY <2>2 DEF Outcomes, Enter
  <2>4. \A q \in Qty : \E m : EntryFilled(q) = {m} /\ FullyHeld(m, q)
    BY <1>1, EntryHolds
  <2>5. PICK q \in Qty : /\ open' = {[dir |-> d, at |-> t, qty |-> q]}
                         /\ machine' \in EntryFilled(q) /\ Proceed
    BY <2>3, <2>4 DEF Ask
  <2>6. FullyHeld(machine', q)
    BY <2>4, <2>5
  <2>7. \E x \in EntryRuns(d) : t - x >= Persist
    <3>1. CASE EntersOn(dev, d)
      <4>1. d \in BreachedNow(e)
        BY <1>1, <2>1, <3>1 DEF BreachedNow, EntersOn
      <4>2. PICK x \in runs'[d] : x <= t /\ (runs[d] # {} => runs'[d] = runs[d])
        BY <4>1, LookFacts
      <4>3. RunsOK' /\ x \in Nat
        BY LookFacts, <4>2 DEF RunsOK
      <4>4. CASE a = t
        BY <1>3, <2>2, <4>2, <4>3, <4>4, ConstantsAreNat DEF EntryRuns
      <4>5. CASE \E b \in breach : b.dir = d /\ b.at = a
        <5>1. PICK y \in runs[d] : y <= a
          BY <4>5 DEF BtInv, BreachInRun
        <5>2. y \in runs'[d] /\ y \in Nat
          BY <4>2, <4>3, <5>1 DEF RunsOK
        <5>3. t - y >= Persist
          BY <1>3, <2>2, <5>1, <5>2, ConstantsAreNat
        <5>q. QED BY <5>2, <5>3 DEF EntryRuns
      <4>6. a = t \/ \E b \in breach : b.dir = d /\ b.at = a
        BY <2>2
      <4>q. QED BY <4>4, <4>5, <4>6
    <3>2. CASE ~CheckAtFire /\ \E b \in breach : b.dir = d /\ b.at = a
      <4>1. PICK y \in runs[d] : y <= a
        BY <3>2 DEF BtInv, BreachInRun
      <4>2. y \in Nat
        BY <4>1 DEF BtInv, RunsOK
      <4>3. t - y >= Persist
        BY <1>3, <2>2, <4>1, <4>2, ConstantsAreNat
      <4>q. QED BY <3>2, <4>1, <4>3 DEF EntryRuns
    <3>q. QED BY <2>2, <3>1, <3>2
  <2>8. breach' = {} /\ engine'.spread # {}
    BY <1>4, <1>6, <2>1 DEF Fires
  <2>q. QED BY <2>1, <2>5, <2>6, <2>7, <2>8
<1>q. QED BY <1>7, <1>8

\* The signal is told of a position that is held.
LEMMA HeldIsSummarised == \A q : FullyHeld(machine, q) => Summarised(machine)
<1>1. None \notin Position
  BY MachineAssumption
<1>q. QED BY <1>1 DEF FullyHeld, Summarised

\* Holding, a look closes the position or finds it within the hold time.
LEMMA AskHeld ==
    ASSUME BtInv, NEW p \in OpenLeg, open = {p}, engine' = FedEngine,
           Ask(FedEngine, Verdict(FedEngine))
    PROVE  /\ Proceed /\ breach' = {} /\ engine'.spread # {}
           /\ \/ open' = {} /\ machine' = Flat
              \/ open' = open /\ machine' = machine /\ AlignedTs - p.at < MaxHold
<1> DEFINE e    == FedEngine
           v    == Verdict(e)
           devs == CurrentDev(e)
           warm == IsWarm(e, MinWarm)
           t    == AlignedTs
<1>1. FullyHeld(machine, p.qty) /\ p.at <= seen /\ engine.spread # {}
  BY DEF BtInv, LegAgrees
<1>2. Position0 = {p}
  BY <1>1, HeldIsSummarised DEF Position0
<1>3. engine'.spread # {} /\ devs # {}
  BY <1>1, FedEngineFacts, DevFollowsSpread DEF BtInv
<1>4. t \in Nat /\ p.at \in Nat /\ p.at <= t /\ p.qty \in Qty
  <2>1. p.at \in Nat /\ p.qty \in Qty
    BY DEF OpenLeg
  <2>q. QED BY <1>1, <2>1, LookFacts DEF BtInv
<1>5. v = Decide(breach, t, devs, warm, {p})
  BY <1>2 DEF Verdict
<1>6. /\ v.breach = {}
      /\ \/ \E r \in {"ForceClose", "MeanCross", "MaxHold"} : v.out = Exit(r)
         \/ v.out = Hold /\ t - p.at < MaxHold
  <2> HIDE DEF devs, warm, t
  <2>1. LET w == Decide(breach, t, devs, warm, {p}) IN
        /\ w.breach = {}
        /\ \/ \E r \in {"ForceClose", "MeanCross", "MaxHold"} : w.out = Exit(r)
           \/ w.out = Hold /\ t - p.at < MaxHold
    BY <1>3, <1>4, DecideHeldFacts
  <2>q. QED BY <1>5, <2>1
<1>7. CASE v.out = Hold /\ t - p.at < MaxHold
  <2>1. Outcomes(v.out) = {[ms |-> {machine}, leg |-> open]}
    BY <1>7 DEF Outcomes, Hold
  <2>q. QED BY <1>3, <1>6, <1>7, <2>1 DEF Ask
<1>8. CASE \E r \in {"ForceClose", "MeanCross", "MaxHold"} : v.out = Exit(r)
  <2>1. PICK r \in ExitReason : v.out = Exit(r)
    BY <1>8, BacktestAssumption
  <2>2. ExitFilledBoth(r, p.qty) = {Flat}
    BY <1>1, <1>4, ExitFlattens
  <2>3. UNION {ExitFilledBoth(r, x.qty) : x \in open} = {Flat}
    BY <2>2
  <2>4. Outcomes(v.out) = {[ms |-> {Flat}, leg |-> {}]}
    BY <2>1, <2>3 DEF Outcomes, Exit
  <2>q. QED BY <1>3, <1>6, <2>4 DEF Ask
<1>q. QED BY <1>6, <1>7, <1>8

\* The first record is looked at from flat.
LEMMA BtInit == BacktestInit => BtInv
<1> SUFFICES ASSUME BacktestInit PROVE BtInv
  OBVIOUS
<1>1. CursorsOK
  <2>1. PICK e \in FirstRecord("ext"), l \in FirstRecord("lt"), n \in [Venue -> Lengths] :
            /\ cur = [v \in Venue |-> IF v = "ext" THEN e ELSE l]
            /\ \E x \in After(e.ts, n["ext"]), y \in After(l.ts, n["lt"]) :
                next = [v \in Venue |-> IF v = "ext" THEN x ELSE y]
    BY DEF BacktestInit, ReplayInit
  <2>2. PICK x \in After(e.ts, n["ext"]), y \in After(l.ts, n["lt"]) :
            next = [v \in Venue |-> IF v = "ext" THEN x ELSE y]
    BY <2>1
  <2>3. e \in [ts : Nat, mid : Nat] /\ l \in [ts : Nat, mid : Nat]
    BY GapIsNat DEF FirstRecord, Venue
  <2>4. /\ x \in SUBSET Nat /\ \A u \in x : e.ts < u /\ u <= e.ts + Gap
        /\ y \in SUBSET Nat /\ \A u \in y : l.ts < u /\ u <= l.ts + Gap
    BY <2>3, GapIsNat DEF After
  <2>q. QED BY <2>1, <2>2, <2>3, <2>4 DEF CursorsOK, Venue
<1>2. EngineShape(engine)
  BY DEF BacktestInit, NewEngine, EngineShape
<1>3. RunsOK /\ BreachInRun /\ LegAgrees /\ LooksOn
  BY DEF BacktestInit, MachineInit, RunsOK, BreachInRun, LegAgrees, LooksOn
<1>4. seen = 0 /\ AlignedTs \in Nat /\ run = "on"
  BY <1>1, AlignedIsNat DEF BacktestInit
<1>q. QED BY <1>1, <1>2, <1>3, <1>4 DEF BtInv

\* Every iteration looks at the market or only moves on, flat.
LEMMA IterateIs ==
    ASSUME BtInv, Iterate
    PROVE  /\ engine' = FedEngine /\ EngineShape(engine')
           /\ (engine.spread # {} => engine'.spread # {})
           /\ \/ Ask(FedEngine, Verdict(FedEngine))
              \/ Skip /\ open = {}
<1>1. engine' = FedEngine
  BY DEF Iterate
<1>2. Ask(FedEngine, Verdict(FedEngine)) \/ (Skip /\ Position0 = {})
  BY DEF Iterate, Asked
<1>3. Position0 = {} => open = {}
  BY HeldIsSummarised DEF BtInv, LegAgrees, Position0
<1>q. QED BY <1>1, <1>2, <1>3, FedEngineFacts DEF BtInv

\* A remainder that leaves room for w leaves the quotient alone that long.
LEMMA SameCycle ==
    ASSUME NEW c \in Nat \ {0}, NEW a \in Nat, NEW b \in Nat, NEW w \in Nat,
           a % c < c - w, a <= b, b <= a + w
    PROVE  b \div c = a \div c
<1>1. a % c \in Nat /\ a \div c \in Int
  BY SMT
<1>2. a = c * (a \div c) + (a % c)
  BY SMT
<1>3. ASSUME NEW q \in Int, NEW r \in Nat, r < c, b = c * q + r PROVE b \div c = q
  BY <1>3, SMT
<1> DEFINE q == a \div c
           m == c * q
           r == (a % c) + (b - a)
<1>4. r \in Nat /\ r < c
  BY <1>1
<1>5. m \in Int
  BY <1>1
<1>6. b = m + r
  <2> HIDE DEF m
  <2>1. a = m + (a % c)
    BY <1>2 DEF m
  <2>q. QED BY <1>1, <1>5, <2>1
<1>q. QED BY <1>1, <1>3, <1>4, <1>6

\* What one step of the back-test does to the position.
Kept(p) == open' = {p} /\ machine' = machine /\ seen' - p.at < MaxHold

StepIs ==
    \/ UNCHANGED <<open, machine, seen, runs>>
    \/ /\ seen' = AlignedTs
       /\ \/ open = {} /\ open' = {}
          \/ /\ open = {}
             /\ \E d \in Dir, q \in Qty :
                 /\ open' = {[dir |-> d, at |-> AlignedTs, qty |-> q]}
                 /\ \E t \in EntryRuns(d) : AlignedTs - t >= Persist
          \/ \E p \in OpenLeg : open = {p} /\ (open' = {} \/ Kept(p))
       /\ \E B \in SUBSET Dir :
            runs' = [d \in Dir |-> IF d \notin B THEN {} ELSE
                                  IF runs[d] = {} THEN {seen'} ELSE runs[d]]

\* The invariant is kept, whatever the next records are.
LEMMA BtStep ==
    ASSUME BtInv, [Iterate \/ Over]_btVars
    PROVE  BtInv' /\ StepIs /\ seen <= seen' /\ (open # {} => seen' <= seen + Gap)
<1>0. seen \in Nat /\ seen <= AlignedTs /\ AlignedTs \in Nat /\ Gap \in Nat
  BY AlignedIsNat, GapIsNat DEF BtInv
<1>1. CASE UNCHANGED btVars
  <2>1. UNCHANGED <<cur, next, engine, breach, machine, open, run, seen, runs>>
    BY <1>1 DEF btVars, replay
  <2>2. BtInv'
    BY <2>1 DEF BtInv, EngineShape, CursorsOK, RunsOK, BreachInRun, LegAgrees, LooksOn,
                AlignedTs, FullyHeld
  <2>3. StepIs
    BY <2>1 DEF StepIs
  <2>q. QED BY <1>0, <2>1, <2>2, <2>3
<1>2. CASE Iterate /\ Skip /\ open = {}
  <2>1. UNCHANGED <<breach, machine, open, seen, runs>> /\ Proceed
    BY <1>2 DEF Skip
  <2>2. CursorsOK' /\ AlignedTs <= AlignedTs' /\ run' \in {"on", "done"} /\ AlignedTs' \in Nat
    <3>1. CursorsOK' /\ AlignedTs <= AlignedTs' /\ run' \in {"on", "done"}
      BY <2>1, ProceedFacts DEF BtInv
    <3>2. AlignedTs' \in Nat
      BY <3>1 DEF CursorsOK, AlignedTs, Venue
    <3>q. QED BY <3>1, <3>2
  <2>3. EngineShape(engine') /\ (engine.spread # {} => engine'.spread # {})
    BY <1>2, IterateIs
  <2>4. machine = Flat
    BY <1>2 DEF BtInv, LegAgrees
  <2>5. BreachInRun'
    BY <2>1, <2>3 DEF BtInv, BreachInRun
  <2>6. RunsOK' /\ LegAgrees' /\ LooksOn'
    BY <1>2, <2>1, <2>4 DEF BtInv, RunsOK, LegAgrees, LooksOn
  <2>7. BtInv'
    BY <1>0, <2>1, <2>2, <2>3, <2>5, <2>6 DEF BtInv
  <2>q. QED BY <1>0, <1>2, <2>1, <2>7 DEF StepIs
<1>3. CASE Iterate /\ Ask(FedEngine, Verdict(FedEngine))
  <2> DEFINE Shape == \E B \in SUBSET Dir :
                        runs' = [d \in Dir |-> IF d \notin B THEN {} ELSE
                                              IF runs[d] = {} THEN {seen'} ELSE runs[d]]
  <2>1. engine' = FedEngine /\ EngineShape(engine')
    BY <1>3, IterateIs
  <2>2. seen' = AlignedTs /\ RunsOK'
    BY <1>3, LookFacts
  <2>3. Shape
    <3>1. BreachedNow(FedEngine) \in SUBSET Dir
      BY DEF BreachedNow
    <3>2. runs' = [d \in Dir |-> IF d \notin BreachedNow(FedEngine) THEN {} ELSE
                                IF runs[d] = {} THEN {seen'} ELSE runs[d]]
      BY <1>3, <2>2 DEF Ask
    <3>q. QED BY <3>1, <3>2
  <2>4. ASSUME Proceed
        PROVE  /\ CursorsOK' /\ run' \in {"on", "done"} /\ AlignedTs' \in Nat
               /\ seen' <= AlignedTs' /\ LooksOn' /\ seen' \in Nat
    <3>1. CursorsOK' /\ AlignedTs <= AlignedTs' /\ run' \in {"on", "done"}
          /\ AlignedTs' <= AlignedTs + Gap
      BY <2>4, ProceedFacts DEF BtInv
    <3>2. AlignedTs' \in Nat
      BY <3>1 DEF CursorsOK, AlignedTs, Venue
    <3>q. QED BY <1>0, <2>2, <3>1, <3>2 DEF LooksOn
  <2>5. CASE open = {}
    <3>1. Proceed
      BY <1>3, <2>1, <2>5, AskFlat
    <3>2. CASE open' = {} /\ machine' = machine /\ BreachInRun'
      <4>1. LegAgrees'
        BY <2>5, <3>2, HeldIsSummarised DEF BtInv, LegAgrees
      <4>2. BtInv'
        BY <2>1, <2>2, <2>4, <3>1, <3>2, <4>1 DEF BtInv
      <4>q. QED BY <1>0, <2>2, <2>3, <2>5, <3>2, <4>2 DEF StepIs
    <3>3. ASSUME breach' = {}, engine'.spread # {}, ~InFundingLockout(AlignedTs),
                 NEW d \in Dir, NEW q \in Qty, FullyHeld(machine', q),
                 open' = {[dir |-> d, at |-> AlignedTs, qty |-> q]},
                 \E t \in EntryRuns(d) : AlignedTs - t >= Persist
          PROVE  BtInv' /\ StepIs /\ seen <= seen'
      <4> DEFINE p == [dir |-> d, at |-> AlignedTs, qty |-> q]
      <4>1. p \in OpenLeg /\ p.at = seen' /\ p.qty = q
        BY <1>0, <2>2 DEF OpenLeg
      <4>2. LegAgrees'
        BY <1>0, <2>2, <3>3, <4>1 DEF LegAgrees, FullyHeld
      <4>3. BtInv'
        BY <2>1, <2>2, <2>4, <3>1, <3>3, <4>2 DEF BtInv, BreachInRun
      <4>q. QED BY <1>0, <2>2, <2>3, <2>5, <3>3, <4>3 DEF StepIs
    <3>4. CASE /\ breach' = {} /\ engine'.spread # {} /\ ~InFundingLockout(AlignedTs)
               /\ \E d \in Dir, q \in Qty :
                   /\ open' = {[dir |-> d, at |-> AlignedTs, qty |-> q]}
                   /\ FullyHeld(machine', q)
                   /\ \E t \in EntryRuns(d) : AlignedTs - t >= Persist
      BY <2>5, <3>3, <3>4
    <3>q. QED BY <1>3, <2>1, <2>5, <3>2, <3>4, AskFlat
  <2>6. ASSUME NEW p \in OpenLeg, open = {p} PROVE BtInv' /\ StepIs /\ seen <= seen' /\ seen' <= seen + Gap
    <3>1. Proceed /\ breach' = {} /\ engine'.spread # {}
      BY <1>3, <2>1, <2>6, AskHeld
    <3>2. \/ open' = {} /\ machine' = Flat
          \/ open' = open /\ machine' = machine /\ seen' - p.at < MaxHold
      BY <1>3, <2>1, <2>2, <2>6, AskHeld
    <3>3. p.at \in Nat /\ p.at <= seen /\ FullyHeld(machine, p.qty) /\ ~InFundingLockout(p.at)
      BY <2>6 DEF BtInv, LegAgrees, OpenLeg
    <3>4. LegAgrees'
      <4>1. CASE open' = {} /\ machine' = Flat
        BY <4>1 DEF LegAgrees
      <4>2. CASE open' = open /\ machine' = machine /\ seen' - p.at < MaxHold
        BY <1>0, <2>2, <2>6, <3>1, <3>3, <4>2 DEF LegAgrees, FullyHeld
      <4>q. QED BY <3>2, <4>1, <4>2
    <3>5. BtInv'
      BY <2>1, <2>2, <2>4, <3>1, <3>4 DEF BtInv, BreachInRun
    <3>6. StepIs
      BY <2>2, <2>3, <2>6, <3>2 DEF StepIs, Kept
    <3>7. seen' <= seen + Gap
      BY <2>2, <2>6 DEF BtInv, LooksOn
    <3>q. QED BY <1>0, <2>2, <3>5, <3>6, <3>7
  <2>7. open = {} \/ \E p \in OpenLeg : open = {p}
    BY DEF BtInv, LegAgrees
  <2>q. QED BY <2>5, <2>6, <2>7
<1>4. Iterate => (Skip /\ open = {}) \/ Ask(FedEngine, Verdict(FedEngine))
  BY IterateIs
<1>q. QED BY <1>1, <1>2, <1>3, <1>4 DEF Over

\* The invariant holds in every state of the back-test.
LEMMA BtInvariant == BacktestSpec => []BtInv
<1>1. BacktestInit => BtInv
  BY BtInit
<1>2. BtInv /\ [Iterate \/ Over]_btVars => BtInv'
  BY BtStep
<1>q. QED BY <1>1, <1>2, PTL DEF BacktestSpec

\* No decision of the signal engine is rejected by the position machine, and no
\* exit is decided without an open leg: run_bt_async never ends in an error.
THEOREM BacktestNeverFails == BacktestSpec => []NeverFails
<1>1. BtInv => NeverFails
  BY DEF BtInv, NeverFails
<1>q. QED BY <1>1, BtInvariant, PTL

\* Where MaxHold and the time between two records fit into the lockout, no
\* position is still open at a look in a later funding cycle.
THEOREM BacktestClosesBeforeSettlement == BacktestSpec => ClosesBeforeSettlement
<1> DEFINE Same == Cycle > 0 /\ MaxHold + Gap <= Pre =>
                      \A p \in open : seen' \div Cycle = p.at \div Cycle
<1>1. BtInv /\ [Iterate \/ Over]_btVars => [Same]_btVars
  <2> SUFFICES ASSUME BtInv, [Iterate \/ Over]_btVars, Cycle > 0, MaxHold + Gap <= Pre,
                      NEW p \in open
               PROVE  seen' \div Cycle = p.at \div Cycle
    OBVIOUS
  <2>1. /\ p.at \in Nat /\ p.at <= seen /\ ~InFundingLockout(p.at)
        /\ p.at < seen => seen - p.at < MaxHold
    BY DEF BtInv, LegAgrees, OpenLeg
  <2>2. seen \in Nat /\ seen <= seen' /\ seen' <= seen + Gap /\ seen' \in Nat
    BY BtStep DEF BtInv
  <2>3. p.at % Cycle < Cycle - Pre
    <3>1. p.at % Cycle < Minus(Cycle, Pre) /\ p.at % Cycle \in Nat
      BY <2>1, ConstantsAreNat DEF InFundingLockout, Minus
    <3>q. QED BY <3>1, ConstantsAreNat DEF Minus
  <2>4. seen' <= p.at + Pre /\ p.at <= seen'
    BY <2>1, <2>2, ConstantsAreNat, GapIsNat
  <2>5. Cycle \in Nat \ {0} /\ Pre \in Nat
    BY ConstantsAreNat
  <2>q. QED BY <2>1, <2>2, <2>3, <2>4, <2>5, SameCycle
<1>q. QED BY <1>1, BtInvariant, PTL DEF BacktestSpec, ClosesBeforeSettlement

\* The back-test does what the strategy promises: it opens from flat, on a
\* breach no look interrupted for Persist, and closes at the first look at
\* which the hold time is up.
THEOREM BacktestKeepsStrategy == BacktestSpec => KeepsStrategy
<1>1. BacktestInit => Promise!StInit
  BY DEF BacktestInit, Promise!StInit
<1>2. ASSUME BtInv, [Iterate \/ Over]_btVars PROVE [Promise!StNext]_(Promise!stVars)
  <2>1. StepIs /\ seen <= seen' /\ seen' \in Nat /\ seen \in Nat
    BY <1>2, BtStep DEF BtInv
  <2>2. ASSUME NEW p PROVE (CHOOSE x \in {p} : TRUE) = p
    OBVIOUS
  <2>3. CASE UNCHANGED <<open, machine, seen, runs>>
    BY <2>3 DEF Promise!stVars
  <2>4. CASE ~UNCHANGED <<open, machine, seen, runs>>
    <3>1. \E B \in SUBSET Dir : Promise!Look(B)
      BY <2>1, <2>4 DEF StepIs, Promise!Look
    <3>2. CASE open = {} /\ open' = {}
      BY <3>1, <3>2 DEF Promise!StNext, Promise!Stay
    <3>3. ASSUME open = {}, NEW d \in Dir, NEW q \in Qty, seen' = AlignedTs,
                 open' = {[dir |-> d, at |-> AlignedTs, qty |-> q]},
                 \E t \in EntryRuns(d) : AlignedTs - t >= Persist
          PROVE  Promise!Open(d)
      <4> DEFINE p == [dir |-> d, at |-> AlignedTs, qty |-> q]
      <4>1. (CHOOSE x \in open' : TRUE).at = seen' /\ open' # {}
        <5>1. open' = {p} /\ p.at = seen'
          BY <3>3
        <5> HIDE DEF p
        <5>2. (CHOOSE x \in {p} : TRUE) = p
          BY <2>2
        <5>q. QED BY <5>1, <5>2
      <4>2. \E t \in IF CheckAtFire THEN runs'[d] ELSE runs[d] \cup runs'[d] :
                seen' - t >= Persist
        BY <3>3 DEF EntryRuns
      <4>q. QED BY <3>1, <3>3, <4>1, <4>2 DEF Promise!Open
    <3>4. ASSUME NEW p, open = {p}, open' = {} PROVE Promise!Close
      BY <3>1, <3>4 DEF Promise!Close
    <3>5. ASSUME NEW p, open = {p}, Kept(p) PROVE Promise!Stay
      BY <2>2, <3>1, <3>5 DEF Promise!Stay, Kept
    <3>q. QED BY <2>1, <2>4, <3>2, <3>3, <3>4, <3>5 DEF StepIs, Promise!StNext
  <2>q. QED BY <2>3, <2>4
<1>q. QED BY <1>1, <1>2, BtInvariant, PTL DEF BacktestSpec, KeepsStrategy, Promise!StSpec

\* A fill has a price, in whole 1/10000 of a unit.
LEMMA FillIsInt ==
    ASSUME NEW b \in Books, Tradable(b), NEW side \in {"Buy", "Sell"}, NEW q \in Sizes,
           NEW rests
    PROVE  FillPrice(b, side, q, rests) \in Int
<1>1. /\ b.bid \in Int /\ b.ask \in Int /\ b.bidSize \in Nat /\ b.askSize \in Nat
      /\ b.bidSize > 0 /\ b.askSize > 0 /\ q \in Nat
  BY SettlementAssumption DEF Tradable
<1>2. q \div b.bidSize \in Int /\ q \div b.askSize \in Int
  BY <1>1
<1>q. QED BY <1>1, <1>2 DEF FillPrice, IocFill, RestingFill, Touch, Opposite, Bps

\* A trade booked at its move of the spread less its slippage is booked at the
\* cash its four orders left.
LEMMA SettlementIsCash ==
    ASSUME NEW d \in {"Long", "Short"}, NEW q \in Sizes
    PROVE  BookedAtCash(d, q)
<1> SUFFICES ASSUME NEW rests \in [1..2 -> BOOLEAN], NEW e1 \in Books, NEW x1 \in Books,
                    NEW e2 \in Books, NEW x2 \in Books, \A b \in {e1, x1, e2, x2} : Tradable(b)
             PROVE  Net(d, q, [ext |-> e1, lt |-> e2], [ext |-> x1, lt |-> x2], rests, 0)
                    = LegCash(e1, x1, EntrySide(d, "ext"), q, <<FALSE, FALSE>>)
                        + LegCash(e2, x2, EntrySide(d, "lt"), q, rests)
  BY DEF BookedAtCash
<1> DEFINE s1 == EntrySide(d, "ext")
           s2 == EntrySide(d, "lt")
           f1 == FillPrice(e1, s1, q, FALSE)
           f2 == FillPrice(x1, Opposite(s1), q, FALSE)
           f3 == FillPrice(e2, s2, q, rests[1])
           f4 == FillPrice(x2, Opposite(s2), q, rests[2])
<1>1. /\ s1 = IF d = "Long" THEN "Buy" ELSE "Sell"
      /\ s2 = IF d = "Long" THEN "Sell" ELSE "Buy"
  BY DEF EntrySide
<1>2. f1 \in Int /\ f2 \in Int /\ f3 \in Int /\ f4 \in Int
  <2>1. s1 \in {"Buy", "Sell"} /\ s2 \in {"Buy", "Sell"}
        /\ Opposite(s1) \in {"Buy", "Sell"} /\ Opposite(s2) \in {"Buy", "Sell"}
    BY <1>1 DEF Opposite
  <2>2. Tradable(e1) /\ Tradable(x1) /\ Tradable(e2) /\ Tradable(x2)
    OBVIOUS
  <2> HIDE DEF s1, s2
  <2>3. f1 \in Int /\ f2 \in Int
    BY <2>1, <2>2, FillIsInt
  <2>4. f3 \in Int /\ f4 \in Int
    BY <2>1, <2>2, FillIsInt
  <2>q. QED BY <2>3, <2>4
<1>3. q \in Int /\ e1.mid \in Int /\ x1.mid \in Int /\ e2.mid \in Int /\ x2.mid \in Int
  BY SettlementAssumption
<1>4. LegCash(e1, x1, s1, q, <<FALSE, FALSE>>) = Cash(s1, f1, q) + Cash(Opposite(s1), f2, q)
  BY DEF LegCash
<1>5. LegCash(e2, x2, s2, q, rests) = Cash(s2, f3, q) + Cash(Opposite(s2), f4, q)
  BY DEF LegCash
<1>6. Net(d, q, [ext |-> e1, lt |-> e2], [ext |-> x1, lt |-> x2], rests, 0)
        = Gross(d, q, [ext |-> e1, lt |-> e2], [ext |-> x1, lt |-> x2])
          - (SideCost(f1, e1.mid, s1, q) + SideCost(f2, x1.mid, Opposite(s1), q))
          - (SideCost(f3, e2.mid, s2, q) + SideCost(f4, x2.mid, Opposite(s2), q))
  BY DEF Net, LegCost
<1> HIDE DEF s1, s2, f1, f2, f3, f4
<1>7. CASE d = "Long"
  BY <1>1, <1>2, <1>3, <1>4, <1>5, <1>6, <1>7 DEF Gross, Cash, SideCost, Opposite, Bps, s1, s2
<1>8. CASE d = "Short"
  BY <1>1, <1>2, <1>3, <1>4, <1>5, <1>6, <1>8 DEF Gross, Cash, SideCost, Opposite, Bps, s1, s2
<1>q. QED BY <1>7, <1>8

\* Every position the back-test opens, whatever its direction and quantity, is
\* booked at the cash its four orders leave.
THEOREM BacktestBooksCash == BacktestSpec => []NetIsCash
<1>1. BtInv => NetIsCash
  <2> SUFFICES ASSUME BtInv, NEW p \in open PROVE <<p.dir, p.qty>> \in CashTrades
    BY DEF NetIsCash
  <2>1. p.dir \in {"Long", "Short"} /\ p.qty \in Sizes
    BY BacktestAssumption DEF BtInv, LegAgrees, OpenLeg, Dir
  <2>2. BookedAtCash(p.dir, p.qty)
    BY <2>1, SettlementIsCash
  <2>q. QED BY <2>1, <2>2 DEF CashTrades
<1>q. QED BY <1>1, BtInvariant, PTL

(***************************************************************************)
(* The running mean.                                                        *)
(***************************************************************************)
\* Every set of naturals but the empty one has a least element ...
LEMMA LeastNumber ==
    ASSUME NEW T \in SUBSET Nat, T # {}
    PROVE  \E x \in T : \A y \in T : x <= y
<1> DEFINE R == OpToRel(<, Nat)
<1>1. IsWellFoundedOn(R, Nat)
  BY NatLessThanWellFounded
<1>2. \E x \in T : \A y \in T : ~ (<<y, x>> \in R)
  <2> HIDE DEF R
  <2>q. QED BY <1>1, WFMin
<1>3. \A x, y \in Nat : y < x => <<y, x>> \in R
  BY DEF OpToRel
<1>4. PICK x \in T : \A y \in T : ~ (<<y, x>> \in R)
  BY <1>2
<1> HIDE DEF R
<1>5. \A y \in T : ~ (y < x)
  BY <1>3, <1>4
<1>q. QED BY <1>5

\* ... so one with 0 and every successor in it holds them all.
LEMMA AllNumbers ==
    ASSUME NEW H \in SUBSET Nat, 0 \in H, \A n \in H : n + 1 \in H
    PROVE  H = Nat
<1> SUFFICES ASSUME Nat \ H # {} PROVE FALSE OBVIOUS
<1>1. PICK x \in Nat \ H : \A y \in Nat \ H : x <= y
  BY LeastNumber
<1>2. x # 0 /\ x - 1 \in Nat
  BY <1>1
<1>3. x - 1 \in H
  BY <1>1, <1>2
<1>q. QED BY <1>1, <1>2, <1>3

\* What FoldFunction adds up to for a set: any element, and the rest.
Plus(f, it, s) == IF s = {} THEN 0 ELSE LET x == CHOOSE y \in s : TRUE IN f[x] + it[s \ {x}]

Summing(f, S, it) == it = [s \in SUBSET S |-> Plus(f, it, s)]

Summable(f, S, it) == IsFiniteSet(S) /\ (\A i \in S : f[i] \in Int) /\ Summing(f, S, it)

\* The function FoldFunction recurs on exists, built up size by size.
LEMMA SumExists ==
    ASSUME NEW S, IsFiniteSet(S), NEW f
    PROVE  \E it : Summing(f, S, it)
<1> DEFINE Small(n) == {s \in SUBSET S : Cardinality(s) <= n}
           Upto(n, it) == it = [s \in Small(n) |-> Plus(f, it, s)]
           H == {n \in Nat : \E it : Upto(n, it)}
<1>1. \A s \in SUBSET S : IsFiniteSet(s) /\ Cardinality(s) \in Nat /\ Cardinality(s) <= Cardinality(S)
  BY FS_Subset, FS_CardinalityType
<1>2. Cardinality(S) \in Nat
  BY FS_CardinalityType
<1>3. 0 \in H
  <2>1. \A s \in Small(0) : s = {}
    BY <1>1, FS_EmptySet
  <2>2. Upto(0, [s \in Small(0) |-> 0])
    BY <2>1 DEF Plus
  <2>q. QED BY <2>2
<1>4. ASSUME NEW n \in H PROVE n + 1 \in H
  <2>1. PICK it : Upto(n, it)
    OBVIOUS
  <2> DEFINE g == [s \in Small(n + 1) |-> Plus(f, it, s)]
  <2>2. \A s \in Small(n) : s \in Small(n + 1)
    BY <1>1
  <2>3. \A s \in Small(n) : g[s] = it[s]
    <3>1. \A s \in Small(n) : it[s] = Plus(f, it, s)
      <4> HIDE DEF Plus, Small
      <4>q. QED BY <2>1
    <3>q. QED BY <2>2, <3>1
  <2>4. ASSUME NEW s \in Small(n + 1) PROVE Plus(f, g, s) = Plus(f, it, s)
    <3> DEFINE x == CHOOSE y \in s : TRUE
    <3>1. s # {} => x \in s
      OBVIOUS
    <3>2. s # {} => s \ {x} \in Small(n)
      <4> SUFFICES ASSUME s # {} PROVE s \ {x} \in Small(n)
        OBVIOUS
      <4>1. Cardinality(s \ {x}) = Cardinality(s) - 1
        BY <1>1, <3>1, FS_RemoveElement
      <4>2. s \in SUBSET S /\ Cardinality(s) \in Nat /\ Cardinality(s) <= n + 1
        BY <1>1
      <4>3. s \ {x} \in SUBSET S
        BY <4>2
      <4> HIDE DEF x
      <4>q. QED BY <4>1, <4>2, <4>3
    <3> HIDE DEF g, Small
    <3>q. QED BY <2>3, <3>2 DEF Plus
  <2>5. Upto(n + 1, g)
    <3>1. g = [s \in Small(n + 1) |-> Plus(f, g, s)]
      <4>1. \A s \in Small(n + 1) : Plus(f, it, s) = Plus(f, g, s)
        BY <2>4
      <4> HIDE DEF Small, Plus
      <4>q. QED BY <4>1
    <3>q. QED BY <3>1
  <2> HIDE DEF g, Upto
  <2>q. QED BY <2>5
<1>5. Cardinality(S) \in H
  <2> HIDE DEF Upto
  <2>q. QED BY <1>2, <1>3, <1>4, AllNumbers
<1>6. Small(Cardinality(S)) = SUBSET S
  BY <1>1
<1>q. QED BY <1>5, <1>6 DEF Summing

Adds(f, it, s) == it[s] \in Int /\ \A x \in s : it[s] = f[x] + it[s \ {x}]

\* It does not matter which element is taken first.
LEMMA SumTakesAny ==
    ASSUME NEW S, NEW f, NEW it, Summable(f, S, it)
    PROVE  \A s \in SUBSET S : Adds(f, it, s)
<1> SUFFICES ASSUME NEW s \in SUBSET S PROVE Adds(f, it, s)
  OBVIOUS
<1> DEFINE Fine(t) == it[t] \in Int /\ \A x \in t : it[t] = f[x] + it[t \ {x}]
           H == {n \in Nat : \A t \in SUBSET S : Cardinality(t) <= n => Fine(t)}
<1>0. IsFiniteSet(S) /\ (\A i \in S : f[i] \in Int) /\ Summing(f, S, it)
  BY DEF Summable
<1>1. \A t \in SUBSET S : IsFiniteSet(t) /\ Cardinality(t) \in Nat
  BY <1>0, FS_Subset, FS_CardinalityType
<1>2. \A t \in SUBSET S : it[t] = Plus(f, it, t)
  <2> HIDE DEF Plus
  <2>q. QED BY <1>0 DEF Summing
<1>3. it[{}] = 0
  BY <1>2 DEF Plus
<1>4. 0 \in H
  <2>1. \A t \in SUBSET S : Cardinality(t) <= 0 => t = {}
    BY <1>1, FS_EmptySet
  <2>2. Fine({})
    BY <1>3
  <2> HIDE DEF Fine
  <2>q. QED BY <2>1, <2>2
<1>5. ASSUME NEW n \in H, NEW t \in SUBSET S, Cardinality(t) <= n + 1, t # {}
      PROVE  Fine(t)
  <2>0. n \in Nat /\ \A u \in SUBSET S : Cardinality(u) <= n => Fine(u)
    OBVIOUS
  <2> HIDE DEF H
  <2> DEFINE c == CHOOSE y \in t : TRUE
  <2>1. c \in t
    BY <1>5
  <2>2. it[t] = f[c] + it[t \ {c}]
    BY <1>2, <1>5 DEF Plus
  <2> HIDE DEF c
  <2>3. ASSUME NEW x \in t PROVE Fine(t \ {x})
    <3>1. Cardinality(t \ {x}) = Cardinality(t) - 1
      BY <1>1, FS_RemoveElement
    <3>2. t \ {x} \in SUBSET S /\ Cardinality(t) \in Nat
      BY <1>1
    <3>3. Cardinality(t \ {x}) <= n
      BY <1>5, <2>0, <3>1, <3>2
    <3> HIDE DEF Fine
    <3>q. QED BY <2>0, <3>2, <3>3
  <2>4. it[t] \in Int
    <3>1. f[c] \in Int /\ it[t \ {c}] \in Int
      BY <1>0, <2>1, <2>3
    <3>q. QED BY <2>2, <3>1
  <2>5. ASSUME NEW x \in t, x # c PROVE it[t] = f[x] + it[t \ {x}]
    <3> DEFINE rest == (t \ {c}) \ {x}
    <3>1. rest = (t \ {x}) \ {c}
      OBVIOUS
    <3>2. it[t \ {c}] = f[x] + it[rest]
      BY <2>1, <2>3, <2>5
    <3>3. it[t \ {x}] = f[c] + it[rest]
      BY <2>1, <2>3, <2>5, <3>1
    <3>4. it[rest] \in Int
      <4>1. Cardinality(t \ {x}) = Cardinality(t) - 1
            /\ Cardinality((t \ {x}) \ {c}) = Cardinality(t \ {x}) - 1
        <5>1. IsFiniteSet(t \ {x}) /\ c \in t \ {x}
          BY <1>1, <2>1, <2>5
        <5>q. QED BY <1>1, <5>1, FS_RemoveElement
      <4>2. rest \in SUBSET S /\ Cardinality(t) \in Nat
        BY <1>1
      <4>3. Cardinality(rest) = Cardinality(t) - 2
        <5> HIDE DEF rest
        <5>q. QED BY <3>1, <4>1, <4>2
      <4>4. Cardinality(rest) <= n
        BY <1>5, <2>0, <4>2, <4>3
      <4> HIDE DEF rest
      <4>q. QED BY <2>0, <4>2, <4>4
    <3>5. f[x] \in Int /\ f[c] \in Int
      BY <1>0, <2>1
    <3> HIDE DEF rest
    <3>q. QED BY <2>2, <3>2, <3>3, <3>4, <3>5
  <2>q. QED BY <2>2, <2>4, <2>5
<1>6. \A n \in H : n + 1 \in H
  <2>1. Fine({})
    BY <1>3
  <2> HIDE DEF Fine
  <2>2. ASSUME NEW n \in H PROVE \A t \in SUBSET S : Cardinality(t) <= n + 1 => Fine(t)
    BY <1>5, <2>1
  <2>q. QED BY <2>2
<1>7. H = Nat
  <2> HIDE DEF Fine
  <2>q. QED BY <1>4, <1>6, AllNumbers
<1>8. Fine(s)
  <2>1. Cardinality(s) \in H /\ Cardinality(s) <= Cardinality(s)
    BY <1>1, <1>7
  <2> HIDE DEF Fine
  <2>q. QED BY <2>1
<1>q. QED BY <1>8 DEF Adds

\* The numbers of f at 1..m are those of g, k places on.
Moved(f, S, g, T, k, m) ==
    /\ 1..m \subseteq S /\ k + 1..k + m \subseteq T
    /\ \A i \in 1..m : f[i] = g[i + k]

\* Numbers that are the same k places on have the same sum.
LEMMA SumMoves ==
    ASSUME NEW k \in Nat, NEW m \in Nat,
           NEW S, NEW f, NEW it, Summable(f, S, it),
           NEW T, NEW g, NEW jt, Summable(g, T, jt),
           Moved(f, S, g, T, k, m)
    PROVE  it[1..m] = jt[k + 1..k + m]
<1> USE DEF Moved
<1> DEFINE H == {n \in Nat : n <= m => it[1..n] = jt[k + 1..k + n]}
<1>1. 0 \in H
  <2>1. 1..0 = {} /\ k + 1..k + 0 = {}
    OBVIOUS
  <2>2. it[{}] = 0 /\ jt[{}] = 0
    BY DEF Summable, Summing, Plus
  <2>q. QED BY <2>1, <2>2
<1>2. ASSUME NEW j \in H PROVE j + 1 \in H
  <2> SUFFICES ASSUME j + 1 <= m PROVE it[1..j + 1] = jt[k + 1..k + (j + 1)]
    OBVIOUS
  <2> DEFINE s == 1..j + 1
             t == k + 1..k + (j + 1)
  <2>1. s \in SUBSET S /\ t \in SUBSET T /\ j + 1 \in s /\ k + (j + 1) \in t
    <3>1. \A i \in s : i \in 1..m
      OBVIOUS
    <3>2. \A i \in t : i \in k + 1..k + m
      OBVIOUS
    <3>q. QED BY <3>1, <3>2
  <2>2. s \ {j + 1} = 1..j /\ t \ {k + (j + 1)} = k + 1..k + j
    OBVIOUS
  <2> HIDE DEF s, t
  <2>3. it[s] = f[j + 1] + it[1..j]
    <3>1. s \in SUBSET S
      BY <2>1
    <3>2. Adds(f, it, s)
      BY <3>1, SumTakesAny
    <3>q. QED BY <2>1, <2>2, <3>2 DEF Adds
  <2>4. jt[t] = g[k + (j + 1)] + jt[k + 1..k + j]
    <3>1. t \in SUBSET T
      BY <2>1
    <3>2. Adds(g, jt, t)
      BY <3>1, SumTakesAny
    <3>q. QED BY <2>1, <2>2, <3>2 DEF Adds
  <2>5. f[j + 1] = g[k + (j + 1)]
    <3>1. j + 1 \in 1..m /\ (j + 1) + k = k + (j + 1)
      OBVIOUS
    <3>q. QED BY <3>1
  <2>6. it[1..j] = jt[k + 1..k + j]
    OBVIOUS
  <2>q. QED BY <2>3, <2>4, <2>5, <2>6 DEF s, t
<1>3. H = Nat
  BY <1>1, <1>2, AllNumbers
<1>q. QED BY <1>3

Total(w) == FoldFunction(LAMBDA x, y : x + y, 0, w)

\* FoldFunction adds up a window.
LEMMA TotalIsSum ==
    ASSUME NEW w \in Seq(Int)
    PROVE  /\ DOMAIN w = 1..Len(w) /\ Len(w) \in Nat
           /\ \E it : Summable(w, DOMAIN w, it) /\ Total(w) = it[DOMAIN w]
<1>1. DOMAIN w = 1..Len(w) /\ Len(w) \in Nat /\ \A i \in DOMAIN w : w[i] \in Int
  OBVIOUS
<1>2. IsFiniteSet(DOMAIN w)
  BY <1>1, FS_Interval
<1> DEFINE it == CHOOSE f : Summing(w, DOMAIN w, f)
<1>3. Summing(w, DOMAIN w, it)
  BY <1>2, SumExists
<1>4. Total(w) = it[DOMAIN w]
  BY DEF Total, FoldFunction, FoldFunctionOnSet, MapThenFoldSet, Summing, Plus
<1> HIDE DEF it
<1>q. QED BY <1>1, <1>2, <1>3, <1>4 DEF Summable

\* A sample joins the sum ...
LEMMA TotalOfAppend ==
    ASSUME NEW w \in Seq(Int), NEW s \in Int
    PROVE  Total(w) \in Int /\ Total(Append(w, s)) = Total(w) + s
<1> DEFINE v == Append(w, s)
           n == Len(w)
<1>1. /\ v \in Seq(Int) /\ Len(v) = n + 1 /\ n \in Nat
      /\ \A i \in 1..n : v[i] = w[i]
      /\ v[n + 1] = s
  OBVIOUS
<1> HIDE DEF v
<1>2. PICK it : Summable(w, DOMAIN w, it) /\ Total(w) = it[DOMAIN w]
  BY TotalIsSum
<1>3. PICK jt : Summable(v, DOMAIN v, jt) /\ Total(v) = jt[DOMAIN v]
  BY <1>1, TotalIsSum
<1>4. DOMAIN w = 1..n /\ DOMAIN v = 1..n + 1
  BY <1>1, TotalIsSum
<1> HIDE DEF n
<1>5. jt[1..n + 1] = v[n + 1] + jt[1..n]
  <2> DEFINE s1 == 1..n + 1
  <2>1. s1 \in SUBSET DOMAIN v /\ n + 1 \in s1 /\ s1 \ {n + 1} = 1..n
    BY <1>1, <1>4
  <2> HIDE DEF s1
  <2>2. s1 \in SUBSET DOMAIN v /\ Summable(v, DOMAIN v, jt)
    BY <1>3, <2>1
  <2>3. Adds(v, jt, s1)
    BY <2>2, SumTakesAny
  <2>q. QED BY <2>1, <2>3 DEF s1, Adds
<1>6. it[1..n] = jt[1..n]
  <2> DEFINE k == 0
  <2>1. k \in Nat /\ 1..n \subseteq DOMAIN w /\ k + 1..k + n \subseteq DOMAIN v
        /\ \A i \in 1..n : w[i] = v[i + k]
    BY <1>1, <1>4
  <2>2. k + 1..k + n = 1..n
    BY <1>1
  <2> HIDE DEF k
  <2>3. it[1..n] = jt[k + 1..k + n]
    <3>1. Moved(w, DOMAIN w, v, DOMAIN v, k, n)
      BY <2>1 DEF Moved
    <3>q. QED BY <1>1, <1>2, <1>3, <2>1, <3>1, SumMoves
  <2>q. QED BY <2>2, <2>3
<1>7. it[1..n] \in Int
  <2>1. 1..n \in SUBSET DOMAIN w
    BY <1>4
  <2>q. QED BY <1>2, <1>4, <2>1, SumTakesAny DEF Adds
<1>q. QED BY <1>1, <1>2, <1>3, <1>4, <1>5, <1>6, <1>7 DEF v

\* ... and the oldest leaves it.
LEMMA TotalOfTail ==
    ASSUME NEW w \in Seq(Int), Len(w) > 0
    PROVE  Total(Tail(w)) \in Int /\ Total(w) = Head(w) + Total(Tail(w))
<1> DEFINE v == Tail(w)
           n == Len(w)
<1>1. /\ v \in Seq(Int) /\ Len(v) = n - 1 /\ n \in Nat \ {0}
      /\ \A i \in 1..n - 1 : v[i] = w[i + 1]
      /\ Head(w) = w[1]
  OBVIOUS
<1> HIDE DEF v
<1>2. PICK it : Summable(w, DOMAIN w, it) /\ Total(w) = it[DOMAIN w]
  BY TotalIsSum
<1>3. PICK jt : Summable(v, DOMAIN v, jt) /\ Total(v) = jt[DOMAIN v]
  BY <1>1, TotalIsSum
<1>4. DOMAIN w = 1..n /\ DOMAIN v = 1..n - 1
  BY <1>1, TotalIsSum
<1> HIDE DEF n
<1>5. it[1..n] = w[1] + it[2..n]
  <2> DEFINE s1 == 1..n
  <2>1. s1 \in SUBSET DOMAIN w /\ 1 \in s1 /\ s1 \ {1} = 2..n
    BY <1>1, <1>4
  <2> HIDE DEF s1
  <2>2. s1 \in SUBSET DOMAIN w /\ Summable(w, DOMAIN w, it)
    BY <1>2, <2>1
  <2>3. Adds(w, it, s1)
    BY <2>2, SumTakesAny
  <2>q. QED BY <2>1, <2>3 DEF s1, Adds
<1>6. jt[1..n - 1] = it[2..n]
  <2> DEFINE k == 1
             m == n - 1
  <2>1. k \in Nat /\ m \in Nat /\ 1..m \subseteq DOMAIN v /\ k + 1..k + m \subseteq DOMAIN w
        /\ \A i \in 1..m : v[i] = w[i + k]
    BY <1>1, <1>4
  <2>2. k + 1..k + m = 2..n
    BY <1>1
  <2> HIDE DEF k, m
  <2>3. jt[1..m] = it[k + 1..k + m]
    <3>1. Moved(v, DOMAIN v, w, DOMAIN w, k, m)
      BY <2>1 DEF Moved
    <3>q. QED BY <1>2, <1>3, <2>1, <3>1, SumMoves
  <2>q. QED BY <2>2, <2>3 DEF m
<1>7. jt[1..n - 1] \in Int
  <2>1. 1..n - 1 \in SUBSET DOMAIN v
    BY <1>4
  <2>q. QED BY <1>3, <1>4, <2>1, SumTakesAny DEF Adds
<1>q. QED BY <1>1, <1>2, <1>3, <1>4, <1>5, <1>6, <1>7 DEF v

Stamped == [bucket : Int, mid : Nat]

Engines == [ext : SUBSET Stamped, lt : SUBSET Stamped, last : SUBSET Int,
            window : Seq(Int), sum : Int, spread : SUBSET Int]

\* The sum and the spread of an engine are those of its window.
OfWindow(e) ==
    /\ e.sum = Total(e.window)
    /\ e.spread = {e.window[i] : i \in {Len(e.window)} \cap DOMAIN e.window}

EngineOK(e) == e \in Engines /\ Len(e.window) <= Capacity /\ OfWindow(e)

\* A spread is a whole number of basis points.
LEMMA SampleIsInt ==
    ASSUME NEW e \in Engines, NEW b \in Int
    PROVE  SampleOf(e, b) \subseteq Int
<1>1. ASSUME NEW x \in Nat, NEW y \in Nat PROVE SpreadBps(x, y) \subseteq Int
  <2>1. CASE y <= 0
    BY <2>1 DEF SpreadBps
  <2>2. CASE y > 0
    <3> DEFINE n == (x - y) * 10000
    <3>1. n \in Int
      OBVIOUS
    <3> HIDE DEF n
    <3>2. n \div y \in Int
      BY <2>2, <3>1, SMT
    <3>q. QED BY <3>2 DEF SpreadBps, n
  <2>q. QED BY <2>1, <2>2
<1>2. e.ext \subseteq Stamped /\ e.lt \subseteq Stamped
  BY DEF Engines
<1>3. \A x \in Stamped : x.mid \in Nat
  BY DEF Stamped
<1>4. ASSUME NEW z \in SampleOf(e, b) PROVE z \in Int
  <2>1. PICK x \in e.ext, y \in e.lt : z \in SpreadBps(x.mid, y.mid)
    BY DEF SampleOf
  <2>q. QED BY <1>1, <1>2, <1>3, <2>1
<1>q. QED BY <1>4

\* Pushing a sample keeps the sum, and makes it the newest of the window.
LEMMA PushFacts ==
    ASSUME NEW e, EngineOK(e), NEW s \in Int
    PROVE  LET p == Push(e, s) IN
           /\ p.window \in Seq(Int) /\ p.sum \in Int
           /\ p = [[e EXCEPT !.window = p.window] EXCEPT !.sum = p.sum]
           /\ Len(p.window) <= Capacity /\ p.sum = Total(p.window)
           /\ p.window[Len(p.window)] = s /\ Len(p.window) > 0
<1> DEFINE w == e.window
<1>1. /\ e \in Engines /\ w \in Seq(Int) /\ e.sum \in Int /\ Len(w) <= Capacity
      /\ Capacity \in Nat \ {0} /\ e.sum = Total(w) /\ Len(w) \in Nat
  BY SpreadAssumption DEF EngineOK, OfWindow, Engines
<1>2. CASE Len(w) = Capacity
  <2> DEFINE v == Append(Tail(w), s)
             total == e.sum - Head(w) + s
  <2>1. Len(w) > 0 /\ Tail(w) \in Seq(Int) /\ Len(Tail(w)) = Len(w) - 1 /\ Head(w) \in Int
    BY <1>1, <1>2
  <2>2. v \in Seq(Int) /\ Len(v) = Len(w) /\ v[Len(v)] = s
    <3> DEFINE u == Tail(w)
    <3>1. u \in Seq(Int) /\ Len(u) = Len(w) - 1
      BY <2>1
    <3> HIDE DEF u
    <3>2. Append(u, s) \in Seq(Int) /\ Len(Append(u, s)) = Len(u) + 1
          /\ Append(u, s)[Len(u) + 1] = s
      BY <3>1
    <3>3. (Len(w) - 1) + 1 = Len(w)
      BY <1>1
    <3>q. QED BY <3>1, <3>2, <3>3 DEF u
  <2>3. total = Total(v) /\ total \in Int
    <3>1. Total(Tail(w)) \in Int /\ Total(w) = Head(w) + Total(Tail(w))
      BY <1>1, <2>1, TotalOfTail
    <3>2. Total(v) = Total(Tail(w)) + s
      BY <2>1, TotalOfAppend
    <3> HIDE DEF v, w
    <3>q. QED BY <1>1, <2>1, <3>1, <3>2
  <2>4. Push(e, s) = [[e EXCEPT !.window = v] EXCEPT !.sum = total]
    BY <1>1, <1>2 DEF Push, Engines
  <2> HIDE DEF v, total
  <2>5. Push(e, s).window = v /\ Push(e, s).sum = total
    BY <1>1, <2>4 DEF Engines
  <2>q. QED BY <1>1, <1>2, <2>1, <2>2, <2>3, <2>4, <2>5
<1>3. CASE Len(w) # Capacity
  <2> DEFINE v == Append(w, s)
             total == e.sum + s
  <2>1. v \in Seq(Int) /\ Len(v) = Len(w) + 1 /\ v[Len(v)] = s
    <3> HIDE DEF w
    <3>q. QED BY <1>1
  <2>2. total = Total(v) /\ total \in Int
    BY <1>1, TotalOfAppend
  <2>3. Push(e, s) = [[e EXCEPT !.window = v] EXCEPT !.sum = total]
    BY <1>1, <1>3 DEF Push, Engines
  <2> HIDE DEF v, total
  <2>4. Push(e, s).window = v /\ Push(e, s).sum = total
    BY <1>1, <2>3 DEF Engines
  <2>5. Len(v) <= Capacity /\ Len(v) > 0
    BY <1>1, <1>3, <2>1
  <2>q. QED BY <2>1, <2>2, <2>3, <2>4, <2>5
<1>q. QED BY <1>2, <1>3

\* Whatever is fed to it, the engine's sum and spread stay those of its window.
LEMMA FedIsOK ==
    ASSUME NEW e, EngineOK(e), NEW v \in Venue, CursorsOK
    PROVE  EngineOK(Fed(e, v))
<1> DEFINE b == BucketOf(cur[v].ts)
           f == [e EXCEPT ![v] = {[bucket |-> b, mid |-> cur[v].mid]}]
<1>1. cur[v].ts \in Nat /\ cur[v].mid \in Nat
  BY DEF CursorsOK
<1>2. b \in Int
  <2>1. Bucket \in Nat \ {0}
    BY SpreadAssumption
  <2>2. ASSUME NEW t \in Nat PROVE BucketOf(t) \in Int
    <3>1. t \div Bucket \in Int
      BY <2>1, SMT
    <3> DEFINE q == t \div Bucket
    <3> HIDE DEF q
    <3>2. q \in Int => q * Bucket \in Int
      BY <2>1, SMT
    <3>q. QED BY <3>1, <3>2 DEF BucketOf, q
  <2>q. QED BY <1>1, <2>2
<1> HIDE DEF b
<1>3. EngineOK(f)
  <2>1. {[bucket |-> b, mid |-> cur[v].mid]} \in SUBSET Stamped
    BY <1>1, <1>2 DEF Stamped
  <2>2. f \in Engines /\ f.window = e.window /\ f.sum = e.sum /\ f.spread = e.spread
    BY <2>1 DEF EngineOK, Engines, Venue
  <2> HIDE DEF f
  <2>q. QED BY <2>2 DEF EngineOK, OfWindow
<1> HIDE DEF f
<1>4. ASSUME NEW s \in Int
      PROVE  EngineOK([[Push(f, s) EXCEPT !.spread = {s}] EXCEPT !.last = {b}])
  <2> DEFINE w == Push(f, s).window
             sum == Push(f, s).sum
             g == [[[[f EXCEPT !.window = w] EXCEPT !.sum = sum] EXCEPT !.spread = {s}]
                      EXCEPT !.last = {b}]
  <2>1. /\ w \in Seq(Int) /\ sum \in Int /\ Len(w) <= Capacity /\ sum = Total(w)
        /\ w[Len(w)] = s /\ Len(w) > 0
        /\ Push(f, s) = [[f EXCEPT !.window = w] EXCEPT !.sum = sum]
    BY <1>3, <1>4, PushFacts
  <2>2. g = [[Push(f, s) EXCEPT !.spread = {s}] EXCEPT !.last = {b}]
    BY <2>1
  <2> HIDE DEF w, sum
  <2>3. /\ g \in Engines /\ g.window = w /\ g.sum = sum /\ g.spread = {s}
    <3> DEFINE f1 == [f EXCEPT !.window = w]
               f2 == [f1 EXCEPT !.sum = sum]
               f3 == [f2 EXCEPT !.spread = {s}]
    <3>1. f1 \in Engines /\ f1.window = w
      BY <1>3, <2>1 DEF EngineOK, Engines
    <3> HIDE DEF f1
    <3>2. f2 \in Engines /\ f2.window = w /\ f2.sum = sum
      BY <2>1, <3>1 DEF Engines
    <3> HIDE DEF f2
    <3>3. f3 \in Engines /\ f3.window = w /\ f3.sum = sum /\ f3.spread = {s}
      BY <1>4, <3>2 DEF Engines
    <3>4. g = [f3 EXCEPT !.last = {b}]
      BY DEF f1, f2
    <3> HIDE DEF f3, g
    <3>q. QED BY <1>2, <3>3, <3>4 DEF Engines
  <2> HIDE DEF g
  <2>4. {s} = {w[i] : i \in {Len(w)} \cap DOMAIN w}
    <3>1. Len(w) \in DOMAIN w
      BY <2>1
    <3>q. QED BY <2>1, <3>1
  <2>q. QED BY <2>1, <2>2, <2>3, <2>4 DEF EngineOK, OfWindow
<1>5. EngineOK(MaybeCommit(f, b))
  <2>1. CASE f.last # {b} /\ \E s \in SampleOf(f, b) : Credible(s)
    <3> DEFINE s == CHOOSE x \in SampleOf(f, b) : TRUE
    <3>1. s \in Int
      <4>1. s \in SampleOf(f, b)
        BY <2>1
      <4> HIDE DEF s
      <4>q. QED BY <1>2, <1>3, <4>1, SampleIsInt DEF EngineOK
    <3>2. MaybeCommit(f, b) = [Push(f, s) EXCEPT !.spread = {s}, !.last = {b}]
      BY <2>1 DEF MaybeCommit
    <3> HIDE DEF s
    <3>3. MaybeCommit(f, b) = [[Push(f, s) EXCEPT !.spread = {s}] EXCEPT !.last = {b}]
      BY <3>2
    <3>q. QED BY <1>4, <3>1, <3>3
  <2>2. CASE ~(f.last # {b} /\ \E s \in SampleOf(f, b) : Credible(s))
    <3>1. MaybeCommit(f, b) = f
      BY <2>2 DEF MaybeCommit
    <3>q. QED BY <1>3, <3>1
  <2>q. QED BY <2>1, <2>2
<1>6. Fed(e, v) = IF cur[v].mid > 0 THEN MaybeCommit(f, b) ELSE e
  BY DEF Fed, Update, f, b
<1>q. QED BY <1>5, <1>6

\* What is left of a dump is counted, and every mid is one of its venue's.
DumpsOK ==
    /\ left \in [Venue -> Nat]
    /\ \A v \in Venue : cur[v].mid \in Mids[v] /\ (next[v] # {} => left[v] > 0)

MeanInv == EngineOK(engine) /\ DumpsOK

LEMMA MeanInit == BacktestInit => MeanInv
<1> SUFFICES ASSUME BacktestInit PROVE MeanInv
  OBVIOUS
<1>1. EngineOK(engine)
  <2>1. engine = NewEngine
    BY DEF BacktestInit
  <2>2. NewEngine \in Engines
    BY DEF NewEngine, Engines
  <2>3. Total(<< >>) = 0
    <3>1. << >> \in Seq(Int) /\ DOMAIN << >> = {}
      OBVIOUS
    <3>2. PICK it : Summable(<< >>, {}, it) /\ Total(<< >>) = it[{}]
      BY <3>1, TotalIsSum
    <3>q. QED BY <3>2 DEF Summable, Summing, Plus
  <2>4. NewEngine.window = << >> /\ NewEngine.sum = 0 /\ NewEngine.spread = {}
    BY DEF NewEngine
  <2>q. QED BY <2>1, <2>2, <2>3, <2>4, SpreadAssumption DEF EngineOK, OfWindow
<1>2. DumpsOK
  <2>1. PICK e \in FirstRecord("ext"), l \in FirstRecord("lt"), n \in [Venue -> Lengths] :
            /\ cur = [v \in Venue |-> IF v = "ext" THEN e ELSE l]
            /\ left = n
            /\ \E x \in After(e.ts, n["ext"]), y \in After(l.ts, n["lt"]) :
                next = [v \in Venue |-> IF v = "ext" THEN x ELSE y]
    BY DEF BacktestInit, ReplayInit
  <2>2. PICK x \in After(e.ts, n["ext"]), y \in After(l.ts, n["lt"]) :
            next = [v \in Venue |-> IF v = "ext" THEN x ELSE y]
    BY <2>1
  <2>3. e.mid \in Mids["ext"] /\ l.mid \in Mids["lt"]
    BY DEF FirstRecord
  <2>4. Lengths \subseteq Nat
    BY BacktestAssumption
  <2>5. (x # {} => n["ext"] # 0) /\ (y # {} => n["lt"] # 0)
    BY DEF After
  <2>6. left \in [Venue -> Nat]
    BY <2>1, <2>4
  <2>7. cur["ext"] = e /\ cur["lt"] = l /\ next["ext"] = x /\ next["lt"] = y
    BY <2>1, <2>2 DEF Venue
  <2>8. left["ext"] \in Nat /\ left["lt"] \in Nat /\ left = n
    BY <2>1, <2>6 DEF Venue
  <2>9. (x # {} => left["ext"] > 0) /\ (y # {} => left["lt"] > 0)
    BY <2>5, <2>8
  <2>q. QED BY <2>3, <2>6, <2>7, <2>9 DEF DumpsOK, Venue
<1>q. QED BY <1>1, <1>2 DEF MeanInv

LEMMA MeanNext ==
    ASSUME BtInv, MeanInv, [Iterate \/ Over]_btVars
    PROVE  MeanInv'
<1>1. CASE UNCHANGED btVars
  BY <1>1 DEF MeanInv, DumpsOK, EngineOK, OfWindow, btVars, replay
<1>2. CASE Iterate
  <2>1. EngineOK(engine')
    <3>1. engine' = FedEngine
      BY <1>2 DEF Iterate
    <3>2. EngineOK(FedEngine)
      <4>1. EngineOK(Fed(engine, "ext"))
        BY FedIsOK DEF MeanInv, BtInv, Venue
      <4> DEFINE f == Fed(engine, "ext")
      <4> HIDE DEF f
      <4>2. EngineOK(f) => EngineOK(Fed(f, "lt"))
        BY FedIsOK DEF BtInv, Venue
      <4>q. QED BY <4>1, <4>2 DEF FedEngine, f
    <3>q. QED BY <3>1, <3>2
  <2>2. UNCHANGED replay \/ Advance
    BY <1>2 DEF Iterate, Skip, Ask, Proceed
  <2>3. DumpsOK'
    <3>1. CASE UNCHANGED replay
      BY <3>1 DEF MeanInv, DumpsOK, replay
    <3>2. CASE ~UNCHANGED replay
      <4> DEFINE v == Turn
      <4>1. v \in Venue
        BY DEF Turn, Venue
      <4> HIDE DEF v
      <4>2. PICK t \in next[v], mid \in Mids[v], n \in {left[v] - 1} :
                /\ cur' = [cur EXCEPT ![v] = [ts |-> t, mid |-> mid]]
                /\ next' \in {[next EXCEPT ![v] = a] : a \in After(t, n)}
                /\ left' = [left EXCEPT ![v] = n]
        BY <2>2, <3>2 DEF Advance, v
      <4>3. PICK a \in After(t, n) : next' = [next EXCEPT ![v] = a]
        BY <4>2
      <4>4. n \in Nat /\ (a # {} => n > 0)
        <5>1. left[v] \in Nat /\ left[v] > 0
          BY <4>1, <4>2 DEF MeanInv, DumpsOK
        <5>2. a # {} => n # 0
          BY <4>3 DEF After
        <5>q. QED BY <5>1, <5>2
      <4>5. cur \in [Venue -> [ts : Nat, mid : Nat]] /\ next \in [Venue -> SUBSET Nat]
        BY DEF BtInv, CursorsOK
      <4>6. left \in [Venue -> Nat]
        BY DEF MeanInv, DumpsOK
      <4>7. \A u \in Venue : cur'[u] = IF u = v THEN [ts |-> t, mid |-> mid] ELSE cur[u]
        BY <4>2, <4>5
      <4>8. \A u \in Venue : next'[u] = IF u = v THEN a ELSE next[u]
        BY <4>3, <4>5
      <4>9. left' \in [Venue -> Nat]
            /\ \A u \in Venue : left'[u] = IF u = v THEN n ELSE left[u]
        BY <4>2, <4>4, <4>6
      <4>q. QED BY <4>2, <4>4, <4>7, <4>8, <4>9 DEF MeanInv, DumpsOK
    <3>q. QED BY <3>1, <3>2
  <2>q. QED BY <2>1, <2>3 DEF MeanInv
<1>q. QED BY <1>1, <1>2 DEF Over

\* For windows of every capacity: after any number of evictions the running sum
\* is that of the samples in the window, and the spread that of the newest, so
\* the deviation is taken from the mean of the window (spread.rs).
THEOREM BacktestMeanIsOfWindow == BacktestSpec => []MeanIsOfWindow
<1>1. BacktestInit => MeanInv
  BY MeanInit
<1>2. BtInv /\ MeanInv /\ [Iterate \/ Over]_btVars => MeanInv'
  BY MeanNext
<1>3. MeanInv => MeanIsOfWindow
  BY DEF MeanInv, EngineOK, OfWindow, MeanIsOfWindow, Total
<1>q. QED BY <1>1, <1>2, <1>3, BtInvariant, PTL DEF BacktestSpec

\* Cursors, engine and position keep their types and the window never holds more
\* samples than its capacity, for dumps of every length.
THEOREM BacktestTypeCorrect == BacktestSpec => []BacktestTypeOK
<1>1. BacktestInit => MeanInv
  BY MeanInit
<1>2. BtInv /\ MeanInv /\ [Iterate \/ Over]_btVars => MeanInv'
  BY MeanNext
<1>3. BtInv /\ MeanInv => BacktestTypeOK
  <2> SUFFICES ASSUME BtInv, MeanInv PROVE BacktestTypeOK
    OBVIOUS
  <2>1. \A v \in Venue : cur[v].ts \in Nat /\ cur[v].mid \in Mids[v] /\ left[v] \in Nat
    BY DEF BtInv, CursorsOK, MeanInv, DumpsOK
  <2>2. \A v \in Venue : \A t \in next[v] : t \in Nat /\ cur[v].ts <= t /\ t <= cur[v].ts + Gap
    BY <2>1 DEF BtInv, CursorsOK
  <2>3. /\ engine.window \in Seq(Int) /\ Len(engine.window) <= Capacity
        /\ engine.sum \in Int /\ engine.spread \subseteq Int
    BY DEF MeanInv, EngineOK, Engines
  <2>4. breach \subseteq [dir : Dir, at : Nat]
    BY DEF BtInv, BreachInRun, Breach
  <2>5. open \subseteq [dir : Dir, at : Nat, qty : Qty]
    BY DEF BtInv, LegAgrees, OpenLeg
  <2>6. machine \in Machine
    <3>1. Flat \in Machine
      BY DEF Flat, Machine, Phase
    <3>q. QED BY <3>1 DEF BtInv, LegAgrees, FullyHeld
  <2>7. run \in {"on", "done", "failed"} /\ seen \in Nat /\ runs \in [Dir -> SUBSET Nat]
    BY DEF BtInv, RunsOK
  <2>q. QED BY <2>1, <2>2, <2>3, <2>4, <2>5, <2>6, <2>7 DEF BacktestTypeOK
<1>q. QED BY <1>1, <1>2, <1>3, BtInvariant, PTL DEF BacktestSpec

\* A later time is in the same bucket or a later one.
LEMMA BucketGrows ==
    ASSUME NEW a \in Nat, NEW b \in Nat, a <= b
    PROVE  BucketOf(a) \in Int /\ BucketOf(b) \in Int /\ BucketOf(a) <= BucketOf(b)
<1> DEFINE c == Bucket
           q == a \div c
           r == b \div c
<1>1. c \in Nat \ {0}
  BY SpreadAssumption
<1> HIDE DEF c
<1>2. q \in Int /\ r \in Int /\ a % c \in 0..c - 1 /\ b % c \in 0..c - 1
  BY <1>1, SMT
<1>3. a = c * q + (a % c) /\ b = c * r + (b % c)
  BY <1>1, SMT
<1> HIDE DEF q, r
<1>4. r < q => c * r + c <= c * q
  <2> SUFFICES ASSUME r < q PROVE c * r + c <= c * q
    OBVIOUS
  <2>1. q - (r + 1) \in Nat
    BY <1>2
  <2>2. ASSUME NEW k \in Nat PROVE c * k >= 0
    BY <1>1, SMT
  <2>3. c * (q - (r + 1)) >= 0
    BY <2>1, <2>2
  <2>4. c * (q - (r + 1)) = c * q - (c * r + c)
    BY <1>1, <1>2, SMT
  <2>5. c * q \in Int /\ c * r \in Int
    BY <1>1, <1>2, SMT
  <2>q. QED BY <1>1, <2>3, <2>4, <2>5
<1> DEFINE m == c * q
           n == c * r
<1>5. m \in Int /\ n \in Int
  BY <1>1, <1>2, SMT
<1>6. q <= r
  <2>1. /\ a = m + (a % c) /\ b = n + (b % c)
        /\ r < q => n + c <= m
    BY <1>3, <1>4
  <2> HIDE DEF m, n
  <2>q. QED BY <1>1, <1>2, <1>5, <2>1
<1>7. q * c <= r * c /\ q * c \in Int /\ r * c \in Int
  <2>1. r - q \in Nat
    BY <1>2, <1>6
  <2>2. ASSUME NEW k \in Nat PROVE k * c >= 0
    BY <1>1, SMT
  <2>3. (r - q) * c >= 0
    BY <2>1, <2>2
  <2>4. (r - q) * c = r * c - q * c
    BY <1>1, <1>2, SMT
  <2>5. q * c \in Int /\ r * c \in Int
    BY <1>1, <1>2, SMT
  <2>q. QED BY <2>3, <2>4, <2>5
<1>q. QED BY <1>7 DEF BucketOf, q, r, c

\* The mids an engine remembers are of the record under the cursor or older.
Remembered(e, v) == \A x \in e[v] : x.bucket \in Int /\ x.bucket <= BucketOf(cur[v].ts)

StampsOK == \A v \in Venue : Remembered(engine, v)

\* What feeding a record does to the mids, and to the bucket of the last sample:
\* it moves only to the bucket of the record, which the other mid is in.
LEMMA FedStamps ==
    ASSUME NEW e, EngineShape(e), NEW v \in Venue, CursorsOK, \A u \in Venue : Remembered(e, u)
    PROVE  /\ \A u \in Venue : Remembered(Fed(e, v), u)
           /\ Fed(e, v).last # e.last =>
                /\ Fed(e, v).last = {BucketOf(cur[v].ts)}
                /\ \A u \in Venue \ {v} : BucketOf(cur[v].ts) <= BucketOf(cur[u].ts)
<1> DEFINE b == BucketOf(cur[v].ts)
           f == [e EXCEPT ![v] = {[bucket |-> b, mid |-> cur[v].mid]}]
<1>1. b \in Int
  BY BucketGrows DEF CursorsOK
<1> HIDE DEF b
<1>2. /\ EngineShape(f) /\ f.last = e.last /\ \A u \in Venue \ {v} : f[u] = e[u]
      /\ f[v] = {[bucket |-> b, mid |-> cur[v].mid]}
  BY DEF EngineShape, Venue
<1>3. \A u \in Venue : Remembered(f, u)
  <2> HIDE DEF f
  <2>q. QED BY <1>1, <1>2 DEF Remembered, b
<1> HIDE DEF f
<1>4. ASSUME NEW s
      PROVE  LET g == [Push(f, s) EXCEPT !.spread = {s}, !.last = {b}]
             IN  g.last = {b} /\ g.ext = f.ext /\ g.lt = f.lt
  BY <1>2 DEF EngineShape, Push
<1>5. MaybeCommit(f, b) # f =>
        /\ MaybeCommit(f, b).last = {b} /\ \E s : s \in SampleOf(f, b)
        /\ \A u \in Venue : MaybeCommit(f, b)[u] = f[u]
  <2> SUFFICES ASSUME MaybeCommit(f, b) # f
               PROVE  /\ MaybeCommit(f, b).last = {b} /\ \E s : s \in SampleOf(f, b)
                      /\ \A u \in Venue : MaybeCommit(f, b)[u] = f[u]
    OBVIOUS
  <2> DEFINE s == CHOOSE x \in SampleOf(f, b) : TRUE
  <2>1. \E x \in SampleOf(f, b) : Credible(x)
        /\ MaybeCommit(f, b) = [Push(f, s) EXCEPT !.spread = {s}, !.last = {b}]
    BY DEF MaybeCommit
  <2> HIDE DEF s
  <2>q. QED BY <1>4, <2>1 DEF Venue
<1>6. (\E s : s \in SampleOf(f, b)) => \A u \in Venue : \E x \in f[u] : x.bucket = b
  BY DEF SampleOf, Venue
<1>7. Fed(e, v) = IF cur[v].mid > 0 THEN MaybeCommit(f, b) ELSE e
  BY DEF Fed, Update, f, b
<1>8. \A u \in Venue : Remembered(MaybeCommit(f, b), u)
  BY <1>3, <1>5 DEF Remembered
<1>9. MaybeCommit(f, b).last # e.last =>
        MaybeCommit(f, b).last = {b} /\ \A u \in Venue : b <= BucketOf(cur[u].ts)
  BY <1>2, <1>3, <1>5, <1>6 DEF Remembered
<1>q. QED BY <1>7, <1>8, <1>9 DEF b

\* Both records: the last sample is then of the bucket the older one is in.
LEMMA FedEngineStamps ==
    ASSUME EngineShape(engine), CursorsOK, StampsOK
    PROVE  /\ \A u \in Venue : Remembered(FedEngine, u)
           /\ FedEngine.last # engine.last => FedEngine.last = {BucketOf(AlignedTs)}
<1> DEFINE f == Fed(engine, "ext")
           x == cur["ext"].ts
           y == cur["lt"].ts
<1>1. x \in Nat /\ y \in Nat /\ AlignedTs = IF x <= y THEN x ELSE y
  BY DEF CursorsOK, AlignedTs, Venue
<1>2. /\ EngineShape(f) /\ \A u \in Venue : Remembered(f, u)
      /\ f.last # engine.last => f.last = {BucketOf(x)} /\ BucketOf(x) <= BucketOf(y)
  BY FedFacts, FedStamps DEF StampsOK, Venue
<1> HIDE DEF f
<1>3. /\ \A u \in Venue : Remembered(Fed(f, "lt"), u)
      /\ Fed(f, "lt").last # f.last =>
           Fed(f, "lt").last = {BucketOf(y)} /\ BucketOf(y) <= BucketOf(x)
  BY <1>2, FedStamps DEF Venue
<1>4. FedEngine = Fed(f, "lt")
  BY DEF FedEngine, f
<1> HIDE DEF x, y
<1>5. /\ x <= y => BucketOf(x) <= BucketOf(y)
      /\ y <= x => BucketOf(y) <= BucketOf(x)
      /\ BucketOf(x) \in Int /\ BucketOf(y) \in Int
  BY <1>1, BucketGrows
<1>6. /\ BucketOf(x) <= BucketOf(y) => BucketOf(AlignedTs) = BucketOf(x)
      /\ BucketOf(y) <= BucketOf(x) => BucketOf(AlignedTs) = BucketOf(y)
  <2>1. CASE x <= y
    BY <1>1, <1>5, <2>1
  <2>2. CASE ~(x <= y)
    BY <1>1, <1>5, <2>2
  <2>q. QED BY <2>1, <2>2
<1>q. QED BY <1>2, <1>3, <1>4, <1>6

\* A position is only opened on a sample of the bucket the decision clock is in,
\* so never on a mid that has been overtaken (bt.rs:461-469, spread.rs).
THEOREM BacktestOpensOnFreshPair == BacktestSpec => OpensOnFreshPair
<1> DEFINE Opens == \A p \in open' : open = {} => engine'.last = {BucketOf(p.at)}
<1>1. BacktestInit => StampsOK
  BY DEF BacktestInit, NewEngine, StampsOK, Remembered, Venue
<1>2. ASSUME BtInv, StampsOK, Iterate
      PROVE  StampsOK' /\ Opens
  <2>1. /\ engine' = FedEngine /\ \A u \in Venue : Remembered(FedEngine, u)
        /\ FedEngine.last # engine.last => FedEngine.last = {BucketOf(AlignedTs)}
    BY <1>2, FedEngineStamps DEF BtInv, Iterate
  <2>2. ASSUME NEW u \in Venue PROVE Remembered(engine, u)'
    <3>1. cur[u].ts \in Nat /\ cur'[u].ts \in Nat /\ cur[u].ts <= cur'[u].ts
      <4>1. cur \in [Venue -> [ts : Nat, mid : Nat]]
        BY <1>2 DEF BtInv, CursorsOK
      <4>2. UNCHANGED replay \/ Advance
        BY <1>2 DEF Iterate, Skip, Ask, Proceed
      <4>3. CASE UNCHANGED replay
        BY <4>1, <4>3 DEF replay
      <4>4. CASE ~UNCHANGED replay
        <5> DEFINE v == Turn
        <5>1. v \in Venue
          BY DEF Turn, Venue
        <5> HIDE DEF v
        <5>2. PICK t \in next[v], mid \in Mids[v] :
                  cur' = [cur EXCEPT ![v] = [ts |-> t, mid |-> mid]]
          BY <4>2, <4>4 DEF Advance, v
        <5>3. t \in Nat /\ cur[v].ts < t
          BY <1>2, <5>1 DEF BtInv, CursorsOK
        <5>4. cur'[u] = IF u = v THEN [ts |-> t, mid |-> mid] ELSE cur[u]
          BY <4>1, <5>1, <5>2
        <5>5. cur[u].ts \in Nat
          BY <4>1
        <5>q. QED BY <5>3, <5>4, <5>5
      <4>q. QED BY <4>3, <4>4
    <3>2. BucketOf(cur[u].ts) <= BucketOf(cur'[u].ts)
          /\ BucketOf(cur[u].ts) \in Int /\ BucketOf(cur'[u].ts) \in Int
      BY <3>1, BucketGrows
    <3>q. QED BY <2>1, <3>2 DEF Remembered
  <2>3. ASSUME open = {}, NEW p \in open' PROVE engine'.last = {BucketOf(p.at)}
    <3>1. FedEngine.last # engine.last
      <4>1. Position0 = {}
        BY <2>3 DEF Position0
      <4>2. Asked(FedEngine)
        BY <1>2, <2>3 DEF Iterate, Skip
      <4>q. QED BY <4>1, <4>2 DEF Asked, Committed
    <3>2. p.at = AlignedTs
      <4>1. StepIs
        BY <1>2, BtStep
      <4>q. QED BY <2>3, <4>1 DEF StepIs
    <3>q. QED BY <2>1, <3>1, <3>2
  <2>q. QED BY <2>2, <2>3 DEF StampsOK
<1>3. StampsOK /\ UNCHANGED btVars => StampsOK'
  BY DEF StampsOK, Remembered, btVars, replay
<1>4. BtInv /\ StampsOK /\ [Iterate \/ Over]_btVars => StampsOK' /\ [Opens]_btVars
  BY <1>2, <1>3 DEF Over
<1>q. QED BY <1>1, <1>4, BtInvariant, PTL DEF BacktestSpec, OpensOnFreshPair
=============================================================================

---------------------------- MODULE SignalProofs ----------------------------
(* What decide returns, for every threshold, time and market: at most one     *)
(* breach is kept, an entry rests on a breach that lasted, and a position is   *)
(* kept only while it may be.  Stated of the operators alone, for whoever      *)
(* drives them.                                                               *)
EXTENDS Signal, TLAPS

Breach == [dir : Dir, at : Nat]

\* At most one breach, begun no later than t.
BreachAt(br, t) == br = {} \/ \E b \in Breach : br = {b} /\ b.at <= t

\* d is past the threshold and not past the stop.
EntersOn(dev, d) == Past(dev, d, Threshold) /\ ~Past(dev, d, ForceClose)

\* The breach after a look that does not enter.
Waits(br, t, dev, v) ==
    /\ v.out = Hold
    /\ \/ v.breach = {}
       \/ \E d \in Dir : /\ EntersOn(dev, d)
                         /\ \/ v.breach = {[dir |-> d, at |-> t]}
                            \/ v.breach = br /\ \E b \in br : b.dir = d

\* An entry: in d, on a breach that began at a.
Fires(br, t, dev, v) ==
    /\ v.breach = {}
    /\ \E d \in Dir, a \in Nat :
        /\ v.out = Enter(d) /\ t - a >= Persist
        /\ \/ EntersOn(dev, d) /\ (a = t \/ \E b \in br : b.dir = d /\ b.at = a)
           \/ ~CheckAtFire /\ \E b \in br : b.dir = d /\ b.at = a

LEMMA MinusIsDifference ==
    ASSUME NEW a \in Nat, NEW b \in Nat, b <= a
    PROVE  Minus(a, b) = a - b /\ Minus(a, b) \in Nat
BY DEF Minus

LEMMA ConstantsAreNat ==
    /\ Threshold \in Nat /\ ForceClose \in Nat /\ Persist \in Nat /\ MaxHold \in Nat
    /\ Cycle \in Nat /\ Pre \in Nat /\ Post \in Nat
    /\ CheckAtFire \in BOOLEAN /\ (Cycle > 0 => MaxHold <= Pre)
BY SignalAssumption

\* decide_entry keeps or restarts the one breach, or fires on one that lasted.
LEMMA EntryFacts ==
    ASSUME NEW br, NEW t \in Nat, NEW dev, BreachAt(br, t)
    PROVE  LET v == DecideEntry(br, t, dev) IN Waits(br, t, dev, v) \/ Fires(br, t, dev, v)
<1> DEFINE ripe    == {b \in br : ~CheckAtFire /\ Matured(b, t)}
           dirs    == {d \in Breached(dev) : ~Past(dev, d, ForceClose)}
           breach1 == UNION {Continues(br, d, t) : d \in dirs}
           matured == IF ripe # {} THEN ripe ELSE {b \in breach1 : Matured(b, t)}
           v       == DecideEntry(br, t, dev)
<1>1. br = {} \/ \E b \in Breach : br = {b} /\ b.at <= t
  BY DEF BreachAt
<1>2. v = IF matured # {}
          THEN [breach |-> {}, out |-> Enter((CHOOSE b \in matured : TRUE).dir)]
          ELSE [breach |-> breach1, out |-> Hold]
  BY DEF DecideEntry
<1>3. \/ dirs = {} /\ breach1 = {}
      \/ \E d \in Dir : EntersOn(dev, d) /\ dirs = {d} /\ breach1 = Continues(br, d, t)
  <2>1. dirs = {} \/ \E d \in Dir : EntersOn(dev, d) /\ dirs = {d}
    BY DEF Breached, EntersOn, Dir
  <2>2. ASSUME NEW d, dirs = {d} PROVE breach1 = Continues(br, d, t)
    BY <2>2
  <2>3. dirs = {} => breach1 = {}
    OBVIOUS
  <2>q. QED BY <2>1, <2>2, <2>3
<1>4. ASSUME NEW d \in Dir
      PROVE  \/ Continues(br, d, t) = br /\ \E b \in Breach : br = {b} /\ b.dir = d
             \/ Continues(br, d, t) = {[dir |-> d, at |-> t]}
  BY <1>1 DEF Continues
<1>5. ASSUME NEW b \in Breach, b.at <= t, Matured(b, t) PROVE t - b.at >= Persist
  BY <1>5, MinusIsDifference DEF Matured, Breach
<1>6. CASE ripe # {}
  <2>1. PICK b \in Breach : br = {b} /\ b.at <= t
    BY <1>1, <1>6
  <2>2. ripe = {b} /\ ~CheckAtFire /\ Matured(b, t)
    BY <2>1, <1>6
  <2>3. v = [breach |-> {}, out |-> Enter(b.dir)]
    BY <1>2, <1>6, <2>2
  <2>4. t - b.at >= Persist /\ b.dir \in Dir /\ b.at \in Nat
    BY <1>5, <2>1, <2>2 DEF Breach
  <2>5. v.breach = {} /\ v.out = Enter(b.dir)
    BY <2>3
  <2>6. \E x \in br : x.dir = b.dir /\ x.at = b.at
    BY <2>1
  <2>7. Fires(br, t, dev, v)
    BY <2>2, <2>4, <2>5, <2>6, Zenon DEF Fires
  <2>q. QED BY <2>7
<1>7. CASE ripe = {} /\ matured = {}
  <2>1. v = [breach |-> breach1, out |-> Hold]
    BY <1>2, <1>7
  <2>2. \/ v.breach = {}
        \/ \E d \in Dir : /\ EntersOn(dev, d)
                          /\ \/ v.breach = {[dir |-> d, at |-> t]}
                             \/ v.breach = br /\ \E b \in br : b.dir = d
    BY <1>3, <1>4, <2>1
  <2>q. QED BY <2>1, <2>2 DEF Waits
<1>8. CASE ripe = {} /\ matured # {}
  <2>1. matured = {b \in breach1 : Matured(b, t)} /\ breach1 # {}
    BY <1>8
  <2>2. PICK d \in Dir : EntersOn(dev, d) /\ breach1 = Continues(br, d, t)
    BY <1>3, <2>1
  <2>3. PICK b \in Breach : /\ breach1 = {b} /\ b.dir = d /\ b.at <= t
                            /\ b.at = t \/ \E x \in br : x.dir = d /\ x.at = b.at
    <3>0. \/ Continues(br, d, t) = br /\ \E b \in Breach : br = {b} /\ b.dir = d
          \/ Continues(br, d, t) = {[dir |-> d, at |-> t]}
      BY <1>4, <2>2
    <3>1. CASE Continues(br, d, t) = br /\ \E b \in Breach : br = {b} /\ b.dir = d
      BY <3>1, <1>1, <2>2
    <3>2. CASE Continues(br, d, t) = {[dir |-> d, at |-> t]}
      <4> DEFINE n == [dir |-> d, at |-> t]
      <4>1. n \in Breach /\ n.dir = d /\ n.at = t /\ n.at <= t
        BY DEF Breach
      <4>2. breach1 = {n}
        BY <3>2, <2>2
      <4>q. QED BY <4>1, <4>2, Zenon
    <3>q. QED BY <3>0, <3>1, <3>2
  <2>4. matured = {b} /\ Matured(b, t)
    BY <2>1, <2>3, <1>8
  <2>5. v = [breach |-> {}, out |-> Enter(d)]
    BY <1>2, <1>8, <2>3, <2>4
  <2>6. t - b.at >= Persist /\ b.at \in Nat
    BY <1>5, <2>3, <2>4 DEF Breach
  <2>7. v.breach = {} /\ v.out = Enter(d)
    BY <2>5
  <2>8. EntersOn(dev, d) /\ (b.at = t \/ \E x \in br : x.dir = d /\ x.at = b.at)
    BY <2>2, <2>3
  <2>9. Fires(br, t, dev, v)
    BY <2>6, <2>7, <2>8, Zenon DEF Fires
  <2>q. QED BY <2>9
<1>q. QED BY <1>6, <1>7, <1>8

\* decide_exit holds on only within the maximum hold time.
LEMMA ExitFacts ==
    ASSUME NEW t \in Nat, NEW dev, NEW p, p.at \in Nat, p.at <= t
    PROVE  \/ \E r \in {"ForceClose", "MeanCross", "MaxHold"} : DecideExit(t, dev, p) = Exit(r)
           \/ DecideExit(t, dev, p) = Hold /\ t - p.at < MaxHold
<1>1. Minus(t, p.at) = t - p.at
  BY MinusIsDifference
<1>2. CASE Past(dev, p.dir, ForceClose)
  BY <1>2 DEF DecideExit
<1>3. CASE ~Past(dev, p.dir, ForceClose) /\ MeanCross /\ Side(dev, p.dir) <= 0
  BY <1>3 DEF DecideExit
<1>4. CASE /\ ~Past(dev, p.dir, ForceClose) /\ ~(MeanCross /\ Side(dev, p.dir) <= 0)
           /\ t - p.at >= MaxHold
  BY <1>1, <1>4 DEF DecideExit
<1>5. CASE /\ ~Past(dev, p.dir, ForceClose) /\ ~(MeanCross /\ Side(dev, p.dir) <= 0)
           /\ ~(t - p.at >= MaxHold)
  <2>1. DecideExit(t, dev, p) = Hold
    BY <1>1, <1>5 DEF DecideExit
  <2>q. QED BY <2>1, <1>5, ConstantsAreNat
<1>q. QED BY <1>2, <1>3, <1>4, <1>5

\* decide, with no position: nothing enters cold or in the lockout.
LEMMA DecideFlatFacts ==
    ASSUME NEW br, NEW t \in Nat, NEW devs, NEW warm \in BOOLEAN, BreachAt(br, t)
    PROVE  LET v == Decide(br, t, devs, warm, {}) IN
           \/ devs = {} /\ v = [breach |-> br, out |-> Hold]
           \/ devs # {} /\ (~warm \/ InFundingLockout(t)) /\ v = [breach |-> {}, out |-> Hold]
           \/ /\ devs # {} /\ warm /\ ~InFundingLockout(t)
              /\ \E dev \in devs : Waits(br, t, dev, v) \/ Fires(br, t, dev, v)
<1> DEFINE dev == CHOOSE x \in devs : TRUE
           v   == Decide(br, t, devs, warm, {})
<1>1. CASE devs = {}
  BY <1>1 DEF Decide
<1>2. CASE devs # {} /\ (~warm \/ InFundingLockout(t))
  BY <1>2 DEF Decide
<1>3. CASE devs # {} /\ warm /\ ~InFundingLockout(t)
  <2>1. v = DecideEntry(br, t, dev) /\ dev \in devs
    BY <1>3 DEF Decide
  <2>2. Waits(br, t, dev, v) \/ Fires(br, t, dev, v)
    BY <2>1, EntryFacts
  <2>q. QED BY <1>3, <2>1, <2>2
<1>q. QED BY <1>1, <1>2, <1>3

\* decide, holding p: the breach is dropped and p may be exited.
LEMMA DecideHeldFacts ==
    ASSUME NEW br, NEW t \in Nat, NEW devs, devs # {}, NEW warm,
           NEW p, p.at \in Nat, p.at <= t
    PROVE  LET v == Decide(br, t, devs, warm, {p}) IN
           /\ v.breach = {}
           /\ \/ \E r \in {"ForceClose", "MeanCross", "MaxHold"} : v.out = Exit(r)
              \/ v.out = Hold /\ t - p.at < MaxHold
<1> DEFINE dev == CHOOSE x \in devs : TRUE
           v   == Decide(br, t, devs, warm, {p})
<1>1. (CHOOSE x \in {p} : TRUE) = p
  OBVIOUS
<1>2. v = [breach |-> {}, out |-> DecideExit(t, dev, p)]
  BY <1>1 DEF Decide
<1>q. QED BY <1>2, ExitFacts
=============================================================================

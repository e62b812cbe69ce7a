--------------------------- MODULE LiveTickProofs ---------------------------
(* Theorems about the tick of the live runner, for every configuration, every *)
(* market and any number of ticks.                                            *)
EXTENDS LiveTick, SignalProofs, PositionMachineProofs, FiniteSetTheorems

\* On paper the machine is flat, or holds what open_qty says on both legs.
OnPaper(m, q) ==
    \/ m.phase = "Flat" /\ q = {}
    \/ \E a \in Qty : /\ m.phase = "Held" /\ q = {a}
                      /\ \A l \in Leg : m.position.open[l] = a

\* The machine and open_qty after any handler.
Good(m, q) ==
    /\ Sound(m) /\ (q = {} \/ \E a \in Qty : q = {a})
    /\ dry => OnPaper(m, q)

Exits(m) == m.phase \in {"Exiting", "EmergencyFlattening"}

\* Recording an exit fill of any size is accepted and keeps the machine sound;
\* one that leaves something open, or in an emergency, stays in the phase.
LEMMA ExitFillFacts ==
    ASSUME NEW m, Sound(m), Exits(m), NEW l \in Leg, NEW q \in Nat
    PROVE  /\ Sound(Apply(m, ExitFilled(l, q)))
           /\ Apply(m, ExitFilled(l, q)) \in {Flat, At(m.phase, Drained(m.position, l, q))}
           /\ m.phase = "EmergencyFlattening" \/ ~NoneOpen(Drained(m.position, l, q)) =>
                 Apply(m, ExitFilled(l, q)) = At(m.phase, Drained(m.position, l, q))
<1> DEFINE p == m.position
           d == Drained(p, l, q)
           x == Apply(m, ExitFilled(l, q))
<1>1. p \in Position
  BY BusyHasPosition DEF Exits
<1>2. d \in Position
  BY <1>1, DrainedShrinks
<1>3. x = OnExitFilled(m.phase, p, l, q)
  BY DEF Apply, ExitFilled, Accepts, Exits
<1>4. x = Flat \/ x = At(m.phase, d)
  BY <1>3 DEF OnExitFilled
<1>5. Sound(Flat)
  BY MachineAssumption DEF Sound, Flat, Machine, Phase, CheckInvariants
<1>6. Sound(At(m.phase, d))
  <2>1. d # None
    BY <1>2, MachineAssumption
  <2> HIDE DEF d
  <2>2. m.phase \in Phase /\ m.phase \in {"Exiting", "EmergencyFlattening"}
    BY DEF Exits, Phase
  <2>q. QED BY <1>2, <2>1, <2>2 DEF Sound, At, Machine, CheckInvariants
<1>q. QED BY <1>3, <1>4, <1>5, <1>6 DEF OnExitFilled, Exits

\* An accepted event leaves one machine.
LEMMA ThenOne ==
    ASSUME NEW m, NEW e, m.phase \in Accepts[e.kind]
    PROVE  Then({m}, e) = {Apply(m, e)}
BY DEF Then

LEMMA FlatIsSound == Sound(Flat) /\ Flat.phase = "Flat"
BY MachineAssumption DEF Sound, Flat, Machine, Phase, CheckInvariants

\* The arms of apply a tick goes through.
LEMMA Arms ==
    ASSUME NEW m
    PROVE  /\ m.phase = "Flat" => Apply(m, EntrySignal) = At("EnteringExtended", Fresh)
           /\ m.phase = "EnteringExtended" =>
                 \A q : Apply(m, ExtendedFilled(q)) = OnExtendedFilled(m.position, q)
           /\ m.phase = "EnteringLighter" =>
                 \A q : Apply(m, LighterFilled(q)) = OnLighterFilled(m.position, q)
           /\ m.phase = "Held" => \A r : Apply(m, ExitSignal(r)) =
                                      At("Exiting", [m.position EXCEPT !.exitReason = r])
           /\ m.phase \in {"Held", "Exiting"} =>
                 \A r : Apply(m, Emergency(r)) = Flattening(m.position, r)
           /\ m.phase = "EmergencyFlattening" => Apply(m, EmergencyComplete) = Flat
<1>1. m.phase = "Flat" => Apply(m, EntrySignal) = At("EnteringExtended", Fresh)
  BY DEF Apply, Accepts, EntrySignal
<1>2. m.phase = "EnteringExtended" =>
          \A q : Apply(m, ExtendedFilled(q)) = OnExtendedFilled(m.position, q)
  BY DEF Apply, Accepts, ExtendedFilled
<1>3. m.phase = "EnteringLighter" =>
          \A q : Apply(m, LighterFilled(q)) = OnLighterFilled(m.position, q)
  BY DEF Apply, Accepts, LighterFilled
<1>4. m.phase = "Held" => \A r : Apply(m, ExitSignal(r)) =
                              At("Exiting", [m.position EXCEPT !.exitReason = r])
  BY DEF Apply, Accepts, ExitSignal
<1>5. m.phase \in {"Held", "Exiting"} =>
          \A r : Apply(m, Emergency(r)) = Flattening(m.position, r)
  BY DEF Apply, Accepts, Emergency
<1>6. m.phase = "EmergencyFlattening" => Apply(m, EmergencyComplete) = Flat
  BY DEF Apply, Accepts, EmergencyComplete
<1>q. QED BY <1>1, <1>2, <1>3, <1>4, <1>5, <1>6

\* The two orders of an entry, one after the other.
LEMMA EntryPath ==
    ASSUME NEW m, Sound(m), m.phase = "Flat", NEW q \in Qty
    PROVE  \E x : /\ Entering(m, q) = {x} /\ Sound(x) /\ x.phase = "EnteringLighter"
                  /\ x.position.open["ext"] = q /\ x.position.open["lt"] = 0
<1> DEFINE a == Apply(m, EntrySignal)
           x == Apply(a, ExtendedFilled(q))
<1>0. q \in Nat
  BY QtyIsPositive
<1>1. Then({m}, EntrySignal) = {a} /\ a = At("EnteringExtended", Fresh)
  BY Arms, ThenOne DEF Accepts, EntrySignal
<1>2. Sound(a)
  BY ApplyKeepsSound, ConstructorsAreEvents DEF EventConstructors, RunnerEvent
<1>3. x = At("EnteringLighter", Opened(Fresh, "ext", q))
  BY <1>1, Arms DEF At, OnExtendedFilled
<1>4. Sound(x)
  <2> HIDE DEF a
  <2>q. QED BY <1>2, ApplyKeepsSound, ConstructorsAreEvents DEF EventConstructors, RunnerEvent
<1>5. Then({a}, ExtendedFilled(q)) = {x}
  BY <1>1, ThenOne DEF Accepts, ExtendedFilled, At
<1>6. Fresh \in Position /\ Fresh.open = [l \in Leg |-> 0]
  BY DEF Fresh, Position
<1>7. OpenedPost(Fresh, "ext", q)
  BY <1>0, <1>6, OpenedGrows DEF Leg
<1>8. x.position.open["ext"] = q /\ x.position.open["lt"] = 0 /\ x.phase = "EnteringLighter"
  BY <1>0, <1>3, <1>6, <1>7 DEF OpenedPost, Leg, At
<1>q. QED BY <1>1, <1>4, <1>5, <1>8 DEF Entering

\* ... of which the second fills the Lighter leg, and the position is held.
LEMMA EntryFill ==
    ASSUME NEW m, Sound(m), m.phase = "Flat", NEW q \in Qty, NEW r \in Qty
    PROVE  \E x : /\ Then(Entering(m, q), LighterFilled(r)) = {x} /\ Sound(x)
                  /\ x.phase = "Held"
                  /\ x.position.open["ext"] = q /\ x.position.open["lt"] = r
<1>1. PICK y : /\ Entering(m, q) = {y} /\ Sound(y) /\ y.phase = "EnteringLighter"
               /\ y.position.open["ext"] = q /\ y.position.open["lt"] = 0
  BY EntryPath
<1> DEFINE x == Apply(y, LighterFilled(r))
           b == Opened(y.position, "lt", r)
<1>2. Then({y}, LighterFilled(r)) = {x}
  BY <1>1, ThenOne DEF Accepts, LighterFilled
<1>3. Sound(x)
  BY <1>1, ApplyKeepsSound, ConstructorsAreEvents DEF EventConstructors, RunnerEvent
<1>4. x = At("Held", [b EXCEPT !.fullyFilled = TRUE])
  BY <1>1, Arms DEF OnLighterFilled
<1>5. y.position \in Position /\ r \in Nat
  BY <1>1, BusyHasPosition, QtyIsPositive
<1>6. OpenedPost(y.position, "lt", r)
  BY <1>5, OpenedGrows DEF Leg
<1>7. b \in Position /\ b.open["ext"] = q /\ b.open["lt"] = r
  BY <1>1, <1>5, <1>6 DEF OpenedPost, Leg
<1> HIDE DEF b, x
<1>8. [b EXCEPT !.fullyFilled = TRUE].open = b.open
  BY <1>7 DEF Position
<1>9. x.phase = "Held" /\ x.position.open = b.open
  BY <1>4, <1>8 DEF At
<1>q. QED BY <1>1, <1>2, <1>3, <1>7, <1>9

\* Every outcome of an entry is accepted by the machine.
LEMMA EnterFacts ==
    ASSUME NEW m, Good(m, openQty), m.phase = "Flat", NEW o \in EnterOutcomes(m)
    PROVE  \E x : o.ms = {x} /\ Good(x, o.qty)
<1>1. Sound(m) /\ (openQty = {} \/ \E a \in Qty : openQty = {a})
  BY DEF Good
<1>2. CASE o = [ms |-> {m}, qty |-> openQty]
  BY <1>2
<1>3. ASSUME dry, NEW q \in Qty, o = [ms |-> Then(Entering(m, q), LighterFilled(q)), qty |-> {q}]
      PROVE  \E x : o.ms = {x} /\ Good(x, o.qty)
  <2>1. PICK x : /\ Then(Entering(m, q), LighterFilled(q)) = {x} /\ Sound(x)
                 /\ x.phase = "Held"
                 /\ x.position.open["ext"] = q /\ x.position.open["lt"] = q
    BY <1>1, EntryFill
  <2>2. Good(x, {q})
    BY <2>1 DEF Good, OnPaper, Leg
  <2>q. QED BY <1>3, <2>1, <2>2
<1>4. ASSUME ~dry, o = [ms |-> Then(Then({m}, EntrySignal), ExtendedFailed), qty |-> openQty]
      PROVE  \E x : o.ms = {x} /\ Good(x, o.qty)
  <2> DEFINE a == Apply(m, EntrySignal)
             x == Apply(a, ExtendedFailed)
  <2>1. Then({m}, EntrySignal) = {a} /\ a = At("EnteringExtended", Fresh) /\ a.phase = "EnteringExtended"
    BY Arms, ThenOne DEF Accepts, EntrySignal, At
  <2>2. Sound(a)
    BY <1>1, ApplyKeepsSound, ConstructorsAreEvents DEF EventConstructors, RunnerEvent
  <2> HIDE DEF a
  <2>3. Then({a}, ExtendedFailed) = {x} /\ Sound(x)
    BY <2>1, <2>2, ThenOne, ApplyKeepsSound, ConstructorsAreEvents
       DEF EventConstructors, RunnerEvent, Accepts, ExtendedFailed
  <2>q. QED BY <1>1, <1>4, <2>1, <2>3 DEF Good
<1>5. ASSUME ~dry, NEW q \in Qty, o = [ms |-> Then(Entering(m, q), LighterFailed), qty |-> openQty]
      PROVE  \E x : o.ms = {x} /\ Good(x, o.qty)
  <2>1. PICK y : Entering(m, q) = {y} /\ Sound(y) /\ y.phase = "EnteringLighter"
    BY <1>1, EntryPath
  <2> DEFINE x == Apply(y, LighterFailed)
  <2>2. Then({y}, LighterFailed) = {x} /\ Sound(x)
    BY <2>1, ThenOne, ApplyKeepsSound, ConstructorsAreEvents
       DEF EventConstructors, RunnerEvent, Accepts, LighterFailed
  <2>q. QED BY <1>1, <1>5, <2>1, <2>2 DEF Good
<1>6. ASSUME ~dry, NEW q \in Qty, NEW r \in Qty,
             o = [ms |-> Then(Entering(m, q), LighterFilled(r)), qty |-> {r}]
      PROVE  \E x : o.ms = {x} /\ Good(x, o.qty)
  <2>1. PICK x : Then(Entering(m, q), LighterFilled(r)) = {x} /\ Sound(x)
    BY <1>1, EntryFill
  <2>q. QED BY <1>6, <2>1 DEF Good
<1>q. QED BY <1>2, <1>3, <1>4, <1>5, <1>6 DEF EnterOutcomes

\* A leg that reports nothing is not recorded.
LEMMA FilledFacts ==
    ASSUME NEW m, Sound(m), Exits(m), NEW l \in Leg, NEW q \in Nat
    PROVE  /\ q = 0 => Filled({m}, l, q) = {m}
           /\ q > 0 => Filled({m}, l, q) = {Apply(m, ExitFilled(l, q))}
BY ThenOne DEF Filled, Exits, Accepts, ExitFilled

Rest(a, q) == IF a > q THEN a - q ELSE 0

\* Leg l closed by q in Exiting leaves x: flat once nothing is open.
FillPost(m, l, k, q, x) ==
    /\ Filled({m}, l, q) = {x} /\ Sound(x) /\ x.phase \in {"Exiting", "Flat"}
    /\ q = 0 => x = m
    /\ m.position.open[k] > 0 =>
          /\ x.phase = "Exiting" /\ x.position.open[k] = m.position.open[k]
          /\ x.position.open[l] = Rest(m.position.open[l], q)
    /\ m.position.open[k] = 0 /\ q > 0 /\ m.position.open[l] <= q => x.phase = "Flat"

LEMMA OneFill ==
    ASSUME NEW m, Sound(m), m.phase = "Exiting", NEW l \in Leg, NEW k \in Leg, l # k, NEW q \in Nat
    PROVE  \E x : FillPost(m, l, k, q, x)
<1> DEFINE p == m.position
           d == Drained(p, l, q)
           y == Apply(m, ExitFilled(l, q))
<1>1. Exits(m) /\ p \in Position /\ Leg = {l, k}
  BY BusyHasPosition DEF Exits, Leg
<1>2. p.open \in [Leg -> Nat] /\ p.open[l] \in Nat /\ p.open[k] \in Nat
  BY <1>1 DEF Position
<1>3. CASE q = 0
  <2>1. Filled({m}, l, q) = {m}
    BY <1>1, <1>3, FilledFacts
  <2>2. p.open[l] = Rest(p.open[l], q)
    BY <1>2, <1>3 DEF Rest
  <2>q. QED BY <1>3, <2>1, <2>2 DEF FillPost
<1>4. CASE q > 0
  <2>1. Filled({m}, l, q) = {y}
    BY <1>1, <1>4, FilledFacts
  <2>2. d \in Position /\ d.open[k] = p.open[k] /\ d.open[l] = Rest(p.open[l], q)
    BY <1>1, DrainedShrinks DEF Drained, Position, Rest
  <2>3. Sound(y) /\ (~NoneOpen(d) => y = At("Exiting", d))
    BY <1>1, ExitFillFacts
  <2>4. NoneOpen(d) => y = Flat
    BY <1>1 DEF Apply, ExitFilled, Accepts, Exits, OnExitFilled
  <2> HIDE DEF d, y
  <2>5. NoneOpen(d) <=> p.open[k] = 0 /\ p.open[l] <= q
    BY <1>1, <1>2, <2>2 DEF NoneOpen, Rest
  <2>6. p.open[k] > 0 => /\ y.phase = "Exiting" /\ y.position.open[k] = p.open[k]
                         /\ y.position.open[l] = Rest(p.open[l], q)
    BY <1>2, <2>2, <2>3, <2>5 DEF At
  <2>7. /\ y.phase \in {"Exiting", "Flat"}
        /\ p.open[k] = 0 /\ q > 0 /\ p.open[l] <= q => y.phase = "Flat"
    BY <1>2, <2>3, <2>4, <2>5 DEF At, Flat
  <2>8. q # 0
    BY <1>4
  <2>q. QED BY <2>1, <2>3, <2>6, <2>7, <2>8, Zenon DEF FillPost
<1>q. QED BY <1>3, <1>4

Drained2(m, r, e, l) == Filled(Filled(Then({m}, ExitSignal(r)), "ext", e), "lt", l)

\* An exit leaves x: with a leg that reports nothing, or with both legs in full.
ExitPost(m, r, e, l, x) ==
    /\ Drained2(m, r, e, l) = {x} /\ Sound(x) /\ x.phase \in {"Exiting", "Flat"}
    /\ e = 0 \/ l = 0 => x.phase = "Exiting"
    /\ m.position.open["ext"] = e /\ m.position.open["lt"] = l => x.phase = "Flat"

LEMMA ExitPath ==
    ASSUME NEW m, Sound(m), m.phase = "Held", NEW r \in ExitReason, NEW e \in Nat, NEW l \in Nat
    PROVE  \E x : ExitPost(m, r, e, l, x)
<1> DEFINE a == Apply(m, ExitSignal(r))
           p == [m.position EXCEPT !.exitReason = r]
<1>0. "ext" \in Leg /\ "lt" \in Leg
  BY DEF Leg
<1>1. /\ m.position \in Position /\ m.position.open["ext"] > 0 /\ m.position.open["lt"] > 0
      /\ m.position.open["ext"] \in Nat /\ m.position.open["lt"] \in Nat
  BY BusyHasPosition DEF Sound, CheckInvariants, Position, Leg
<1>2. Then({m}, ExitSignal(r)) = {a} /\ a = At("Exiting", p) /\ Sound(a)
  BY Arms, ThenOne, ApplyKeepsSound, ConstructorsAreEvents
     DEF EventConstructors, RunnerEvent, Accepts, ExitSignal
<1>3. a.phase = "Exiting" /\ a.position.open = m.position.open
  BY <1>1, <1>2 DEF Position, At
<1> HIDE DEF a, p
<1>4. PICK b : FillPost(a, "ext", "lt", e, b)
  BY <1>0, <1>2, <1>3, OneFill
<1>5. /\ Filled({a}, "ext", e) = {b} /\ Sound(b) /\ b.phase = "Exiting"
      /\ b.position.open["lt"] = m.position.open["lt"]
      /\ b.position.open["ext"] = Rest(m.position.open["ext"], e)
  BY <1>1, <1>3, <1>4 DEF FillPost
<1>9. PICK x : FillPost(b, "lt", "ext", l, x)
  BY <1>0, <1>5, OneFill
<1>10. /\ Filled({b}, "lt", l) = {x} /\ Sound(x) /\ x.phase \in {"Exiting", "Flat"}
       /\ l = 0 => x = b
       /\ b.position.open["ext"] > 0 => x.phase = "Exiting"
       /\ b.position.open["ext"] = 0 /\ l > 0 /\ b.position.open["lt"] <= l => x.phase = "Flat"
  BY <1>9 DEF FillPost
<1>6. Drained2(m, r, e, l) = {x}
  BY <1>2, <1>5, <1>10 DEF Drained2
<1>7. e = 0 => b.position.open["ext"] > 0
  BY <1>1, <1>5 DEF Rest
<1>8. m.position.open["ext"] = e /\ m.position.open["lt"] = l => x.phase = "Flat"
  BY <1>1, <1>5, <1>10 DEF Rest
<1>q. QED BY <1>5, <1>6, <1>7, <1>8, <1>10 DEF ExitPost

\* Every outcome of an exit is accepted by the machine.
LEMMA ExitsAccepted ==
    ASSUME NEW m, Good(m, openQty), m.phase = "Held", NEW r \in ExitReason,
           NEW o \in ExitOutcomes(m, r)
    PROVE  \E x : o.ms = {x} /\ Good(x, o.qty) /\ x.phase # "Held"
<1>0. Sound(m) /\ m.position.open["ext"] \in Nat /\ m.position.open["lt"] \in Nat
  BY BusyHasPosition DEF Good, Position, Leg
<1>1. CASE dry
  <2>1. PICK a \in Qty : openQty = {a} /\ \A l \in Leg : m.position.open[l] = a
    BY <1>1 DEF Good, OnPaper
  <2>2. o = [ms |-> Drained2(m, r, a, a), qty |-> {}]
    BY <1>1, <2>1 DEF ExitOutcomes, Drained2
  <2>3. a \in Nat /\ "ext" \in Leg /\ "lt" \in Leg
    BY QtyIsPositive DEF Leg
  <2>4. PICK x : ExitPost(m, r, a, a, x)
    BY <1>0, <2>3, ExitPath
  <2>5. Drained2(m, r, a, a) = {x} /\ Sound(x) /\ x.phase = "Flat"
    BY <2>1, <2>3, <2>4 DEF ExitPost
  <2>q. QED BY <2>2, <2>5 DEF Good, OnPaper
<1>2. CASE ~dry
  <2>1. PICK e \in Nat, l \in Nat :
            o = [ms |-> IF e > 0 /\ l > 0 THEN Drained2(m, r, e, l)
                        ELSE Then(Drained2(m, r, e, l), Emergency("LegMismatchTimeout")),
                 qty |-> {}]
    BY <1>0, <1>2 DEF ExitOutcomes, Drained2
  <2>5. PICK x : ExitPost(m, r, e, l, x)
    BY <1>0, ExitPath
  <2>2. /\ Drained2(m, r, e, l) = {x} /\ Sound(x) /\ x.phase # "Held"
        /\ e = 0 \/ l = 0 => x.phase = "Exiting"
    BY <2>5 DEF ExitPost
  <2> DEFINE y == Apply(x, Emergency("LegMismatchTimeout"))
  <2>3. CASE e > 0 /\ l > 0
    BY <1>2, <2>1, <2>2, <2>3 DEF Good
  <2>4. CASE ~(e > 0 /\ l > 0)
    <3>1. x.phase = "Exiting"
      BY <2>2, <2>4
    <3>2. "LegMismatchTimeout" \in EmergencyReason
      BY LiveTickAssumption
    <3>3. Then({x}, Emergency("LegMismatchTimeout")) = {y} /\ Sound(y)
      BY <2>2, <3>1, <3>2, ThenOne, ApplyKeepsSound, ConstructorsAreEvents
         DEF EventConstructors, RunnerEvent, Accepts, Emergency
    <3>4. y.phase = "EmergencyFlattening"
      BY <3>1, Arms DEF Flattening, At
    <3> HIDE DEF y
    <3>q. QED BY <1>2, <2>1, <2>2, <2>4, <3>3, <3>4 DEF Good
  <2>q. QED BY <2>3, <2>4
<1>q. QED BY <1>1, <1>2

LEMMA SummaryIsHeld == \A m : Sound(m) => (Summarised(m) <=> m.phase = "Held")
BY DEF Sound, Summarised, CheckInvariants

\* An emergency of a held position is flattened on paper, and live it is what
\* the rest of the loop has to complete.
LEMMA EscalatedFacts ==
    ASSUME Good(machine, openQty), machine.phase = "Held", NEW r \in EmergencyReason
    PROVE  /\ Good(Escalated(r), IF dry THEN {} ELSE openQty)
           /\ Escalated(r).phase = IF dry THEN "Flat" ELSE "EmergencyFlattening"
<1> DEFINE m == Apply(machine, Emergency(r))
<1>1. Sound(m) /\ m.phase = "EmergencyFlattening"
  <2>1. Sound(m)
    BY ApplyKeepsSound, ConstructorsAreEvents DEF Good, EventConstructors, RunnerEvent
  <2>2. m = Flattening(machine.position, r)
    BY Arms
  <2>q. QED BY <2>1, <2>2 DEF Flattening, At
<1>2. CASE ~dry
  BY <1>1, <1>2 DEF Escalated, Good
<1>3. CASE dry
  <2>1. PICK q \in Qty : openQty = {q}
    BY <1>3 DEF Good, OnPaper
  <2>2. (CHOOSE x \in openQty : TRUE) = q
    BY <2>1
  <2> HIDE DEF m
  <2>3. q \in Nat /\ "ext" \in Leg /\ "lt" \in Leg
    BY QtyIsPositive DEF Leg
  <2> DEFINE a == Apply(m, ExitFilled("ext", q))
             b == Apply(a, ExitFilled("lt", q))
  <2>4. Sound(a) /\ a = At("EmergencyFlattening", Drained(m.position, "ext", q))
    BY <1>1, <2>3, ExitFillFacts DEF Exits
  <2>5. a.phase = "EmergencyFlattening"
    BY <2>4 DEF At
  <2> HIDE DEF a
  <2>6. b = At("EmergencyFlattening", Drained(a.position, "lt", q))
    BY <2>3, <2>4, <2>5, ExitFillFacts DEF Exits
  <2>7. b.phase = "EmergencyFlattening"
    BY <2>6 DEF At
  <2>8. Escalated(r) = Apply(b, EmergencyComplete)
    BY <1>3, <2>1, <2>2 DEF Escalated, Drain, m, a
  <2> HIDE DEF b
  <2>9. Escalated(r) = Flat
    BY <2>7, <2>8, Arms
  <2>q. QED BY <1>3, <2>9, FlatIsSound DEF Good, OnPaper
<1>q. QED BY <1>2, <1>3

(***************************************************************************)
(* The invariant of a tick, in parts.                                       *)
(***************************************************************************)
HeldPos == [dir : Dir, at : Nat]

Trade ==
    /\ Good(machine, openQty) /\ rejected = FALSE
    /\ \/ held = {} /\ machine.phase # "Held"
       \/ \E p \in HeldPos : held = {p} /\ p.at <= now /\ machine.phase = "Held"

\* The breach began no earlier than the run of breaches it is part of.
Signals ==
    /\ runs \in [Dir -> SUBSET Nat] /\ \A d \in Dir : \A x \in runs[d] : x <= now
    /\ seen \in Nat /\ seen <= now
    /\ \/ breach = {}
       \/ \E b \in Breach : breach = {b} /\ b.at <= now /\ \E x \in runs[b.dir] : x <= b.at

Clock == now \in Nat /\ now > 0 /\ dry \in BOOLEAN

\* What a step does to the trip, as the strategy sees it.
Promised == [Promise!StNext]_(Promise!stVars)

Looked == \E B \in SUBSET Dir : Promise!Look(B)

\* A look that shows nothing new keeps the runs as they are.
LEMMA LookedAgain == ASSUME Signals, UNCHANGED <<seen, runs>> PROVE Looked
<1> DEFINE B == {d \in Dir : runs[d] # {}}
<1>1. B \in SUBSET Dir
  OBVIOUS
<1>2. runs' = [d \in Dir |-> IF d \notin B THEN {} ELSE
                            IF runs[d] = {} THEN {seen'} ELSE runs[d]]
  <2>1. runs = [d \in Dir |-> runs[d]]
    BY DEF Signals
  <2>2. \A d \in Dir : runs[d] = IF d \notin B THEN {} ELSE
                                IF runs[d] = {} THEN {seen'} ELSE runs[d]
    OBVIOUS
  <2> HIDE DEF B
  <2>3. [d \in Dir |-> runs[d]] = [d \in Dir |-> IF d \notin B THEN {} ELSE
                                             IF runs[d] = {} THEN {seen'} ELSE runs[d]]
    BY <2>2
  <2>q. QED BY <2>1, <2>3
<1>3. seen' \in Nat /\ seen' >= seen
  BY DEF Signals
<1> HIDE DEF B
<1>4. Promise!Look(B)
  BY <1>2, <1>3 DEF Promise!Look
<1>q. QED BY <1>1, <1>4 DEF Looked

LEMMA PromisedClose ==
    ASSUME Looked, machine.phase # "Flat", machine'.phase # "Held", held' = {}
    PROVE  Promised
BY DEF Looked, Promised, Promise!StNext, Promise!Close

LEMMA PromisedIdle ==
    ASSUME Looked, machine'.phase = machine.phase, machine.phase # "Held", held = {}, held' = {}
    PROVE  Promised
BY DEF Looked, Promised, Promise!StNext, Promise!Stay

LEMMA PromisedHold ==
    ASSUME Looked, machine.phase = "Held", machine'.phase = "Held", NEW p, held = {p}, held' = {p},
           seen' - p.at < MaxHold
    PROVE  Promised
<1>1. (CHOOSE x \in {p} : TRUE) = p
  OBVIOUS
<1>q. QED BY <1>1 DEF Looked, Promised, Promise!StNext, Promise!Stay

\* The looks an entry may rest on.
EntryRuns(d) == IF CheckAtFire THEN runs'[d] ELSE runs[d] \cup runs'[d]

LEMMA PromisedOpen ==
    ASSUME Looked, machine.phase = "Flat", machine'.phase # "Flat", NEW d \in Dir,
           \E t \in EntryRuns(d) : seen' - t >= Persist,
           held' = IF machine'.phase = "Held" THEN {[dir |-> d, at |-> seen']} ELSE {}
    PROVE  Promised
<1> DEFINE p == [dir |-> d, at |-> seen']
<1>1. p.at = seen'
  OBVIOUS
<1> HIDE DEF p
<1>2. (CHOOSE x \in {p} : TRUE) = p
  OBVIOUS
<1>3. machine'.phase = "Held" => held' = {p}
  BY DEF p
<1>4. Promise!Open(d)
  <2>1. CASE machine'.phase = "Held"
    BY <1>1, <1>2, <1>3, <2>1 DEF Looked, EntryRuns, Promise!Open
  <2>2. CASE machine'.phase # "Held"
    BY <2>2 DEF Looked, EntryRuns, Promise!Open
  <2>q. QED BY <2>1, <2>2
<1>q. QED BY <1>4 DEF Promised, Promise!StNext

\* What a step of the tick leaves alone.
Frame == Clock /\ now' = now /\ dry' = dry

\* Asked without a position: the breach of the engine stays within the run of
\* breaches it is part of, and an entry rests on one that has lasted.
LEMMA AskedFlat ==
    ASSUME Signals, Frame, warm' \in BOOLEAN, Looks({}), breach' = Verdict({}).breach
    PROVE  /\ Signals' /\ Looked
           /\ \/ Verdict({}).out = Hold
              \/ /\ seen' = now
                 /\ \E d \in Dir : /\ Verdict({}).out = Enter(d)
                                  /\ \E t \in EntryRuns(d) : seen' - t >= Persist
<1> DEFINE devs == SignalDev
           v    == Verdict({})
           t    == now
           B    == BreachedNow({})
<1>0. /\ t \in Nat /\ seen \in Nat /\ seen <= t /\ BreachAt(breach, t)
      /\ runs \in [Dir -> SUBSET Nat] /\ \A d \in Dir : \A x \in runs[d] : x <= t
  BY DEF Frame, Clock, Signals, BreachAt
<1>1. v = Decide(breach, t, devs, warm', {})
  BY DEF Verdict
<1>2. CASE devs = {}
  <2>1. UNCHANGED <<seen, runs>>
    BY <1>2 DEF Looks
  <2>2. v = [breach |-> breach, out |-> Hold]
    BY <1>1, <1>2 DEF Decide
  <2>3. v.out = Hold /\ breach' = breach
    BY <2>2
  <2>4. Signals'
    BY <2>1, <2>3 DEF Signals, Frame
  <2>q. QED BY <2>1, <2>3, <2>4, LookedAgain
<1>3. CASE devs # {}
  <2>1. /\ seen' = t /\ B \in SUBSET Dir
        /\ runs' = [d \in Dir |-> IF d \notin B THEN {} ELSE
                                  IF runs[d] = {} THEN {t} ELSE runs[d]]
    BY <1>3 DEF Looks, BreachedNow
  <2> HIDE DEF B
  <2>2. Looked
    BY <1>0, <2>1 DEF Looked, Promise!Look
  <2>3. /\ runs' \in [Dir -> SUBSET Nat] /\ \A d \in Dir : \A x \in runs'[d] : x <= t
        /\ \A d \in B : runs'[d] = IF runs[d] = {} THEN {t} ELSE runs[d]
    BY <1>0, <2>1
  <2>4. \/ (~warm' \/ InFundingLockout(t)) /\ v = [breach |-> {}, out |-> Hold]
        \/ /\ warm' /\ ~InFundingLockout(t)
           /\ \E dv \in devs : Waits(breach, t, dv, v) \/ Fires(breach, t, dv, v)
    <3> HIDE DEF devs, t
    <3>1. LET w == Decide(breach, t, devs, warm', {}) IN
          \/ devs = {} /\ w = [breach |-> breach, out |-> Hold]
          \/ devs # {} /\ (~warm' \/ InFundingLockout(t)) /\ w = [breach |-> {}, out |-> Hold]
          \/ /\ devs # {} /\ warm' /\ ~InFundingLockout(t)
             /\ \E dv \in devs : Waits(breach, t, dv, w) \/ Fires(breach, t, dv, w)
      BY <1>0, DecideFlatFacts
    <3>q. QED BY <1>1, <1>3, <3>1
  <2>5. CASE v = [breach |-> {}, out |-> Hold]
    <3>1. v.out = Hold /\ breach' = {}
      BY <2>5
    <3>2. Signals'
      BY <1>0, <2>1, <2>3, <3>1 DEF Signals, Frame
    <3>q. QED BY <2>2, <3>1, <3>2
  <2>6. ASSUME warm', ~InFundingLockout(t), NEW dv \in devs, NEW d \in Dir, EntersOn(dv, d)
        PROVE  (runs[d] # {} => runs'[d] = runs[d]) /\ \E x \in runs'[d] : x <= t
    <3>1. d \in B
      BY <2>6 DEF B, BreachedNow, EntersOn
    <3>q. QED BY <1>0, <2>3, <3>1
  <2>7. ASSUME warm', ~InFundingLockout(t), NEW dv \in devs, Waits(breach, t, dv, v)
        PROVE  v.out = Hold /\ Signals'
    <3>1. CASE v.breach = {}
      BY <1>0, <2>1, <2>3, <2>7, <3>1 DEF Signals, Frame, Waits
    <3>2. ASSUME NEW d \in Dir, EntersOn(dv, d), v.breach = {[dir |-> d, at |-> t]}
          PROVE  Signals'
      <4> DEFINE n == [dir |-> d, at |-> t]
      <4>1. n \in Breach /\ n.at = t /\ n.dir = d
        BY <1>0 DEF Breach
      <4>2. \E x \in runs'[d] : x <= t
        BY <2>6, <2>7, <3>2
      <4>3. breach' = {n}
        BY <3>2
      <4> HIDE DEF n
      <4>q. QED BY <1>0, <2>1, <2>3, <4>1, <4>2, <4>3 DEF Signals, Frame
    <3>3. ASSUME NEW d \in Dir, EntersOn(dv, d), v.breach = breach, \E b \in breach : b.dir = d
          PROVE  Signals'
      <4>1. PICK b \in Breach : /\ breach = {b} /\ b.at <= now /\ b.dir = d
                                /\ \E x \in runs[b.dir] : x <= b.at
        BY <3>3 DEF Signals
      <4>2. runs'[d] = runs[d]
        BY <2>6, <2>7, <3>3, <4>1
      <4>q. QED BY <1>0, <2>1, <2>3, <3>3, <4>1, <4>2 DEF Signals, Frame
    <3>q. QED BY <2>7, <3>1, <3>2, <3>3 DEF Waits
  <2>8. ASSUME warm', ~InFundingLockout(t), NEW dv \in devs, Fires(breach, t, dv, v)
        PROVE  /\ Signals'
               /\ \E d \in Dir : v.out = Enter(d) /\ \E x \in EntryRuns(d) : seen' - x >= Persist
    <3>1. PICK d \in Dir, a \in Nat :
              /\ v.out = Enter(d) /\ t - a >= Persist
              /\ \/ EntersOn(dv, d) /\ (a = t \/ \E b \in breach : b.dir = d /\ b.at = a)
                 \/ ~CheckAtFire /\ \E b \in breach : b.dir = d /\ b.at = a
      BY <2>8 DEF Fires
    <3>2. Signals'
      BY <1>0, <2>1, <2>3, <2>8 DEF Signals, Frame, Fires
    <3>3. ASSUME \E b \in breach : b.dir = d /\ b.at = a
          PROVE  \E y \in runs[d] : y \in Nat /\ y <= a
      BY <1>0, <3>3 DEF Signals
    <3>4. CASE EntersOn(dv, d) /\ a = t
      <4>1. PICK x \in runs'[d] : x <= t
        BY <2>6, <2>8, <3>4
      <4>2. x \in Nat
        BY <2>3
      <4>q. QED BY <1>0, <2>1, <3>1, <3>2, <3>4, <4>1, <4>2, ConstantsAreNat DEF EntryRuns
    <3>5. CASE EntersOn(dv, d) /\ \E b \in breach : b.dir = d /\ b.at = a
      <4>1. PICK y \in runs[d] : y \in Nat /\ y <= a
        BY <3>3, <3>5
      <4>2. runs'[d] = runs[d]
        BY <2>6, <2>8, <3>5, <4>1
      <4>3. y \in EntryRuns(d) /\ seen' - y >= Persist
        BY <1>0, <2>1, <3>1, <4>1, <4>2, ConstantsAreNat DEF EntryRuns
      <4>q. QED BY <3>1, <3>2, <4>3
    <3>6. CASE ~CheckAtFire /\ \E b \in breach : b.dir = d /\ b.at = a
      <4>1. PICK y \in runs[d] : y \in Nat /\ y <= a
        BY <3>3, <3>6
      <4>2. y \in EntryRuns(d) /\ seen' - y >= Persist
        BY <1>0, <2>1, <3>1, <3>6, <4>1, ConstantsAreNat DEF EntryRuns
      <4>q. QED BY <3>1, <3>2, <4>2
    <3>q. QED BY <3>1, <3>4, <3>5, <3>6
  <2>q. QED BY <2>1, <2>2, <2>4, <2>5, <2>7, <2>8
<1>q. QED BY <1>2, <1>3

\* Asked with a position: it is kept within the hold time, unless nothing was
\* seen, or exits.
LEMMA AskedHeld ==
    ASSUME Signals, Frame, NEW p \in HeldPos, p.at <= now,
           Looks({p}), breach' = Verdict({p}).breach
    PROVE  /\ Signals' /\ Looked
           /\ \/ Verdict({p}).out = Hold /\ UNCHANGED <<seen, runs>>
              \/ Verdict({p}).out = Hold /\ seen' = now /\ now - p.at < MaxHold
              \/ \E r \in ExitReason : Verdict({p}).out = Exit(r)
<1> DEFINE devs == SignalDev
           v    == Verdict({p})
           t    == now
<1>0. t \in Nat /\ seen \in Nat /\ seen <= t /\ runs \in [Dir -> SUBSET Nat]
      /\ p.at \in Nat
  BY DEF Frame, Clock, Signals, HeldPos
<1>1. v = Decide(breach, t, devs, warm', {p})
  BY DEF Verdict
<1>2. CASE devs = {}
  <2>1. UNCHANGED <<seen, runs>>
    BY <1>2 DEF Looks
  <2>2. v = [breach |-> breach, out |-> Hold]
    BY <1>1, <1>2 DEF Decide
  <2>3. v.out = Hold /\ breach' = breach
    BY <2>2
  <2>4. Signals'
    BY <2>1, <2>3 DEF Signals, Frame
  <2>q. QED BY <2>1, <2>3, <2>4, LookedAgain
<1>3. CASE devs # {}
  <2>0. BreachedNow({p}) = {}
    BY DEF BreachedNow
  <2>1. /\ seen' = t
        /\ runs' = [d \in Dir |-> IF d \notin {} THEN {} ELSE
                                  IF runs[d] = {} THEN {seen'} ELSE runs[d]]
    BY <1>3, <2>0 DEF Looks
  <2>2. Looked
    <3> DEFINE B == {}
    <3>1. B \in SUBSET Dir /\ runs' = [d \in Dir |-> IF d \notin B THEN {} ELSE
                                                 IF runs[d] = {} THEN {seen'} ELSE runs[d]]
      BY <2>1
    <3> HIDE DEF B
    <3>q. QED BY <1>0, <2>1, <3>1 DEF Looked, Promise!Look
  <2>6. runs' = [d \in Dir |-> {}]
    BY <2>1
  <2>3. /\ v.breach = {}
        /\ \/ \E r \in {"ForceClose", "MeanCross", "MaxHold"} : v.out = Exit(r)
           \/ v.out = Hold /\ t - p.at < MaxHold
    <3> HIDE DEF devs, t
    <3>1. LET w == Decide(breach, t, devs, warm', {p}) IN
          /\ w.breach = {}
          /\ \/ \E r \in {"ForceClose", "MeanCross", "MaxHold"} : w.out = Exit(r)
             \/ w.out = Hold /\ t - p.at < MaxHold
      BY <1>0, <1>3, DecideHeldFacts DEF t
    <3>q. QED BY <1>1, <3>1
  <2>7. breach' = {}
    BY <2>3
  <2>4. Signals'
    <3>1. runs' \in [Dir -> SUBSET Nat] /\ \A d \in Dir : runs'[d] = {}
      BY <2>6
    <3>q. QED BY <1>0, <2>1, <2>7, <3>1 DEF Signals, Frame
  <2>5. {"ForceClose", "MeanCross", "MaxHold"} \subseteq ExitReason
    BY LiveTickAssumption
  <2>q. QED BY <2>1, <2>2, <2>3, <2>4, <2>5
<1>q. QED BY <1>2, <1>3

LEMMA GoodNext ==
    ASSUME Frame, Good(machine', openQty')
    PROVE  Good(machine, openQty)'
BY DEF Good, Frame, OnPaper, Sound

\* A decision that passed its gates is carried out in full.
LEMMA Handled ==
    ASSUME Trade, Frame, NEW m, Good(m, openQty),
           m = machine \/ (machine.phase = "Held" /\ m.phase = "EmergencyFlattening"),
           NEW d, \/ d = Hold
                  \/ m.phase = "Flat" /\ \E x \in Dir : d = Enter(x)
                  \/ m.phase = "Held" /\ \E r \in ExitReason : d = Exit(r),
           Carries(m, d)
    PROVE  /\ Trade'
           /\ d = Hold => machine' = m
           /\ d.kind = "Exit" => machine'.phase # "Held"
           /\ held' = IF machine'.phase # "Held" THEN {} ELSE
                      IF machine.phase = "Held" THEN held ELSE {[dir |-> d.dir, at |-> now]}
<1>1. PICK o \in Outcomes(m, d) :
          IF o.ms = {}
          THEN rejected' = TRUE /\ UNCHANGED <<machine, openQty, held>>
          ELSE /\ machine' \in o.ms /\ openQty' = o.qty /\ UNCHANGED rejected
               /\ held' = IF ~Summarised(machine') THEN {} ELSE
                          IF Summarised(machine) THEN held ELSE {[dir |-> d.dir, at |-> now]}
  BY DEF Carries
<1>2. \E x : /\ o.ms = {x} /\ Good(x, o.qty)
             /\ d = Hold => x = m
             /\ d.kind = "Exit" => x.phase # "Held"
  <2>1. CASE d = Hold
    <3>1. o = [ms |-> {m}, qty |-> openQty] /\ d.kind = "Hold"
      BY <2>1 DEF Outcomes, Hold
    <3>q. QED BY <3>1
  <2>2. ASSUME NEW x \in Dir, d = Enter(x), m.phase = "Flat"
        PROVE  \E y : o.ms = {y} /\ Good(y, o.qty)
    <3>1. o \in EnterOutcomes(m)
      BY <2>2 DEF Outcomes, Enter
    <3>q. QED BY <2>2, <3>1, EnterFacts
  <2>3. ASSUME NEW r \in ExitReason, d = Exit(r), m.phase = "Held"
        PROVE  \E y : o.ms = {y} /\ Good(y, o.qty) /\ y.phase # "Held"
    <3>1. o \in ExitOutcomes(m, r)
      BY <2>3 DEF Outcomes, Exit
    <3>q. QED BY <2>3, <3>1, ExitsAccepted
  <2>4. \A x : Enter(x) # Hold /\ Enter(x).kind = "Enter" /\ Exit(x) # Hold
    BY DEF Enter, Exit, Hold
  <2>q. QED BY <2>1, <2>2, <2>3, <2>4
<1>3. /\ Good(machine', openQty') /\ UNCHANGED rejected
      /\ d = Hold => machine' = m
      /\ d.kind = "Exit" => machine'.phase # "Held"
      /\ held' = IF ~Summarised(machine') THEN {} ELSE
                 IF Summarised(machine) THEN held ELSE {[dir |-> d.dir, at |-> now]}
  BY <1>1, <1>2
<1>4. (Summarised(machine') <=> machine'.phase = "Held")
      /\ (Summarised(machine) <=> machine.phase = "Held")
  BY <1>3, SummaryIsHeld DEF Good, Trade
<1>5. held' = IF machine'.phase # "Held" THEN {} ELSE
              IF machine.phase = "Held" THEN held ELSE {[dir |-> d.dir, at |-> now]}
  BY <1>3, <1>4
<1>6. Trade'
  <2>1. CASE machine'.phase # "Held"
    BY <1>3, <1>5, <2>1, GoodNext DEF Trade
  <2>2. CASE machine'.phase = "Held" /\ machine.phase = "Held"
    BY <1>3, <1>5, <2>2, GoodNext DEF Trade, Frame
  <2>3. CASE machine'.phase = "Held" /\ machine.phase # "Held"
    <3>1. d # Hold /\ m = machine
      BY <1>3, <2>3
    <3>2. PICK x \in Dir : d = Enter(x)
      BY <2>3, <3>1
    <3> DEFINE p == [dir |-> x, at |-> now]
    <3>3. d.dir = x /\ p \in HeldPos /\ p.at <= now
      BY <3>2 DEF Enter, HeldPos, Frame, Clock
    <3>4. held' = {p}
      BY <1>5, <2>3, <3>3
    <3> HIDE DEF p
    <3>q. QED BY <1>3, <2>3, <3>3, <3>4, GoodNext DEF Trade, Frame
  <2>q. QED BY <2>1, <2>2, <2>3
<1>q. QED BY <1>3, <1>5, <1>6

\* What every tick has to show.
TickPost ==
    /\ Trade' /\ Signals' /\ Promised
    /\ ~dry /\ block = "session" => machine'.phase # "Held"

LEMMA SessionBlocks == block = "session" => block # None
BY LiveTickAssumption

\* A tick that asks the strategy, with the position left after the forced
\* flatten.
LEMMA EvaluatesFacts ==
    ASSUME Trade, Signals, Frame, warm' \in BOOLEAN,
           NEW m, m = Strategic, Evaluates(m, Pos(m))
    PROVE  TickPost
<1> DEFINE pos == Pos(m)
           v   == Verdict(pos)
<1>1. /\ Sound(machine) /\ (Summarised(machine) <=> machine.phase = "Held")
      /\ Good(machine, openQty)
  BY SummaryIsHeld DEF Trade, Good
<1>2. /\ Pos(machine) = held
      /\ Forced => ~dry /\ machine.phase = "Held" /\ block = "session"
      /\ (~Forced /\ ~dry /\ block = "session") => machine.phase # "Held"
  BY <1>1 DEF Trade, Pos, Forced
<1>3. Good(m, openQty) /\ (Summarised(m) <=> m.phase = "Held")
      /\ (Forced => m.phase = "EmergencyFlattening") /\ (~Forced => m = machine)
  <2>1. CASE Forced
    <3>1. "SessionDdHalted" \in EmergencyReason
      BY LiveTickAssumption
    <3>2. m = Escalated("SessionDdHalted")
      BY <1>2, <2>1 DEF Strategic, Escalated
    <3>3. Good(m, openQty) /\ m.phase = "EmergencyFlattening"
      BY <1>1, <1>2, <2>1, <3>1, <3>2, EscalatedFacts
    <3>q. QED BY <2>1, <3>3, SummaryIsHeld DEF Good
  <2>2. CASE ~Forced
    BY <1>1, <2>2 DEF Strategic
  <2>q. QED BY <2>1, <2>2
<1>4. PICK gated \in BOOLEAN :
          Carries(m, IF Passes(m, v.out, gated) THEN v.out ELSE Hold)
  BY DEF Evaluates
<1>5. Looks(pos) /\ breach' = v.breach
  BY DEF Evaluates
<1> DEFINE d == IF Passes(m, v.out, gated) THEN v.out ELSE Hold
<1>6. CASE m.phase # "Held"
  <2>1. pos = {}
    BY <1>3, <1>6 DEF Pos
  <2>2. /\ Signals' /\ Looked
        /\ \/ v.out = Hold
           \/ /\ seen' = now
              /\ \E x \in Dir : v.out = Enter(x) /\ \E t \in EntryRuns(x) : seen' - t >= Persist
    BY <1>5, <2>1, AskedFlat
  <2>3. d = Hold \/ (/\ m.phase = "Flat" /\ block = None /\ seen' = now
                    /\ \E x \in Dir : d = Enter(x) /\ \E t \in EntryRuns(x) : seen' - t >= Persist)
    <3> HIDE DEF v, pos
    <3>1. CASE v.out = Hold
      BY <3>1
    <3>2. ASSUME NEW x \in Dir, v.out = Enter(x), d # Hold
          PROVE  d = Enter(x) /\ m.phase = "Flat" /\ block = None
      <4>1. v.out.kind = "Enter" /\ Passes(m, v.out, gated)
        BY <3>2 DEF Enter
      <4>q. QED BY <3>2, <4>1 DEF Passes
    <3>q. QED BY <2>2, <3>1, <3>2
  <2> HIDE DEF v, pos, d
  <2>4. Carries(m, d)
    BY <1>4 DEF d
  <2>5. /\ Trade'
        /\ d = Hold => machine' = m
        /\ held' = IF machine'.phase # "Held" THEN {} ELSE
                   IF machine.phase = "Held" THEN held ELSE {[dir |-> d.dir, at |-> now]}
    BY <1>2, <1>3, <2>3, <2>4, Handled
  <2>6. ~dry /\ block = "session" => machine'.phase # "Held"
    BY <1>6, <2>3, <2>5, SessionBlocks
  <2>7. CASE d = Hold /\ Forced
    BY <1>2, <1>3, <2>2, <2>5, <2>6, <2>7, PromisedClose DEF TickPost
  <2>8. CASE d = Hold /\ ~Forced
    <3>1. machine' = machine /\ machine.phase # "Held" /\ held' = {} /\ held = {}
      BY <1>3, <1>6, <2>5, <2>8 DEF Trade
    <3>q. QED BY <2>2, <2>5, <2>6, <3>1, PromisedIdle DEF TickPost
  <2>9. CASE d # Hold
    <3>1. m.phase = "Flat" /\ m = machine /\ seen' = now
      BY <1>3, <2>3, <2>9
    <3>2. PICK x \in Dir : d = Enter(x) /\ \E t \in EntryRuns(x) : seen' - t >= Persist
      BY <2>3, <2>9
    <3>3. held' = IF machine'.phase = "Held" THEN {[dir |-> x, at |-> seen']} ELSE {}
      BY <2>5, <3>1, <3>2 DEF Enter
    <3>4. CASE machine'.phase = "Flat"
      <4>1. held = {} /\ held' = {}
        BY <3>1, <3>3, <3>4 DEF Trade
      <4>q. QED BY <2>2, <2>5, <2>6, <3>1, <3>4, <4>1, PromisedIdle DEF TickPost
    <3>5. CASE machine'.phase # "Flat"
      BY <2>2, <2>5, <2>6, <3>1, <3>2, <3>3, <3>5, PromisedOpen DEF TickPost
    <3>q. QED BY <3>4, <3>5
  <2>q. QED BY <2>7, <2>8, <2>9
<1>7. CASE m.phase = "Held"
  <2>1. m = machine /\ ~Forced /\ pos = held
    BY <1>2, <1>3, <1>7 DEF Pos
  <2>2. PICK p \in HeldPos : held = {p} /\ p.at <= now
    BY <1>7, <2>1 DEF Trade
  <2>3. /\ Signals' /\ Looked
        /\ \/ v.out = Hold /\ UNCHANGED <<seen, runs>>
           \/ v.out = Hold /\ seen' = now /\ now - p.at < MaxHold
           \/ \E r \in ExitReason : v.out = Exit(r)
    BY <1>5, <2>1, <2>2, AskedHeld
  <2>4. d = v.out
    <3> HIDE DEF v, pos
    <3>0. Hold.kind # "Enter" /\ \A r : Exit(r).kind # "Enter"
      BY DEF Exit, Hold
    <3>1. v.out.kind # "Enter"
      BY <2>3, <3>0
    <3>q. QED BY <3>1 DEF Passes
  <2> HIDE DEF v, pos, d
  <2>5. Carries(m, d)
    BY <1>4 DEF d
  <2>6. /\ Trade'
        /\ d = Hold => machine' = m
        /\ d.kind = "Exit" => machine'.phase # "Held"
        /\ held' = IF machine'.phase # "Held" THEN {} ELSE
                   IF machine.phase = "Held" THEN held ELSE {[dir |-> d.dir, at |-> now]}
    BY <1>3, <1>7, <2>1, <2>3, <2>4, <2>5, Handled
  <2>7. ~(~dry /\ block = "session")
    BY <1>2, <1>7, <2>1
  <2>8. CASE d = Hold
    <3>1. machine' = machine /\ held' = held
      BY <1>7, <2>1, <2>6, <2>8
    <3>2. CASE UNCHANGED <<seen, runs>>
      <4>1. Promised
        BY <3>1, <3>2 DEF Promised, Promise!stVars
      <4>q. QED BY <2>3, <2>6, <2>7, <4>1 DEF TickPost
    <3>3. CASE seen' = now /\ now - p.at < MaxHold
      <4>1. held = {p} /\ held' = {p} /\ seen' - p.at < MaxHold
        BY <2>2, <3>1, <3>3
      <4>2. machine.phase = "Held" /\ machine'.phase = "Held"
        BY <1>7, <2>1, <3>1
      <4>3. Promised
        BY <2>3, <4>1, <4>2, PromisedHold
      <4>q. QED BY <2>3, <2>6, <2>7, <4>3 DEF TickPost
    <3>4. \A r : Exit(r) # Hold
      BY DEF Exit, Hold
    <3>q. QED BY <2>3, <2>4, <2>8, <3>2, <3>3, <3>4
  <2>9. CASE \E r \in ExitReason : d = Exit(r)
    <3>1. d.kind = "Exit"
      BY <2>9 DEF Exit
    <3>2. machine'.phase # "Held" /\ held' = {} /\ machine.phase # "Flat"
      BY <1>7, <2>1, <2>6, <3>1
    <3>q. QED BY <2>3, <2>6, <2>7, <3>2, PromisedClose DEF TickPost
  <2>q. QED BY <2>3, <2>4, <2>8, <2>9
<1>q. QED BY <1>6, <1>7

\* A watchdog that fires ends the trip.
LEMMA FlattensFacts ==
    ASSUME Trade, Signals, Frame, Pos(machine) # {}, NEW r \in EmergencyReason, Flattens(r)
    PROVE  TickPost
<1>1. machine.phase = "Held" /\ Good(machine, openQty)
  BY SummaryIsHeld DEF Trade, Good, Pos
<1>2. /\ Good(machine', openQty') /\ machine'.phase # "Held" /\ held' = {}
      /\ UNCHANGED <<seen, runs, breach, rejected>>
  BY <1>1, EscalatedFacts DEF Flattens, signal
<1>3. Trade'
  BY <1>2, GoodNext DEF Trade
<1>4. Signals'
  BY <1>2 DEF Signals, Frame
<1>5. Promised
  BY <1>1, <1>2, LookedAgain, PromisedClose
<1>q. QED BY <1>2, <1>3, <1>4, <1>5 DEF TickPost

\* Whether the strategy is asked or not.
LEMMA DecidesFacts ==
    ASSUME Trade, Signals, Frame, warm' \in BOOLEAN, NEW committed, Decides(committed)
    PROVE  TickPost
<1>1. CASE committed \/ PositionSeen(Strategic) # {}
  <2>1. Evaluates(Strategic, Pos(Strategic))
    BY <1>1 DEF Decides, PositionSeen
  <2>q. QED BY <2>1, EvaluatesFacts
<1>2. CASE ~(committed \/ PositionSeen(Strategic) # {})
  <2>1. /\ machine' = Strategic /\ held' = (IF Forced THEN {} ELSE held)
        /\ Pos(Strategic) = {} /\ UNCHANGED <<openQty, rejected, seen, runs, breach>>
    BY <1>2 DEF Decides, PositionSeen, signal
  <2>2. Signals'
    BY <2>1 DEF Signals, Frame
  <2>3. Sound(machine) /\ Good(machine, openQty)
    BY DEF Trade, Good
  <2>4. CASE Forced
    <3>1. machine.phase = "Held" /\ ~dry /\ "SessionDdHalted" \in EmergencyReason
      BY <2>3, <2>4, SummaryIsHeld, LiveTickAssumption DEF Forced, Pos
    <3>2. machine' = Escalated("SessionDdHalted")
      BY <2>1, <2>4, <3>1 DEF Strategic, Escalated
    <3>3. Good(machine', openQty') /\ machine'.phase = "EmergencyFlattening"
      BY <2>1, <2>3, <3>1, <3>2, EscalatedFacts
    <3>4. Trade' /\ held' = {}
      BY <2>1, <2>4, <3>3, GoodNext DEF Trade
    <3>5. Promised
      BY <2>1, <3>1, <3>3, <3>4, LookedAgain, PromisedClose
    <3>q. QED BY <2>2, <3>3, <3>4, <3>5 DEF TickPost
  <2>5. CASE ~Forced
    <3>1. machine' = machine /\ held' = held /\ Pos(machine) = {}
      BY <2>1, <2>5 DEF Strategic
    <3>2. machine.phase # "Held"
      BY <2>3, <3>1, SummaryIsHeld DEF Trade, Pos
    <3>5. Good(machine', openQty') /\ rejected' = FALSE /\ held' = {}
      BY <2>1, <2>3, <3>1, <3>2 DEF Trade
    <3>6. Good(machine, openQty)'
      BY <3>5, GoodNext
    <3>3. Trade'
      BY <3>1, <3>2, <3>5, <3>6 DEF Trade
    <3>7. UNCHANGED <<machine, held, seen, runs>>
      BY <2>1, <3>1
    <3>4. Promised
      BY <3>7 DEF Promised, Promise!stVars
    <3>q. QED BY <2>2, <3>1, <3>2, <3>3, <3>4 DEF TickPost
  <2>q. QED BY <2>4, <2>5
<1>q. QED BY <1>1, <1>2

LEMMA SamplesFacts ==
    ASSUME Trade, Signals, Frame, warm \in BOOLEAN, NEW ok, Samples(ok)
    PROVE  TickPost /\ warm' \in BOOLEAN /\ (dev \subseteq Devs => dev' \subseteq Devs)
<1>1. PICK committed \in BOOLEAN, breached \in BOOLEAN :
          /\ dev' \in IF committed THEN {{d} : d \in Devs} ELSE {dev}
          /\ warm' \in IF committed THEN {warm, TRUE} ELSE {warm}
          /\ IF breached /\ Pos(machine) # {} THEN Flattens("SkewBreach") ELSE Decides(committed)
  BY DEF Samples
<1>2. warm' \in BOOLEAN /\ (dev \subseteq Devs => dev' \subseteq Devs)
  BY <1>1
<1>3. "SkewBreach" \in EmergencyReason
  BY LiveTickAssumption
<1>q. QED BY <1>1, <1>2, <1>3, FlattensFacts, DecidesFacts

(***************************************************************************)
(* The feeds: when a venue was last read, and the reference guard's count.  *)
(***************************************************************************)
FeedTypes ==
    /\ ready \subseteq Leg /\ dropped \subseteq Leg /\ booked \in [Leg -> SUBSET Nat]
    /\ guard \in [minute : Nat, bad : [Leg -> 0..Consec]]
    /\ astray \in [Leg -> SUBSET Nat]

\* A venue is read at the time of a tick, and the next one is later.
ReadBefore == \A v \in Leg : \A t \in booked[v] : t <= now /\ (arm = "tick" => t < now)

\* A venue is counted no more often than it was off the reference in a row.
CountedOnce ==
    /\ guard.minute <= now \div Minute
    /\ \A v \in Leg : /\ IsFiniteSet(astray[v]) /\ Cardinality(astray[v]) >= guard.bad[v]
                      /\ \A x \in astray[v] : x <= guard.minute

Feeds == FeedTypes /\ ReadBefore /\ CountedOnce /\ SuppressesSustained

LEMMA MinuteIsNat ==
    ASSUME NEW t \in Nat
    PROVE  t \div Minute \in Nat
BY LiveTickAssumption, SMT

LEMMA DivMonotone ==
    ASSUME NEW c \in Nat \ {0}, NEW a \in Nat, NEW b \in Nat, a <= b
    PROVE  a \div c <= b \div c
<1> DEFINE p == a \div c
           q == b \div c
<1>1. p \in Int /\ q \in Int /\ a % c \in Nat /\ b % c \in Nat /\ b % c < c
  BY SMT
<1>2. a = c * p + (a % c) /\ b = c * q + (b % c)
  BY SMT
<1> HIDE DEF p, q
<1>3. SUFFICES ASSUME q + 1 <= p PROVE FALSE
  BY <1>1 DEF p, q
<1>4. c * (q + 1) <= c * p
  BY <1>1, <1>3, SMT
<1>5. c * (q + 1) = c * q + c
  BY <1>1, SMT
<1> DEFINE x == c * p
           y == c * q
<1>6. x \in Int /\ y \in Int
  BY <1>1
<1>7. a = x + (a % c) /\ b = y + (b % c) /\ y + c <= x
  BY <1>2, <1>4, <1>5
<1> HIDE DEF x, y
<1>q. QED BY <1>1, <1>6, <1>7

\* A minute is counted once, and only while the venue is off in it.
LEMMA GuardFacts ==
    ASSUME Feeds, now \in Nat, now' = now, NEW ref \in Refs, ReferenceGuard(ref)
    PROVE  /\ CountedOnce' /\ SuppressesSustained' /\ dropped' \subseteq Leg
           /\ guard' \in [minute : Nat, bad : [Leg -> 0..Consec]]
           /\ astray' \in [Leg -> SUBSET Nat]
<1> DEFINE n == now \div Minute
           off == UNION ref
<1>1. n \in Nat /\ Consec \in Nat /\ off \subseteq Leg
  BY MinuteIsNat, LiveTickAssumption
<1>2. /\ guard.minute \in Nat /\ guard.minute <= n
      /\ guard.bad \in [Leg -> 0..Consec] /\ astray \in [Leg -> SUBSET Nat]
  BY DEF Feeds, FeedTypes, CountedOnce
<1>3. /\ guard' \in IF ref = {} THEN {Unreferenced} ELSE {Checked(o) : o \in ref}
      /\ dropped' = {v \in off : guard'.bad[v] >= Consec}
      /\ astray' = [v \in Leg |-> IF ref = {} THEN {} ELSE
                                 IF v \in off THEN astray[v] \cup {n} ELSE
                                 IF NewMinute THEN {} ELSE astray[v]]
  BY DEF ReferenceGuard
<1>4. ref = {} \/ ref = {off}
  <2>1. ASSUME NEW x \in ref PROVE ref = {x} /\ off = x
    <3>1. ref = {x}
      BY LiveTickAssumption
    <3>q. QED BY <3>1
  <2>q. QED BY <2>1
<1>5. guard' = IF ref = {} THEN Unreferenced ELSE Checked(off)
  BY <1>3, <1>4
<1> HIDE DEF n, off
<1>6. ASSUME NEW v \in Leg
      PROVE  /\ guard'.bad[v] \in 0..Consec /\ guard'.minute \in Nat /\ guard'.minute <= n
             /\ astray'[v] \in SUBSET Nat /\ IsFiniteSet(astray'[v])
             /\ Cardinality(astray'[v]) >= guard'.bad[v]
             /\ \A x \in astray'[v] : x <= guard'.minute
  <2>1. /\ IsFiniteSet(astray[v]) /\ Cardinality(astray[v]) >= guard.bad[v]
        /\ \A x \in astray[v] : x <= guard.minute
        /\ guard.bad[v] \in 0..Consec /\ astray[v] \in SUBSET Nat
    BY <1>2 DEF Feeds, CountedOnce
  <2>2. Cardinality(astray[v]) \in Nat
    BY <2>1, FS_CardinalityType
  <2>3. IsFiniteSet({}) /\ Cardinality({}) = 0
    BY FS_EmptySet
  <2>4. CASE ref = {}
    <3>1. guard'.bad[v] = 0 /\ guard'.minute = guard.minute /\ astray'[v] = {}
      <4>1. guard' = [guard EXCEPT !.bad = [w \in Leg |-> 0]]
        BY <1>5, <2>4 DEF Unreferenced
      <4>2. guard \in [minute : Nat, bad : [Leg -> 0..Consec]]
        BY DEF Feeds, FeedTypes
      <4>q. QED BY <1>3, <2>4, <4>1, <4>2
    <3>q. QED BY <1>1, <1>2, <2>3, <3>1
  <2>5. CASE ref # {}
    <3>1. /\ guard'.minute = n
          /\ guard'.bad[v] = IF NewMinute THEN Counted(v, off) ELSE guard.bad[v]
      BY <1>5, <2>5 DEF Checked, n
    <3>2. astray'[v] = IF v \in off THEN astray[v] \cup {n} ELSE
                       IF NewMinute THEN {} ELSE astray[v]
      BY <1>3, <2>5
    <3>3. NewMinute <=> n > guard.minute
      BY DEF NewMinute, n
    <3>4. CASE v \notin off
      BY <1>1, <1>2, <2>1, <2>2, <2>3, <3>1, <3>2, <3>3, <3>4 DEF Counted
    <3>5. CASE v \in off
      <4>1. /\ IsFiniteSet(astray[v] \cup {n})
            /\ Cardinality(astray[v] \cup {n}) =
               IF n \in astray[v] THEN Cardinality(astray[v]) ELSE Cardinality(astray[v]) + 1
        BY <2>1, FS_AddElement
      <4>2. NewMinute => n \notin astray[v]
        BY <1>1, <1>2, <2>1, <3>3
      <4>q. QED BY <1>1, <1>2, <2>1, <2>2, <3>1, <3>2, <3>3, <3>5, <4>1, <4>2 DEF Counted
    <3>q. QED BY <3>4, <3>5
  <2>q. QED BY <2>4, <2>5
<1>7. DOMAIN guard'.bad = Leg /\ guard' \in [minute : Nat, bad : [Leg -> 0..Consec]]
  <2>1. CASE ref = {}
    BY <1>1, <1>5, <2>1 DEF Unreferenced, Feeds, FeedTypes
  <2>2. CASE ref # {}
    <3>1. guard' = [minute |-> n, bad |-> IF NewMinute THEN [v \in Leg |-> Counted(v, off)]
                                          ELSE guard.bad]
      BY <1>5, <2>2 DEF Checked, n
    <3>2. \A v \in Leg : Counted(v, off) \in 0..Consec
      BY <1>1, <1>2 DEF Counted
    <3>q. QED BY <1>1, <1>2, <3>1, <3>2
  <2>q. QED BY <2>1, <2>2
<1>8. astray' \in [Leg -> SUBSET Nat]
  BY <1>3, <1>6
<1>9. CountedOnce'
  <2>1. "ext" \in Leg
    BY DEF Leg
  <2>2. guard'.minute <= n
    BY <1>6, <2>1
  <2>q. QED BY <1>6, <2>2 DEF CountedOnce, n
<1>10. SuppressesSustained'
  <2>1. ASSUME NEW v \in dropped' PROVE Cardinality(astray'[v]) >= Consec
    <3>1. v \in Leg /\ guard'.bad[v] >= Consec
      BY <1>1, <1>3
    <3>2. Cardinality(astray'[v]) \in Nat
      BY <1>6, <3>1, FS_CardinalityType
    <3>q. QED BY <1>1, <1>6, <3>1, <3>2
  <2>q. QED BY <2>1 DEF SuppressesSustained
<1>11. dropped' \subseteq Leg
  BY <1>1, <1>3
<1>q. QED BY <1>7, <1>8, <1>9, <1>10, <1>11

(***************************************************************************)
(* The invariant of the loop.                                               *)
(***************************************************************************)
Others ==
    /\ mode \in Modes /\ arm \in {"tick", "flatten"} /\ block \in {None, "session", "other"}
    /\ dev \subseteq Devs /\ caps \subseteq Caps /\ warm \in BOOLEAN

TickInv == Clock /\ Trade /\ Signals /\ Feeds /\ Others

HaltStep == arm = "tick" /\ ~dry /\ block = "session" /\ booked'["lt"] = {now}
                => machine'.phase # "Held"

LEMMA TickStarts == TickInit => TickInv
<1> SUFFICES ASSUME TickInit PROVE TickInv
  OBVIOUS
<1>1. now = Minute /\ Minute \in Nat /\ Minute > 0 /\ dry \in BOOLEAN
  BY LiveTickAssumption DEF TickInit
<1>2. machine = Flat /\ openQty = {} /\ held = {} /\ rejected = FALSE
  BY DEF TickInit, MachineInit
<1>3. Trade
  BY <1>2, FlatIsSound DEF Trade, Good, OnPaper
<1>4. Signals
  BY <1>1 DEF TickInit, Signals
<1>5. Feeds
  <2>1. \A v \in Leg : astray[v] = {} /\ guard.bad[v] = 0 /\ booked[v] = {}
    BY DEF TickInit
  <2>2. IsFiniteSet({}) /\ Cardinality({}) = 0
    BY FS_EmptySet
  <2>3. guard.minute = 0 /\ dropped = {}
    BY DEF TickInit
  <2>4. now \div Minute \in Nat /\ Consec \in Nat
    BY <1>1, MinuteIsNat, LiveTickAssumption
  <2>5. FeedTypes
    BY <2>4 DEF TickInit, FeedTypes
  <2>6. ReadBefore /\ SuppressesSustained
    BY <2>1, <2>3 DEF ReadBefore, SuppressesSustained
  <2>7. CountedOnce
    BY <2>1, <2>2, <2>3, <2>4 DEF CountedOnce
  <2>q. QED BY <2>5, <2>6, <2>7 DEF Feeds
<1>6. Others
  BY DEF TickInit, Others
<1>q. QED BY <1>1, <1>3, <1>4, <1>5, <1>6 DEF TickInv, Clock

\* A tick, without the loop around it.
LEMMA TickKeeps ==
    ASSUME TickInv, RunOneTick
    PROVE  TickInv' /\ Promised /\ HaltStep
<1>1. /\ arm = "tick" /\ arm' = "flatten" /\ UNCHANGED <<now, dry, mode, block>>
      /\ now \in Nat /\ warm \in BOOLEAN
  BY DEF RunOneTick, TickInv, Clock, Others
<1>2. Frame /\ Clock'
  BY <1>1 DEF TickInv, Frame, Clock
<1>3. ASSUME NEW v \in Leg, ReadFails(v) PROVE TickInv' /\ Promised /\ HaltStep
  <2>1. /\ ready' \in {ready, ready \cup {"ext"}}
        /\ UNCHANGED <<booked, guard, dropped, astray, dev, warm, caps, breach, seen, runs>>
        /\ UNCHANGED <<machine, openQty, held, rejected>>
    BY <1>3 DEF ReadFails, samples, signal, trade
  <2>2. Trade'
    BY <1>1, <2>1 DEF TickInv, Trade, Good, OnPaper, Sound
  <2>3. Signals' /\ Others'
    BY <1>1, <2>1 DEF TickInv, Signals, Others
  <2>4. Feeds'
    <3>1. FeedTypes'
      BY <2>1 DEF TickInv, Feeds, FeedTypes, Leg
    <3>2. ReadBefore' /\ CountedOnce' /\ SuppressesSustained'
      BY <1>1, <2>1 DEF TickInv, Feeds, ReadBefore, CountedOnce, SuppressesSustained
    <3>q. QED BY <3>1, <3>2 DEF Feeds
  <2>5. Promised
    BY <2>1 DEF Promised, Promise!stVars
  <2>6. HaltStep
    <3>1. SUFFICES ASSUME booked'["lt"] = {now} PROVE FALSE
      BY DEF HaltStep
    <3>2. \A t \in booked["lt"] : t < now
      BY <1>1 DEF TickInv, Feeds, ReadBefore, Leg
    <3>q. QED BY <1>1, <2>1, <3>1, <3>2
  <2>q. QED BY <1>2, <2>2, <2>3, <2>4, <2>5, <2>6 DEF TickInv
<1>4. ASSUME NEW ok, NEW ref \in Refs, ReadsBoth(ok, ref) PROVE TickInv' /\ Promised /\ HaltStep
  <2>1. /\ ready' = Leg /\ booked' = [v \in Leg |-> {now}]
        /\ IF Stale /\ Pos(machine) # {}
           THEN Flattens("WsStale") /\ UNCHANGED <<guard, dropped, astray, samples>>
           ELSE ReferenceGuard(ref) /\ Samples(ok)
    BY <1>4 DEF ReadsBoth, RecordsBoth
  <2>2. booked' \in [Leg -> SUBSET Nat] /\ ReadBefore'
    BY <1>1, <2>1 DEF ReadBefore
  <2>3. CASE Stale /\ Pos(machine) # {}
    <3>1. Flattens("WsStale") /\ UNCHANGED <<guard, dropped, astray, dev, warm>>
      BY <2>1, <2>3 DEF samples
    <3>2. "WsStale" \in EmergencyReason
      BY LiveTickAssumption
    <3>3. TickPost
      BY <1>2, <2>3, <3>1, <3>2, FlattensFacts DEF TickInv
    <3>4. caps' = caps
      BY <3>1 DEF Flattens, signal
    <3>5. Feeds'
      <4>1. FeedTypes'
        BY <2>1, <2>2, <3>1 DEF TickInv, Feeds, FeedTypes
      <4>2. CountedOnce' /\ SuppressesSustained'
        BY <1>1, <3>1 DEF TickInv, Feeds, CountedOnce, SuppressesSustained
      <4>q. QED BY <2>2, <4>1, <4>2 DEF Feeds
    <3>6. Others'
      BY <1>1, <3>1, <3>4 DEF TickInv, Others
    <3>q. QED BY <1>2, <3>3, <3>5, <3>6 DEF TickInv, TickPost, HaltStep
  <2>4. CASE ~(Stale /\ Pos(machine) # {})
    <3>1. ReferenceGuard(ref) /\ Samples(ok)
      BY <2>1, <2>4
    <3>2. TickPost /\ warm' \in BOOLEAN /\ dev' \subseteq Devs
      BY <1>1, <1>2, <3>1, SamplesFacts DEF TickInv, Others
    <3>3. caps' \subseteq Caps
      <4>1. ASSUME NEW m, NEW pos, Evaluates(m, pos) PROVE caps' \subseteq Caps
        BY <4>1 DEF Evaluates, TickInv, Others
      <4>2. ASSUME NEW c, Decides(c) PROVE caps' \subseteq Caps
        BY <4>1, <4>2 DEF Decides, signal, TickInv, Others
      <4>3. ASSUME NEW r, Flattens(r) PROVE caps' \subseteq Caps
        BY <4>3 DEF Flattens, signal, TickInv, Others
      <4>q. QED BY <3>1, <4>2, <4>3 DEF Samples
    <3>4. /\ CountedOnce' /\ SuppressesSustained' /\ dropped' \subseteq Leg
          /\ guard' \in [minute : Nat, bad : [Leg -> 0..Consec]]
          /\ astray' \in [Leg -> SUBSET Nat]
      BY <1>1, <3>1, GuardFacts DEF TickInv
    <3>5. Feeds'
      BY <2>1, <2>2, <3>4 DEF Feeds, FeedTypes
    <3>6. Others'
      BY <1>1, <3>2, <3>3 DEF TickInv, Others
    <3>q. QED BY <1>2, <3>2, <3>5, <3>6 DEF TickInv, TickPost, HaltStep
  <2>q. QED BY <2>3, <2>4
<1>q. QED BY <1>3, <1>4 DEF RunOneTick

\* The rest of the loop body completes an emergency or leaves the trip alone.
LEMMA RestKeeps ==
    ASSUME TickInv, RestOfLoop
    PROVE  TickInv' /\ Promised /\ HaltStep
<1>1. PICK gap \in Gaps : now' = now + gap
  BY DEF RestOfLoop
<1>2. /\ arm = "flatten" /\ arm' = "tick" /\ block' \in {None, "session", "other"}
      /\ UNCHANGED <<dry, mode, held, rejected>>
      /\ UNCHANGED <<ready, booked, guard, dropped, astray, dev, warm, caps, breach, seen, runs>>
      /\ machine' \in IF dry THEN {machine} ELSE {machine, Completed}
      /\ openQty' = IF machine' = machine THEN openQty ELSE {}
  BY DEF RestOfLoop, feeds, samples, signal
<1>3. now \in Nat /\ gap \in Nat /\ gap > 0 /\ now' \in Nat /\ now < now'
  BY <1>1, LiveTickAssumption DEF TickInv, Clock
<1>4. Clock' /\ Others'
  BY <1>2, <1>3 DEF TickInv, Clock, Others
<1>5. Signals'
  BY <1>2, <1>3 DEF TickInv, Signals, Breach
<1>6. Feeds'
  <2>1. FeedTypes' /\ ReadBefore' /\ SuppressesSustained'
    <3>1. FeedTypes' /\ SuppressesSustained'
      BY <1>2 DEF TickInv, Feeds, FeedTypes, SuppressesSustained
    <3>2. ASSUME NEW v \in Leg, NEW t \in booked'[v] PROVE t <= now' /\ t < now'
      <4>1. t \in booked[v]
        BY <1>2
      <4>2. t \in Nat /\ t <= now
        BY <4>1 DEF TickInv, Feeds, FeedTypes, ReadBefore
      <4>q. QED BY <1>3, <4>2
    <3>3. ReadBefore'
      BY <3>2 DEF ReadBefore
    <3>q. QED BY <3>1, <3>3
  <2>2. now \div Minute <= now' \div Minute
    <3>1. now <= now' /\ Minute \in Nat \ {0}
      BY <1>3, LiveTickAssumption
    <3>q. QED BY <1>3, <3>1, DivMonotone
  <2>3. now \div Minute \in Nat /\ now' \div Minute \in Nat /\ guard.minute \in Nat
    BY <1>3, MinuteIsNat DEF TickInv, Feeds, FeedTypes
  <2>4. CountedOnce'
    BY <1>2, <2>2, <2>3 DEF TickInv, Feeds, CountedOnce
  <2>q. QED BY <2>1, <2>4 DEF Feeds
<1>7. HaltStep
  BY <1>2 DEF HaltStep
<1>8. CASE machine' = machine
  <2>1. Trade'
    BY <1>2, <1>3, <1>8 DEF TickInv, Trade, Good, OnPaper, Sound, HeldPos
  <2>2. UNCHANGED <<machine, held, seen, runs>>
    BY <1>2, <1>8
  <2>3. Promised
    BY <2>2 DEF Promised, Promise!stVars
  <2>q. QED BY <1>4, <1>5, <1>6, <1>7, <2>1, <2>3 DEF TickInv
<1>9. CASE machine' # machine
  <2>1. ~dry /\ machine' = Completed /\ openQty' = {}
    BY <1>2, <1>9
  <2>2. machine.phase = "EmergencyFlattening"
    BY <1>9, <2>1 DEF Completed, Apply, EmergencyComplete, Accepts
  <2>3. machine' = Flat
    BY <2>1, <2>2, Arms DEF Completed
  <2>4. held = {} /\ held' = {} /\ rejected' = FALSE /\ ~dry'
    BY <1>2, <2>1, <2>2 DEF TickInv, Trade
  <2>5. Trade'
    BY <2>1, <2>3, <2>4, FlatIsSound DEF Trade, Good, Sound
  <2>6. Looked
    BY <1>2, LookedAgain DEF TickInv
  <2>7. Promised
    BY <2>2, <2>3, <2>4, <2>6, FlatIsSound, PromisedClose
  <2>q. QED BY <1>4, <1>5, <1>6, <1>7, <2>5, <2>7 DEF TickInv
<1>q. QED BY <1>8, <1>9

LEMMA TickNextKeeps ==
    ASSUME TickInv, [TickNext \/ Over]_tickVars
    PROVE  TickInv' /\ Promised /\ [HaltStep]_tickVars
<1>1. CASE TickNext
  BY <1>1, TickKeeps, RestKeeps DEF TickNext
<1>2. CASE UNCHANGED tickVars
  <2>1. /\ UNCHANGED <<now, dry, mode, arm, block, ready, booked, guard, dropped, astray>>
        /\ UNCHANGED <<dev, warm, caps, breach, seen, runs, machine, openQty, held, rejected>>
    BY <1>2 DEF tickVars, feeds, samples, signal, trade
  <2>2. Clock' /\ Trade'
    BY <2>1 DEF TickInv, Clock, Trade, Good, OnPaper, Sound
  <2>3. Signals' /\ Others'
    BY <2>1 DEF TickInv, Signals, Others
  <2>4. Feeds'
    BY <2>1 DEF TickInv, Feeds, FeedTypes, ReadBefore, CountedOnce, SuppressesSustained
  <2>5. Promised
    BY <2>1 DEF Promised, Promise!stVars
  <2>q. QED BY <1>2, <2>2, <2>3, <2>4, <2>5 DEF TickInv
<1>q. QED BY <1>1, <1>2 DEF Over

LEMMA TickInvariant == TickSpec => []TickInv
<1>1. TickInit => TickInv
  BY TickStarts
<1>2. TickInv /\ [TickNext \/ Over]_tickVars => TickInv'
  BY TickNextKeeps
<1>q. QED BY <1>1, <1>2, PTL DEF TickSpec

\* Every variable of the loop keeps its type.
THEOREM TickTypeCorrect == TickSpec => []TickTypeOK
<1>1. TickInv => TickTypeOK
  <2> SUFFICES ASSUME TickInv PROVE TickTypeOK
    OBVIOUS
  <2>1. machine \in Machine /\ openQty \subseteq Qty /\ rejected \in BOOLEAN
    BY DEF TickInv, Trade, Good, Sound
  <2>2. held \subseteq [dir : Dir, at : Nat] /\ (held = {} <=> machine.phase # "Held")
    BY DEF TickInv, Trade, HeldPos
  <2>3. breach \subseteq [dir : Dir, at : Nat] /\ seen \in Nat /\ runs \in [Dir -> SUBSET Nat]
    BY DEF TickInv, Signals, Breach
  <2>q. QED BY <2>1, <2>2, <2>3 DEF TickTypeOK, TickInv, Clock, Feeds, FeedTypes, Others
<1>q. QED BY <1>1, TickInvariant, PTL

\* No tick applies an event the machine rejects: whatever watchdog fires, and
\* whatever a forced flatten leaves, the handlers after it ask first.
THEOREM TickNeverRejects == TickSpec => []NeverRejects
<1>1. TickInv => NeverRejects
  BY DEF TickInv, Trade, NeverRejects
<1>q. QED BY <1>1, TickInvariant, PTL

\* A paper runner is flat or holds what open_qty says, after every tick.
THEOREM TickPaperNeverStrands == TickSpec => []PaperNeverStrands
<1>1. TickInv => PaperNeverStrands
  BY DEF TickInv, Trade, Good, OnPaper, PaperNeverStrands
<1>q. QED BY <1>1, TickInvariant, PTL

\* A book is suppressed only after Consec minutes off the reference in a row.
THEOREM TickSuppressesSustained == TickSpec => []SuppressesSustained
<1>1. TickInv => SuppressesSustained
  BY DEF TickInv, Feeds
<1>q. QED BY <1>1, TickInvariant, PTL

\* A live tick that reads both venues in a halted session leaves nothing held.
THEOREM TickHaltFlattens == TickSpec => HaltFlattens
<1>1. TickInv /\ [TickNext \/ Over]_tickVars => [HaltStep]_tickVars
  BY TickNextKeeps
<1>q. QED BY <1>1, TickInvariant, PTL DEF TickSpec, HaltFlattens, HaltStep

\* The live loop does what the strategy promises, through emergencies, failed
\* entries and unfinished exits.
THEOREM TickKeepsStrategy == TickSpec => KeepsStrategy
<1>1. TickInit => Promise!StInit
  BY DEF TickInit, MachineInit, Flat, Promise!StInit
<1>2. TickInv /\ [TickNext \/ Over]_tickVars => [Promise!StNext]_(Promise!stVars)
  BY TickNextKeeps DEF Promised
<1>q. QED BY <1>1, <1>2, TickInvariant, PTL DEF TickSpec, KeepsStrategy, Promise!StSpec
=============================================================================

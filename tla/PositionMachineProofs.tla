----------------------- MODULE PositionMachineProofs -----------------------
(* Theorems about the position machine, for every set of quantities and       *)
(* reasons.  The arguments are about Apply, one event at a time, so modules   *)
(* that apply several events in a step can use the lemmas too.                *)
EXTENDS PositionMachine, TLAPS

Event ==
    [kind : {"EntrySignal", "ExtendedFailed", "LighterFailed", "EmergencyComplete", "Reset"}]
    \cup [kind : {"ExtendedFilled", "LighterFilled"}, qty : Qty]
    \cup [kind : {"ExitSignal"}, reason : ExitReason]
    \cup [kind : {"ExitFilled"}, leg : Leg, qty : Qty]
    \cup [kind : {"Emergency"}, reason : EmergencyReason]

\* A machine state check_invariants accepts.
Sound(m) == m \in Machine /\ CheckInvariants(m)

\* The runner applies every event but Reset.
RunnerEvent == {e \in Event : e.kind # "Reset"}

EventConstructors ==
    /\ Reset \in Event
    /\ EntrySignal \in RunnerEvent /\ ExtendedFailed \in RunnerEvent
    /\ LighterFailed \in RunnerEvent /\ EmergencyComplete \in RunnerEvent
    /\ \A q \in Qty : ExtendedFilled(q) \in RunnerEvent /\ LighterFilled(q) \in RunnerEvent
    /\ \A r \in ExitReason : ExitSignal(r) \in RunnerEvent
    /\ \A l \in Leg, q \in Qty : ExitFilled(l, q) \in RunnerEvent
    /\ \A r \in EmergencyReason : Emergency(r) \in RunnerEvent

\* What MachineAssumption says of a single quantity.
LEMMA QtyIsPositive == \A q \in Qty : q \in Nat /\ q > 0
BY MachineAssumption

\* The constructors build events, none but Reset outside the runner's.
LEMMA ConstructorsAreEvents == EventConstructors
BY DEF EventConstructors, RunnerEvent, Event, EntrySignal, ExtendedFailed, LighterFailed,
       EmergencyComplete, Reset, ExtendedFilled, LighterFilled, ExitSignal,
       ExitFilled, Emergency

\* A step of the machine is the application of one event, and the runner's
\* events are all but Reset.
LEMMA StepsAreEvents ==
    /\ MachineNext => \E e \in RunnerEvent : machine' = Apply(machine, e)
    /\ Fire(Reset) => \E e \in Event : machine' = Apply(machine, e)
BY ConstructorsAreEvents DEF MachineNext, Fire, EventConstructors

\* In Held, Exiting and the other busy phases the machine has a position.
LEMMA BusyHasPosition ==
    ASSUME NEW m, Sound(m), m.phase # "Flat"
    PROVE  m.position \in Position
BY DEF Sound, Machine, CheckInvariants

OpenedPost(p, l, q) ==
    /\ Opened(p, l, q) \in Position
    /\ Opened(p, l, q).open[l] = p.open[l] + q
    /\ \A k \in Leg \ {l} : Opened(p, l, q).open[k] = p.open[k]

\* An entry fill adds to its leg and to nothing else.
LEMMA OpenedGrows ==
    ASSUME NEW p \in Position, NEW l \in Leg, NEW q \in Nat
    PROVE  OpenedPost(p, l, q)
BY DEF OpenedPost, Opened, Position

\* The clamp of an exit fill: the leg stays a natural number and never grows,
\* the other leg is untouched.
LEMMA DrainedShrinks ==
    ASSUME NEW p \in Position, NEW l \in Leg, NEW q \in Nat
    PROVE  /\ Drained(p, l, q) \in Position
           /\ Drained(p, l, q).open[l] <= p.open[l]
           /\ \A k \in Leg \ {l} : Drained(p, l, q).open[k] = p.open[k]
BY DEF Drained, Position

\* Every event, accepted or rejected, keeps the machine sound.
LEMMA ApplyKeepsSound ==
    ASSUME NEW m, Sound(m), NEW e \in Event
    PROVE  Sound(Apply(m, e))
<1>1. CASE m.phase \notin Accepts[e.kind]
  BY <1>1 DEF Apply
<1>2. CASE m.phase \in Accepts[e.kind]
  <2>. DEFINE p == m.position
  <2>1. CASE e.kind = "EntrySignal"
    <3>1. Apply(m, e) = At("EnteringExtended", Fresh)
      BY <1>2, <2>1 DEF Apply
    <3>2. Fresh \in Position /\ NoneOpen(Fresh)
      BY DEF Fresh, Position, NoneOpen
    <3>. QED BY <3>1, <3>2, MachineAssumption
             DEF At, Sound, Machine, Phase, CheckInvariants
  <2>2. CASE e.kind = "ExtendedFilled"
    <3>1. m.phase = "EnteringExtended" /\ e.qty \in Qty /\ Apply(m, e) = OnExtendedFilled(p, e.qty)
      BY <1>2, <2>2 DEF Apply, Accepts, Event
    <3>2. p \in Position /\ NoneOpen(p)
      BY <3>1, BusyHasPosition DEF Sound, CheckInvariants
    <3>3. e.qty \in Nat /\ e.qty > 0
      BY <3>1, QtyIsPositive
    <3>4. OpenedPost(p, "ext", e.qty)
      BY <3>2, <3>3, OpenedGrows DEF Leg
    <3>. QED BY <3>1, <3>2, <3>3, <3>4, MachineAssumption
             DEF OnExtendedFilled, OpenedPost, At, Sound, Machine, Phase, Position,
                 CheckInvariants, NoneOpen, Leg
  <2>3. CASE e.kind = "ExtendedFailed"
    <3>1. m.phase = "EnteringExtended" /\ Apply(m, e) = OnExtendedFailed(p)
      BY <1>2, <2>3 DEF Apply, Accepts
    <3>2. p \in Position /\ NoneOpen(p)
      BY <3>1, BusyHasPosition DEF Sound, CheckInvariants
    <3>. QED BY <3>1, <3>2, MachineAssumption
             DEF OnExtendedFailed, Flat, Sound, Machine, Phase, CheckInvariants
  <2>4. CASE e.kind = "LighterFilled"
    <3>1. m.phase = "EnteringLighter" /\ e.qty \in Qty /\ Apply(m, e) = OnLighterFilled(p, e.qty)
      BY <1>2, <2>4 DEF Apply, Accepts, Event
    <3>2. p \in Position /\ p.open["ext"] > 0 /\ p.open["lt"] = 0
      BY <3>1, BusyHasPosition DEF Sound, CheckInvariants
    <3>. DEFINE o == Opened(p, "lt", e.qty)
                n == [o EXCEPT !.fullyFilled = TRUE]
    <3>3. e.qty \in Nat /\ e.qty > 0
      BY <3>1, QtyIsPositive
    <3>4. OpenedPost(p, "lt", e.qty)
      BY <3>2, <3>3, OpenedGrows DEF Leg
    <3>5. o \in Position /\ o.open["ext"] > 0 /\ o.open["lt"] > 0
      BY <3>2, <3>3, <3>4 DEF OpenedPost, Position, Leg
    <3>6. Apply(m, e) = At("Held", n)
      BY <3>1 DEF OnLighterFilled
    <3>. HIDE DEF o
    <3>7. n \in Position /\ n.open = o.open /\ n.fullyFilled
      BY <3>5 DEF Position
    <3>. HIDE DEF n
    <3>. QED BY <3>5, <3>6, <3>7, MachineAssumption DEF At, Sound, Machine, Phase, CheckInvariants
  <2>5. CASE e.kind = "LighterFailed"
    <3>1. m.phase = "EnteringLighter" /\ Apply(m, e) = Flattening(p, "LighterEntryFailed")
      BY <1>2, <2>5 DEF Apply, Accepts
    <3>2. p \in Position
      BY <3>1, BusyHasPosition
    <3>. QED BY <3>1, <3>2, MachineAssumption
             DEF Flattening, At, Sound, Machine, Phase, Position, CheckInvariants
  <2>6. CASE e.kind = "ExitSignal"
    <3>1. /\ m.phase = "Held" /\ e.reason \in ExitReason
          /\ Apply(m, e) = At("Exiting", [p EXCEPT !.exitReason = e.reason])
      BY <1>2, <2>6 DEF Apply, Accepts, Event
    <3>2. p \in Position
      BY <3>1, BusyHasPosition
    <3>. QED BY <3>1, <3>2, MachineAssumption
             DEF At, Sound, Machine, Phase, Position, CheckInvariants
  <2>7. CASE e.kind = "ExitFilled"
    <3>1. /\ m.phase \in {"Exiting", "EmergencyFlattening"}
          /\ e.leg \in Leg /\ e.qty \in Qty
          /\ Apply(m, e) = OnExitFilled(m.phase, p, e.leg, e.qty)
      BY <1>2, <2>7 DEF Apply, Accepts, Event
    <3>2. Drained(p, e.leg, e.qty) \in Position
      BY <3>1, BusyHasPosition, DrainedShrinks, QtyIsPositive
    <3>. QED BY <3>1, <3>2, MachineAssumption
             DEF OnExitFilled, Flat, At, Sound, Machine, Phase, CheckInvariants
  <2>8. CASE e.kind = "Emergency"
    <3>1. /\ m.phase \in {"EnteringExtended", "EnteringLighter", "Held", "Exiting"}
          /\ e.reason \in EmergencyReason
          /\ Apply(m, e) = Flattening(p, e.reason)
      BY <1>2, <2>8 DEF Apply, Accepts, Event
    <3>2. p \in Position
      BY <3>1, BusyHasPosition
    <3>. QED BY <3>1, <3>2, MachineAssumption
             DEF Flattening, At, Sound, Machine, Phase, Position, CheckInvariants
  <2>9. CASE e.kind \in {"EmergencyComplete", "Reset"}
    BY <1>2, <2>9 DEF Apply, Flat, Sound, Machine, Phase, CheckInvariants
  <2>. QED BY <2>1, <2>2, <2>3, <2>4, <2>5, <2>6, <2>7, <2>8, <2>9 DEF Event
<1>. QED BY <1>1, <1>2

\* The machine starts sound.
LEMMA InitIsSound == ASSUME MachineInit PROVE Sound(machine)
BY DEF MachineInit, Flat, Sound, Machine, Phase, CheckInvariants

\* Type correctness and check_invariants together are inductive: whatever the
\* order of the events, the machine never drifts off its documented invariants.
THEOREM MachineInvariant == MachineSpec => [](MachineTypeOK /\ MachineConsistent)
<1>. DEFINE Inv == Sound(machine)
<1>1. MachineInit => Inv
  BY InitIsSound
<1>2. Inv /\ [MachineNext \/ Fire(Reset)]_machine => Inv'
  <2>. SUFFICES ASSUME Inv, [MachineNext \/ Fire(Reset)]_machine PROVE Inv'
    OBVIOUS
  <2>1. CASE MachineNext \/ Fire(Reset)
    BY <2>1, StepsAreEvents, ApplyKeepsSound DEF RunnerEvent
  <2>2. CASE UNCHANGED machine
    BY <2>2 DEF Sound
  <2>. QED BY <2>1, <2>2
<1>3. Inv => MachineTypeOK /\ MachineConsistent
  BY DEF Sound, MachineTypeOK, MachineConsistent
<1>. QED BY <1>1, <1>2, <1>3, PTL DEF MachineSpec

\* The abstract trip a machine state stands for.
LEMMA RecordedIsOpen ==
    ASSUME NEW p \in Position, NEW ph
    PROVE  Recorded(At(ph, p)) = p.open
BY MachineAssumption DEF Recorded, At

\* Applying an accepted event is a step of RoundTrip, or leaves the trip alone.
LEMMA ApplyIsRoundTripStep ==
    ASSUME Sound(machine), NEW e \in RunnerEvent, machine' = Apply(machine, e)
    PROVE  [RT!RTNext]_(RT!rtVars)
<1>. DEFINE p == machine.position
            ph == machine.phase
<1>1. CASE ph \notin Accepts[e.kind]
  BY <1>1 DEF Apply, RT!rtVars
<1>2. CASE ph \in Accepts[e.kind]
  <2>1. CASE e.kind = "EntrySignal"
    <3>1. ph = "Flat" /\ machine' = At("EnteringExtended", Fresh) /\ p = None
      BY <1>2, <2>1 DEF Apply, Accepts, Sound, CheckInvariants
    <3>2. Fresh \in Position /\ Fresh.open = [l \in Leg |-> 0]
      BY DEF Fresh, Position
    <3>3. Recorded(machine') = [l \in Leg |-> 0]
      BY <3>1, <3>2, RecordedIsOpen
    <3>4. RT!Begin
      BY <3>1, <3>3 DEF RT!Begin, RT!Nothing, StageOf, At
    <3>. QED BY <3>4 DEF RT!RTNext
  <2>2. CASE e.kind = "ExtendedFilled"
    <3>1. /\ ph = "EnteringExtended" /\ e.qty \in Qty
          /\ machine' = At("EnteringLighter", Opened(p, "ext", e.qty))
      BY <1>2, <2>2 DEF Apply, Accepts, RunnerEvent, Event, OnExtendedFilled
    <3>2. p \in Position /\ p # None /\ p.open = [l \in Leg |-> 0]
      BY <3>1, BusyHasPosition, MachineAssumption DEF Sound, CheckInvariants, NoneOpen, Position
    <3>3. e.qty \in Nat /\ OpenedPost(p, "ext", e.qty)
      BY <3>1, <3>2, QtyIsPositive, OpenedGrows DEF Leg
    <3>4. Recorded(machine) = [l \in Leg |-> 0]
      BY <3>2 DEF Recorded
    <3>5. Recorded(machine') = Opened(p, "ext", e.qty).open
      BY <3>1, <3>3, RecordedIsOpen DEF OpenedPost
    <3>6. Opened(p, "ext", e.qty).open = [[l \in Leg |-> 0] EXCEPT !["ext"] = e.qty]
      BY <3>2, <3>3 DEF OpenedPost, Position, Leg
    <3>7. RT!OpenFirst(e.qty)
      BY <3>1, <3>4, <3>5, <3>6 DEF RT!OpenFirst, RT!Nothing, StageOf, At
    <3>. QED BY <3>1, <3>7 DEF RT!RTNext
  <2>3. CASE e.kind = "ExtendedFailed"
    <3>1. ph = "EnteringExtended" /\ machine' = OnExtendedFailed(p)
      BY <1>2, <2>3 DEF Apply, Accepts
    <3>2. p \in Position /\ p # None /\ NoneOpen(p) /\ p.open = [l \in Leg |-> 0]
      BY <3>1, BusyHasPosition, MachineAssumption DEF Sound, CheckInvariants, NoneOpen, Position
    <3>3. RT!Abandon
      BY <3>1, <3>2 DEF OnExtendedFailed, Flat, RT!Abandon, RT!Nothing, StageOf, Recorded
    <3>. QED BY <3>3 DEF RT!RTNext
  <2>4. CASE e.kind = "LighterFilled"
    <3>. DEFINE o == Opened(p, "lt", e.qty)
                n == [o EXCEPT !.fullyFilled = TRUE]
    <3>1. ph = "EnteringLighter" /\ e.qty \in Qty /\ machine' = At("Held", n)
      BY <1>2, <2>4 DEF Apply, Accepts, RunnerEvent, Event, OnLighterFilled
    <3>2. p \in Position /\ p # None /\ p.open["ext"] > 0 /\ p.open["lt"] = 0
      BY <3>1, BusyHasPosition, MachineAssumption DEF Sound, CheckInvariants
    <3>3. e.qty \in Nat /\ OpenedPost(p, "lt", e.qty)
      BY <3>1, <3>2, QtyIsPositive, OpenedGrows DEF Leg
    <3>4. o \in Position /\ o.open = [p.open EXCEPT !["lt"] = e.qty]
      BY <3>2, <3>3 DEF OpenedPost, Position, Leg
    <3>. HIDE DEF o
    <3>5. n \in Position /\ n.open = o.open
      BY <3>4 DEF Position
    <3>6. Recorded(machine) = p.open
      BY <3>2 DEF Recorded
    <3>. HIDE DEF n
    <3>7. Recorded(machine') = n.open
      BY <3>1, <3>5, RecordedIsOpen
    <3>8. RT!OpenSecond("lt", e.qty)
      BY <3>1, <3>2, <3>4, <3>5, <3>6, <3>7 DEF RT!OpenSecond, StageOf, At
    <3>. QED BY <3>1, <3>8 DEF RT!RTNext, Leg
  <2>5. CASE e.kind = "ExitSignal"
    <3>. DEFINE n == [p EXCEPT !.exitReason = e.reason]
    <3>1. ph = "Held" /\ e.reason \in ExitReason /\ machine' = At("Exiting", n)
      BY <1>2, <2>5 DEF Apply, Accepts, RunnerEvent, Event
    <3>2. p \in Position /\ p # None
      BY <3>1, BusyHasPosition, MachineAssumption
    <3>3. n \in Position /\ n.open = p.open
      BY <3>1, <3>2 DEF Position
    <3>. HIDE DEF n
    <3>4. Recorded(machine') = Recorded(machine)
      BY <3>1, <3>2, <3>3, RecordedIsOpen DEF Recorded
    <3>5. RT!StartClosing
      BY <3>1, <3>4 DEF RT!StartClosing, StageOf, At
    <3>. QED BY <3>5 DEF RT!RTNext
  <2>6. CASE e.kind \in {"Emergency", "LighterFailed"}
    <3>1. PICK r \in EmergencyReason : machine' = Flattening(p, r)
      BY <1>2, <2>6, MachineAssumption DEF Apply, RunnerEvent, Event
    <3>. DEFINE n == [p EXCEPT !.emergencyReason = r]
    <3>2. ph \in {"EnteringExtended", "EnteringLighter", "Held", "Exiting"}
      BY <1>2, <2>6 DEF Accepts
    <3>3. p \in Position /\ p # None
      BY <3>2, BusyHasPosition, MachineAssumption
    <3>4. n \in Position /\ n.open = p.open
      BY <3>3 DEF Position
    <3>5. machine' = At("EmergencyFlattening", n)
      BY <3>1 DEF Flattening
    <3>. HIDE DEF n
    <3>6. Recorded(machine') = Recorded(machine)
      BY <3>3, <3>4, <3>5, RecordedIsOpen DEF Recorded
    <3>7. RT!StartUnwinding
      BY <3>2, <3>5, <3>6 DEF RT!StartUnwinding, StageOf, At
    <3>. QED BY <3>7 DEF RT!RTNext
  <2>7. CASE e.kind = "ExitFilled"
    <3>. DEFINE n == Drained(p, e.leg, e.qty)
    <3>1. /\ ph \in {"Exiting", "EmergencyFlattening"}
          /\ e.leg \in Leg /\ e.qty \in Qty
          /\ machine' = OnExitFilled(ph, p, e.leg, e.qty)
      BY <1>2, <2>7 DEF Apply, Accepts, RunnerEvent, Event
    <3>2. p \in Position /\ p # None
      BY <3>1, BusyHasPosition, MachineAssumption
    <3>3. /\ n \in Position /\ n.open[e.leg] <= p.open[e.leg]
          /\ \A k \in Leg \ {e.leg} : n.open[k] = p.open[k]
      BY <3>1, <3>2, DrainedShrinks, QtyIsPositive
    <3>. HIDE DEF n
    <3>4. Recorded(machine) = p.open /\ n.open \in [Leg -> Nat]
      BY <3>2, <3>3 DEF Recorded, Position
    <3>5. NoneOpen(n) <=> n.open = [l \in Leg |-> 0]
      BY <3>4 DEF NoneOpen
    <3>6. CASE ph = "Exiting" /\ NoneOpen(n)
      <4>1. machine' = Flat
        BY <3>1, <3>6 DEF OnExitFilled, n
      <4>2. Recorded(machine') = n.open
        BY <3>5, <3>6, <4>1 DEF Recorded, Flat
      <4>3. RT!Shrink(e.leg)
        BY <3>1, <3>3, <3>4, <3>5, <3>6, <4>1, <4>2 DEF RT!Shrink, RT!Nothing, StageOf, Flat
      <4>. QED BY <3>1, <4>3 DEF RT!RTNext
    <3>7. CASE ~(ph = "Exiting" /\ NoneOpen(n))
      <4>1. machine' = At(ph, n)
        BY <3>1, <3>7 DEF OnExitFilled, n
      <4>2. Recorded(machine') = n.open
        BY <3>3, <4>1, RecordedIsOpen
      <4>3. RT!Shrink(e.leg)
        BY <3>1, <3>3, <3>4, <3>5, <3>7, <4>1, <4>2 DEF RT!Shrink, RT!Nothing, StageOf, At
      <4>. QED BY <3>1, <4>3 DEF RT!RTNext
    <3>. QED BY <3>6, <3>7
  <2>8. CASE e.kind = "EmergencyComplete"
    <3>1. machine' = Flat /\ ph = "EmergencyFlattening"
      BY <1>2, <2>8 DEF Apply, Accepts
    <3>2. RT!Confirm
      BY <3>1 DEF RT!Confirm, RT!Nothing, StageOf, Recorded, Flat
    <3>. QED BY <3>2 DEF RT!RTNext
  <2>. QED BY <2>1, <2>2, <2>3, <2>4, <2>5, <2>6, <2>7, <2>8 DEF RunnerEvent, Event
<1>. QED BY <1>1, <1>2

\* The machine implements the abstract round trip: no order of events makes
\* its books jump.
THEOREM MachineImplementsRoundTrip == RunnerMachineSpec => KeepsRoundTrip
<1>. DEFINE Inv == Sound(machine)
<1>1. MachineInit => RT!RTInit
  BY DEF MachineInit, Flat, RT!RTInit, RT!Nothing, StageOf, Recorded
<1>2. MachineInit => Inv
  BY InitIsSound
<1>3. Inv /\ [MachineNext]_machine => Inv'
  <2>1. ASSUME Inv, MachineNext PROVE Inv'
    BY <2>1, StepsAreEvents, ApplyKeepsSound DEF RunnerEvent
  <2>2. ASSUME Inv, UNCHANGED machine PROVE Inv'
    BY <2>2
  <2>. QED BY <2>1, <2>2
<1>4. Inv /\ [MachineNext]_machine => [RT!RTNext]_(RT!rtVars)
  <2>1. ASSUME Inv, MachineNext PROVE [RT!RTNext]_(RT!rtVars)
    BY <2>1, StepsAreEvents, ApplyIsRoundTripStep
  <2>2. ASSUME UNCHANGED machine PROVE [RT!RTNext]_(RT!rtVars)
    BY <2>2 DEF RT!rtVars
  <2>. QED BY <2>1, <2>2
<1>. QED BY <1>1, <1>2, <1>3, <1>4, PTL DEF RunnerMachineSpec, KeepsRoundTrip, RT!RTSpec

\* Quantities stay natural numbers, whatever is filled more than was open
\* (state.rs:334-350).
THEOREM MachineTypeCorrect == MachineSpec => []MachineTypeOK
<1>1. MachineTypeOK /\ MachineConsistent => MachineTypeOK
  OBVIOUS
<1>. QED BY <1>1, MachineInvariant, PTL
=============================================================================

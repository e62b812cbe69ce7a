-------------------------- MODULE PositionMachine --------------------------
(***************************************************************************)
(* The position state machine of src/src/xvenue/state.rs: a phase and an    *)
(* optional position, moved by the events the runner and the execution      *)
(* layer apply.  Events are values and Apply is a function of the machine,  *)
(* so that modules which extend this one can apply several events in one    *)
(* handler, as the runner does.                                             *)
(*                                                                          *)
(* Data left out: direction, target notional and timestamps (no transition  *)
(* reads them); fully_filled_ts_ms is kept as "is it set".                  *)
(***************************************************************************)
EXTENDS Integers

CONSTANTS
    None,               \* Rust's Option::None
    Qty,                \* quantities an executor may report as filled
    ExitReason,         \* signal::ExitReason
    EmergencyReason     \* state::EmergencyReason

Leg == {"ext", "lt"}

Phase == {"Flat", "EnteringExtended", "EnteringLighter", "Held", "Exiting",
          "EmergencyFlattening"}

Position == [open : [Leg -> Nat],
             fullyFilled : BOOLEAN,
             exitReason : ExitReason \cup {None},
             emergencyReason : EmergencyReason \cup {None}]

\* Executors report Filled only with a positive quantity; the reasons apply
\* stores by itself are reasons; None is no position.
ASSUME MachineAssumption ==
    /\ Qty \subseteq Nat \ {0}
    /\ {"ExtendedEntryFailed", "LighterEntryFailed"} \subseteq EmergencyReason
    /\ None \notin Position

VARIABLE machine        \* PositionMachine: [phase, position]

Machine == [phase : Phase, position : Position \cup {None}]

(***************************************************************************)
(* Events.                                                                  *)
(***************************************************************************)
EntrySignal         == [kind |-> "EntrySignal"]
ExtendedFilled(q)   == [kind |-> "ExtendedFilled", qty |-> q]
ExtendedFailed      == [kind |-> "ExtendedFailed"]
LighterFilled(q)    == [kind |-> "LighterFilled", qty |-> q]
LighterFailed       == [kind |-> "LighterFailed"]
ExitSignal(r)       == [kind |-> "ExitSignal", reason |-> r]
ExitFilled(l, q)    == [kind |-> "ExitFilled", leg |-> l, qty |-> q]
Emergency(r)        == [kind |-> "Emergency", reason |-> r]
EmergencyComplete   == [kind |-> "EmergencyComplete"]
Reset               == [kind |-> "Reset"]

\* The phases in which apply has an arm for each kind of event.
Accepts ==
    [EntrySignal       |-> {"Flat"},
     ExtendedFilled    |-> {"EnteringExtended"},
     ExtendedFailed    |-> {"EnteringExtended"},
     LighterFilled     |-> {"EnteringLighter"},
     LighterFailed     |-> {"EnteringLighter"},
     ExitSignal        |-> {"Held"},
     ExitFilled        |-> {"Exiting", "EmergencyFlattening"},
     Emergency         |-> {"EnteringExtended", "EnteringLighter", "Held", "Exiting"},
     EmergencyComplete |-> {"EmergencyFlattening"},
     Reset             |-> Phase]

(***************************************************************************)
(* The arms of apply: the machine after an accepted event.                  *)
(***************************************************************************)
Flat == [phase |-> "Flat", position |-> None]

At(ph, p) == [phase |-> ph, position |-> p]

NoneOpen(p) == \A l \in Leg : p.open[l] = 0

Fresh == [open |-> [l \in Leg |-> 0], fullyFilled |-> FALSE,
          exitReason |-> None, emergencyReason |-> None]

Flattening(p, r) == At("EmergencyFlattening", [p EXCEPT !.emergencyReason = r])

Opened(p, l, q) == [p EXCEPT !.open[l] = @ + q]

OnExtendedFilled(p, q) == At("EnteringLighter", Opened(p, "ext", q))

OnExtendedFailed(p) ==
    IF NoneOpen(p) THEN Flat ELSE Flattening(p, "ExtendedEntryFailed")

\* Mutant: the hold clock is not started.
HoldClockForgotten(p, q) == At("Held", Opened(p, "lt", q))

OnLighterFilled(p, q) ==
    At("Held", [Opened(p, "lt", q) EXCEPT !.fullyFilled = TRUE])

\* A fill larger than what is recorded is clamped at zero.
Drained(p, l, q) == [p EXCEPT !.open[l] = IF @ > q THEN @ - q ELSE 0]

\* Mutant: only the leg that filled is looked at.
FlatOnFirstLeg(ph, p, l, q) ==
    IF ph = "Exiting" /\ Drained(p, l, q).open[l] = 0 THEN Flat ELSE At(ph, Drained(p, l, q))

\* Exiting drains to Flat by itself, EmergencyFlattening waits for
\* EmergencyComplete.
OnExitFilled(ph, p, l, q) ==
    IF ph = "Exiting" /\ NoneOpen(Drained(p, l, q))
    THEN Flat
    ELSE At(ph, Drained(p, l, q))

\* apply: an event with no arm in this phase is an Err and changes nothing.
Apply(m, e) ==
    LET p == m.position IN
    IF m.phase \notin Accepts[e.kind] THEN m ELSE
    CASE e.kind = "EntrySignal"       -> At("EnteringExtended", Fresh)
      [] e.kind = "ExtendedFilled"    -> OnExtendedFilled(p, e.qty)
      [] e.kind = "ExtendedFailed"    -> OnExtendedFailed(p)
      [] e.kind = "LighterFilled"     -> OnLighterFilled(p, e.qty)
      [] e.kind = "LighterFailed"     -> Flattening(p, "LighterEntryFailed")
      [] e.kind = "ExitSignal"        -> At("Exiting", [p EXCEPT !.exitReason = e.reason])
      [] e.kind = "ExitFilled"        -> OnExitFilled(m.phase, p, e.leg, e.qty)
      [] e.kind = "Emergency"         -> Flattening(p, e.reason)
      [] e.kind = "EmergencyComplete" -> Flat
      [] e.kind = "Reset"             -> Flat

\* A caller that gives up on an error: none of the machines that reject e is left.
Then(ms, e) == {Apply(m, e) : m \in {x \in ms : x.phase \in Accepts[e.kind]}}

\* What the signal layer sees: a position only while it is held.
Summarised(m) == m.phase = "Held" /\ m.position # None /\ m.position.fullyFilled

(***************************************************************************)
(* The machine under every sequence of events.                              *)
(***************************************************************************)
MachineInit == machine = Flat

Fire(e) == machine' = Apply(machine, e)

MachineNext ==
    \/ Fire(EntrySignal)
    \/ \E q \in Qty : Fire(ExtendedFilled(q))
    \/ Fire(ExtendedFailed)
    \/ \E q \in Qty : Fire(LighterFilled(q))
    \/ Fire(LighterFailed)
    \/ \E r \in ExitReason : Fire(ExitSignal(r))
    \/ \E l \in Leg, q \in Qty : Fire(ExitFilled(l, q))
    \/ \E r \in EmergencyReason : Fire(Emergency(r))
    \/ Fire(EmergencyComplete)

\* Every event there is, the operator's Reset included ...
MachineSpec == MachineInit /\ [][MachineNext \/ Fire(Reset)]_machine

\* ... and the events the runner emits: nothing in src/ emits Reset.
RunnerMachineSpec == MachineInit /\ [][MachineNext]_machine

(***************************************************************************)
(* Properties.                                                              *)
(***************************************************************************)

\* The machine is a phase and an optional position of the right shape.
MachineTypeOK == machine \in Machine

\* What check_invariants requires of phase and position after every event:
\* no position in Flat and one in every other phase, no fill before the
\* Extended leg, only the Extended leg before the Lighter one, both legs open
\* and the hold clock started in Held.
CheckInvariants(m) ==
    LET p == m.position IN
    /\ m.phase = "Flat" <=> p = None
    /\ m.phase = "EnteringExtended" => NoneOpen(p)
    /\ m.phase = "EnteringLighter"  => p.open["ext"] > 0 /\ p.open["lt"] = 0
    /\ m.phase = "Held" => p.open["ext"] > 0 /\ p.open["lt"] > 0 /\ p.fullyFilled

MachineConsistent == CheckInvariants(machine)

\* No sequence of events of the runner takes the bookkeeping off the round trip
\* of RoundTrip: legs open in order, exposure only shrinks afterwards, and
\* recorded exposure is dropped only on a drained exit or a confirmed flatten.
StageOf ==
    [Flat |-> "idle", EnteringExtended |-> "opening", EnteringLighter |-> "opening",
     Held |-> "open", Exiting |-> "closing", EmergencyFlattening |-> "unwinding"]

Recorded(m) ==
    IF m.position = None THEN [l \in Leg |-> 0] ELSE m.position.open

RT == INSTANCE RoundTrip WITH First <- "ext", stage <- StageOf[machine.phase],
                              exposure <- Recorded(machine)

KeepsRoundTrip == RT!RTSpec
=============================================================================

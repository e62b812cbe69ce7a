------------------------------- MODULE Signal -------------------------------
(***************************************************************************)
(* The signal engine of src/src/xvenue/signal.rs.  Deviations are fractions *)
(* [num, den] of basis points and times are in one unit.  An option (the    *)
(* deviation, the breach, the position) is a set of at most one element.    *)
(***************************************************************************)
EXTENDS Integers

CONSTANTS
    Threshold,      \* abs_threshold_bps
    ForceClose,     \* force_close_dev_bps
    Persist,        \* persistence_sec
    MaxHold,        \* max_hold_sec
    MeanCross,      \* exit_at_mean_cross
    CheckAtFire,    \* entry_check_threshold_at_fire
    Cycle,          \* funding_cycle_sec, 0 turns the lockout off
    Pre,            \* funding_lockout_pre_sec
    Post            \* funding_lockout_post_sec

\* validate() leaves no room between holding a position and the lockout.
ASSUME SignalAssumption ==
    /\ {Threshold, ForceClose, Persist, MaxHold, Cycle, Pre, Post} \subseteq Nat
    /\ MeanCross \in BOOLEAN /\ CheckAtFire \in BOOLEAN
    /\ Cycle > 0 => MaxHold <= Pre

Dir == {"Short", "Long"}

Hold == [kind |-> "Hold"]
Enter(d) == [kind |-> "Enter", dir |-> d]
Exit(r) == [kind |-> "Exit", reason |-> r]

\* The deviation in the direction that makes d an entry.
Side(dev, d) == IF d = "Short" THEN dev.num ELSE -dev.num

Past(dev, d, bps) == Side(dev, d) >= bps * dev.den

Minus(a, b) == IF a > b THEN a - b ELSE 0      \* saturating_sub

\* Mutant: the seconds before a settlement are not locked.
LockedAfterOnly(t) == Cycle > 0 /\ t % Cycle < Post

InFundingLockout(t) ==
    Cycle > 0 /\ (t % Cycle < Post \/ t % Cycle >= Minus(Cycle, Pre))

\* The direction the deviation is past the threshold in.
Breached(dev) ==
    IF Past(dev, "Short", Threshold) THEN {"Short"}
    ELSE {d \in {"Long"} : Past(dev, d, Threshold)}

Matured(b, t) == Minus(t, b.at) >= Persist

\* Mutant: a breach of the other direction is continued.
ContinuesAny(br, d, t) ==
    IF br # {} THEN {[b EXCEPT !.dir = d] : b \in br} ELSE {[dir |-> d, at |-> t]}

\* The breach goes on in direction d, or starts.
Continues(br, d, t) ==
    IF \E b \in br : b.dir = d THEN br ELSE {[dir |-> d, at |-> t]}

\* decide_entry: a breach that is already past the stop is none.  Without the
\* check at fire, a breach that has matured enters whatever dev is now.
DecideEntry(br, t, dev) ==
    LET ripe    == {b \in br : ~CheckAtFire /\ Matured(b, t)}
        dirs    == {d \in Breached(dev) : ~Past(dev, d, ForceClose)}
        breach  == UNION {Continues(br, d, t) : d \in dirs}
        matured == IF ripe # {} THEN ripe ELSE {b \in breach : Matured(b, t)}
    IN  IF matured # {}
        THEN [breach |-> {}, out |-> Enter((CHOOSE b \in matured : TRUE).dir)]
        ELSE [breach |-> breach, out |-> Hold]

\* Mutant: the maximum hold time is only looked at while the spread gains.
DecideExitOnGain(t, dev, p) ==
    IF Past(dev, p.dir, ForceClose) THEN Exit("ForceClose")
    ELSE IF Side(dev, p.dir) > 0 THEN Hold
    ELSE IF MeanCross \/ Minus(t, p.at) >= MaxHold THEN Exit("MeanCross")
    ELSE Hold

\* The first of the exits that is due.
DecideExit(t, dev, p) ==
    IF Past(dev, p.dir, ForceClose) THEN Exit("ForceClose")
    ELSE IF MeanCross /\ Side(dev, p.dir) <= 0 THEN Exit("MeanCross")
    ELSE IF Minus(t, p.at) >= MaxHold THEN Exit("MaxHold")
    ELSE Hold

\* decide: no deviation leaves the breach alone; a position, a cold mean and
\* the lockout drop it.
Decide(br, t, devs, warm, pos) ==
    IF devs = {} THEN [breach |-> br, out |-> Hold] ELSE
    LET dev == CHOOSE x \in devs : TRUE IN
    IF pos # {} THEN [breach |-> {}, out |-> DecideExit(t, dev, CHOOSE p \in pos : TRUE)]
    ELSE IF ~warm \/ InFundingLockout(t) THEN [breach |-> {}, out |-> Hold]
    ELSE DecideEntry(br, t, dev)

\* effective_dev_bps in touch-to-touch mode: the larger of the two edges, signed.
EffectiveDev(capLong, capShort) ==
    {IF s >= l THEN [num |-> s, den |-> 1] ELSE [num |-> -l, den |-> 1] :
        s \in capShort, l \in capLong}
=============================================================================

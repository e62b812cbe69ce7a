------------------------------- MODULE Spread -------------------------------
(***************************************************************************)
(* The spread engine of src/src/xvenue/spread.rs: the last mid of either    *)
(* venue, the sample a pair of mids in one bucket gives, and the rolling    *)
(* mean of the samples.  Options are sets of at most one element, basis     *)
(* points are rounded down to whole ones.                                   *)
(***************************************************************************)
EXTENDS Integers, Sequences

CONSTANTS
    Bucket,     \* bucket_ms
    Capacity,   \* samples in the rolling window: rolling_window_sec / bucket_ms
    MaxAbs      \* max_abs_spread_bps, an option

ASSUME SpreadAssumption ==
    Bucket \in Nat \ {0} /\ Capacity \in Nat \ {0} /\ MaxAbs \in SUBSET Nat

NewEngine ==
    [ext |-> {}, lt |-> {}, last |-> {}, window |-> << >>, sum |-> 0, spread |-> {}]

BucketOf(t) == (t \div Bucket) * Bucket

\* A mid that is not positive gives no spread.
SpreadBps(e, l) ==
    IF l <= 0 \/ e < 0 THEN {} ELSE {((e - l) * 10000) \div l}

\* Mutant: a full window is not evicted from.
PushWithoutEviction(e, s) == [e EXCEPT !.window = Append(@, s), !.sum = @ + s]

\* Mutant: the evicted sample stays in the running sum.
PushKeepingSum(e, s) ==
    [e EXCEPT !.window = IF Len(@) = Capacity THEN Append(Tail(@), s) ELSE Append(@, s),
              !.sum = @ + s]

Push(e, s) ==
    IF Len(e.window) = Capacity
    THEN [e EXCEPT !.window = Append(Tail(@), s), !.sum = @ - Head(e.window) + s]
    ELSE [e EXCEPT !.window = Append(@, s), !.sum = @ + s]

\* Mutant: the other venue's mid is taken whatever bucket it is from.
AnyBucketSample(e, b) ==
    UNION {SpreadBps(x.mid, y.mid) : x \in {z \in e.ext : z.bucket <= b},
                                     y \in {z \in e.lt : z.bucket <= b}}

\* The spread of the two mids if both are from bucket b.
SampleOf(e, b) ==
    UNION {SpreadBps(x.mid, y.mid) : x \in {z \in e.ext : z.bucket = b},
                                     y \in {z \in e.lt : z.bucket = b}}

Credible(s) == \A cap \in MaxAbs : s <= cap /\ -s <= cap

\* maybe_commit: one sample a bucket, unless the spread is past the cap.
MaybeCommit(e, b) ==
    IF e.last # {b} /\ \E s \in SampleOf(e, b) : Credible(s)
    THEN LET s == CHOOSE x \in SampleOf(e, b) : TRUE
         IN [Push(e, s) EXCEPT !.spread = {s}, !.last = {b}]
    ELSE e

\* update_extended and update_lighter.
Update(e, v, t, mid) ==
    MaybeCommit([e EXCEPT ![v] = {[bucket |-> BucketOf(t), mid |-> mid]}], BucketOf(t))

\* samples_committed grew between the two: a commit moves last_bucket.
Committed(before, after) == after.last # before.last

\* dev = spread - mean, as a fraction.
CurrentDev(e) ==
    {[num |-> s * Len(e.window) - e.sum, den |-> Len(e.window)] : s \in e.spread}

IsWarm(e, samples) == Len(e.window) >= samples
=============================================================================

---------------------------- MODULE StatusProofs ----------------------------
(***************************************************************************)
(* Proofs about the two things the status reporter reads: the equity feed   *)
(* (module StatusFeed) and the counting logger (module ErrorDeferral).      *)
(***************************************************************************)
EXTENDS StatusFeed, ErrorDeferral, SequenceTheorems, FiniteSetTheorems, WellFoundedInduction, TLAPS

(***************************************************************************)
(* The equity of the day.                                                   *)
(***************************************************************************)
Days == 0..LastDay
Baselines == [date : Days, equity : Int]
Pnls == [total : Int, today : Int]

\* An option is empty or holds one value.
AnOption(S, T) == S = {} \/ \E x \in T : S = {x}

\* The types of the feed and the files.
StatusTypes ==
    /\ day \in Days
    /\ AnOption(start, Baselines) /\ AnOption(disk, Baselines)
    /\ sampledOn \subseteq {d \in Days : d <= day}
    /\ pnl \in Pnls
    /\ first \in [Days -> SUBSET Int]
    /\ lost \subseteq Days

\* A baseline in memory or in the file is the first sample of its day, unless the
\* one of that day was lost.
BaselineIsFirst ==
    \A b \in start \cup disk : b.date \in lost \/ first[b.date] = {b.equity}

\* A day that has begun and whose baseline was not lost has it in memory.
BegunIsKept ==
    /\ \A d \in Days : d > day => first[d] = {}
    /\ first[day] # {} /\ day \notin lost => \E b \in start : b.date = day

\* What was sampled last is counted from the baseline of its day.
SampleIsCounted ==
    \A d \in sampledOn : \E b \in start : b.date = d /\ pnl.today = pnl.total - b.equity

\* So is what status.json says.
StatusIsCounted ==
    \A s \in status : \A d \in s.on :
        d \in Days /\ (d \in lost \/ first[d] = {s.pnl.total - s.pnl.today})
                   /\ s.pnl \in Pnls

StatusInv == StatusTypes /\ BaselineIsFirst /\ BegunIsKept /\ SampleIsCounted /\ StatusIsCounted
-----------------------------------------------------------------------------
\* The feed starts with no baseline and no sample.
LEMMA StatusInitInv == StatusInit => StatusInv
BY StatusFeedAssumption DEF StatusInit, StatusInv, StatusTypes, AnOption, BaselineIsFirst,
   BegunIsKept, SampleIsCounted, StatusIsCounted, Days, Pnls

\* A sample is an integer.
LEMMA SampleType ==
    ASSUME NEW account \in [Venues -> Balances]
    PROVE  Sample(account) \subseteq Int
<1>1. ASSUME NEW v \in Venues
      PROVE  Answered(account)[v] \in Int
  <2>1. account[v] \in Int
    <3>1. \A x \in Balances : x \in Int
      BY StatusFeedAssumption
    <3> QED BY <3>1
  <2> QED BY <2>1 DEF Answered
<1>2. Total(Answered(account)) \in Int
  BY <1>1 DEF Total, Venues
<1> QED BY <1>2 DEF Sample

\* Midnight and whatever moves the feed leave the books alone.
LEMMA SurroundingsKeepStatus ==
    ASSUME StatusInv, FeedMoves \/ Midnight
    PROVE  StatusInv'
<1>1. UNCHANGED <<start, pnl, sampledOn, disk, status, first, lost>>
  BY DEF FeedMoves, Midnight, process, statusHistories
<1>2. day' \in Days /\ day <= day'
  BY StatusFeedAssumption DEF FeedMoves, Midnight, StatusInv, StatusTypes, Days
<1>3. StatusTypes'
  BY <1>1, <1>2, StatusFeedAssumption DEF StatusInv, StatusTypes, AnOption, Days
<1>4. BegunIsKept'
  <2>1. CASE day' = day
    BY <1>1, <2>1 DEF StatusInv, BegunIsKept
  <2>2. CASE day' # day
    BY <1>1, <1>2, <2>2, StatusFeedAssumption DEF StatusInv, BegunIsKept, StatusTypes, Days
  <2> QED BY <2>1, <2>2
<1> QED BY <1>1, <1>3, <1>4
        DEF StatusInv, BaselineIsFirst, SampleIsCounted, StatusIsCounted

\* A new process reads the file, or fails to: a baseline it does not find is lost.
LEMMA RestartKeepsStatus ==
    ASSUME StatusInv, Restart
    PROVE  StatusInv'
<1>1. start' \in {disk, {}} /\ sampledOn' = {} /\ pnl' = [total |-> 0, today |-> 0]
  BY DEF Restart, Boots, Loaded
<1>2. UNCHANGED <<day, disk, status, first>> /\ lost' = lost \cup {b.date : b \in start \ start'}
  BY DEF Restart
<1>3. StatusTypes'
  BY <1>1, <1>2 DEF StatusInv, StatusTypes, AnOption, Pnls, Baselines
<1>4. BaselineIsFirst'
  BY <1>1, <1>2 DEF StatusInv, BaselineIsFirst
<1>5. BegunIsKept'
  BY <1>1, <1>2 DEF StatusInv, BegunIsKept
<1>6. SampleIsCounted' /\ StatusIsCounted'
  BY <1>1, <1>2 DEF StatusInv, SampleIsCounted, StatusIsCounted
<1> QED BY <1>3, <1>4, <1>5, <1>6 DEF StatusInv

\* A snapshot says what was sampled last.
LEMMA SnapshotKeepsStatus ==
    ASSUME StatusInv, WriteSnapshot
    PROVE  StatusInv'
<1>1. UNCHANGED <<day, start, pnl, sampledOn, disk, first, lost>>
  BY DEF WriteSnapshot, statusHistories
<1>2. StatusTypes' /\ BaselineIsFirst' /\ BegunIsKept' /\ SampleIsCounted'
  BY <1>1 DEF StatusInv, StatusTypes, AnOption, BaselineIsFirst, BegunIsKept, SampleIsCounted
<1>3. ASSUME NEW d \in sampledOn
      PROVE  d \in Days /\ (d \in lost \/ first[d] = {pnl.total - pnl.today})
  <2>1. PICK b \in start : b.date = d /\ pnl.today = pnl.total - b.equity
    BY DEF StatusInv, SampleIsCounted
  <2>2. b \in Baselines /\ pnl \in Pnls
    BY DEF StatusInv, StatusTypes, AnOption
  <2>3. pnl.total - pnl.today = b.equity
    BY <2>1, <2>2 DEF Baselines, Pnls
  <2> QED BY <2>1, <2>2, <2>3 DEF StatusInv, BaselineIsFirst, Baselines
<1>4. status' \in {status, {[pnl |-> pnl, on |-> sampledOn]}}
  BY DEF WriteSnapshot
<1>5. StatusIsCounted'
  BY <1>1, <1>3, <1>4 DEF StatusInv, StatusTypes, StatusIsCounted
<1> QED BY <1>2, <1>5 DEF StatusInv

\* A sample of a new day is its baseline, unless the day's was lost; any other is
\* counted from the baseline there is.
LEMMA RefreshKeepsStatus ==
    ASSUME StatusInv, RefreshEquity
    PROVE  StatusInv'
<1>1. UNCHANGED <<day, status, lost>>
  BY DEF RefreshEquity
<1>2. PICK account \in [Venues -> Balances] :
        \/ UNCHANGED <<start, pnl, disk, sampledOn, first>>
        \/ \E n \in Sample(account) :
            /\ UpdateEquity(n) /\ sampledOn' = {day}
            /\ first' = IF first[day] = {} THEN [first EXCEPT ![day] = {n}] ELSE first
  BY DEF RefreshEquity
<1>3. CASE UNCHANGED <<start, pnl, disk, sampledOn, first>>
  BY <1>1, <1>3 DEF StatusInv, StatusTypes, AnOption, BaselineIsFirst, BegunIsKept,
     SampleIsCounted, StatusIsCounted
<1>4. ASSUME NEW n \in Sample(account), UpdateEquity(n), sampledOn' = {day},
             first' = IF first[day] = {} THEN [first EXCEPT ![day] = {n}] ELSE first
      PROVE  StatusInv'
  <2> DEFINE b0 == [date |-> day, equity |-> n]
  <2>1. n \in Int /\ day \in Days
    BY SampleType DEF StatusInv, StatusTypes
  <2>2. b0 \in Baselines
    BY <2>1 DEF Baselines
  <2>3. /\ first' \in [Days -> SUBSET Int] /\ first'[day] # {}
        /\ \A d \in Days : first[d] # {} => first'[d] = first[d]
        /\ \A d \in Days : d # day => first'[d] = first[d]
        /\ first[day] = {} => first'[day] = {n}
    BY <1>4, <2>1 DEF StatusInv, StatusTypes
  <2>4. /\ AnOption(start', Baselines) /\ AnOption(disk', Baselines)
        /\ disk' \subseteq disk \cup start'
        /\ NewDay => start' = {b0}
        /\ ~NewDay => start' = start
    <3>1. CASE NewDay
      BY <1>4, <2>2, <3>1 DEF UpdateEquity, Persists, AnOption, StatusInv, StatusTypes
    <3>2. CASE ~NewDay
      BY <1>4, <3>2 DEF UpdateEquity, StatusInv, StatusTypes
    <3> QED BY <3>1, <3>2
  <2>5. \E b \in start' : b.date = day /\ start' = {b} /\ b \in Baselines
    <3>1. CASE NewDay
      BY <2>2, <2>4, <3>1
    <3>2. CASE ~NewDay
      BY <2>4, <3>2 DEF NewDay, AnOption
    <3> QED BY <3>1, <3>2
  <2>6. pnl' \in Pnls /\ SampleIsCounted'
    <3>1. PICK b \in start' : b.date = day /\ start' = {b} /\ b \in Baselines
      BY <2>5
    <3>2. pnl' = [total |-> n, today |-> n - b.equity]
      BY <1>4, <3>1 DEF UpdateEquity
    <3> QED BY <1>4, <2>1, <3>1, <3>2 DEF SampleIsCounted, Pnls, Baselines
  <2>7. StatusTypes'
    BY <1>1, <1>4, <2>1, <2>3, <2>4, <2>6, StatusFeedAssumption DEF StatusInv, StatusTypes, Days
  <2>8. BaselineIsFirst'
    <3> SUFFICES ASSUME NEW b \in start' \cup disk'
                 PROVE  b.date \in lost \/ first'[b.date] = {b.equity}
      BY <1>1 DEF BaselineIsFirst
    <3>1. CASE b \in start \cup disk
      <4>1. b \in Baselines
        BY <3>1 DEF StatusInv, StatusTypes, AnOption
      <4> QED BY <2>3, <3>1, <4>1 DEF StatusInv, BaselineIsFirst, Baselines
    <3>2. CASE b \notin start \cup disk
      <4>1. NewDay /\ b = b0
        BY <2>4, <3>2
      <4>2. day \in lost \/ first[day] = {}
        BY <4>1 DEF NewDay, StatusInv, BegunIsKept
      <4> QED BY <2>3, <4>1, <4>2
    <3> QED BY <3>1, <3>2
  <2>9. BegunIsKept'
    BY <1>1, <2>1, <2>3, <2>5 DEF StatusInv, BegunIsKept, StatusTypes, Days
  <2>10. StatusIsCounted'
    <3> SUFFICES ASSUME NEW s \in status, NEW d \in s.on
                 PROVE  /\ d \in Days /\ s.pnl \in Pnls
                        /\ d \in lost \/ first'[d] = {s.pnl.total - s.pnl.today}
      BY <1>1 DEF StatusIsCounted
    <3>1. /\ d \in Days /\ s.pnl \in Pnls
          /\ d \in lost \/ first[d] = {s.pnl.total - s.pnl.today}
      BY DEF StatusInv, StatusIsCounted
    <3>2. first[d] # {} => first'[d] = first[d]
      BY <2>3, <3>1
    <3> QED BY <3>1, <3>2
  <2> QED BY <2>6, <2>7, <2>8, <2>9, <2>10 DEF StatusInv
<1> QED BY <1>2, <1>3, <1>4

\* Every step of the feed keeps the invariant.
LEMMA StatusNextInv == StatusInv /\ [StatusNext]_statusVars => StatusInv'
<1> SUFFICES ASSUME StatusInv, [StatusNext]_statusVars PROVE StatusInv'
  OBVIOUS
<1>1. CASE RefreshEquity
  BY <1>1, RefreshKeepsStatus
<1>2. CASE WriteSnapshot
  BY <1>2, SnapshotKeepsStatus
<1>3. CASE Restart
  BY <1>3, RestartKeepsStatus
<1>4. CASE FeedMoves \/ Midnight
  BY <1>4, SurroundingsKeepStatus
<1>5. CASE UNCHANGED statusVars
  BY <1>5 DEF statusVars, statusHistories, process, StatusInv, StatusTypes, AnOption,
     BaselineIsFirst, BegunIsKept, SampleIsCounted, StatusIsCounted
<1> QED BY <1>1, <1>2, <1>3, <1>4, <1>5 DEF StatusNext

\* The pnl_today of a snapshot is counted from the first sample of its UTC day, over
\* any number of restarts and of days, unless that day's baseline died with a
\* process, unwritten or unreadable (status/mod.rs:77-79, 340-352, 545-554).
THEOREM TodayIsFromDayStart == StatusSpec => []PnlTodayFromDayStart
<1>1. StatusInv => PnlTodayFromDayStart
  <2> SUFFICES ASSUME StatusInv, NEW s \in status, NEW d \in s.on, NEW f \in first[d],
                      d \notin lost
               PROVE  s.pnl.today = s.pnl.total - f
    BY DEF PnlTodayFromDayStart
  <2>1. f = s.pnl.total - s.pnl.today /\ s.pnl \in Pnls
    BY DEF StatusInv, StatusIsCounted
  <2> QED BY <2>1 DEF Pnls
<1> QED BY <1>1, StatusInitInv, StatusNextInv, PTL DEF StatusSpec

(***************************************************************************)
(* The log counts.  A line is pushed to pending_ws at most Slow after its    *)
(* time, so its queues are out of order by no more than that.                *)
(***************************************************************************)
Kinds == DOMAIN Steps
LogLine == [id : Nat, ts : Nat, kind : Kinds]

\* What is left of a call.
Lefts == {<<>>, <<"record", "take", "push", "count">>, <<"take", "push", "count">>,
          <<"push", "count">>, <<"count">>, <<"drain", "take", "push">>, <<"take", "push">>,
          <<"push">>, <<"take", "push", "prune">>, <<"push", "prune">>, <<"prune">>,
          <<"forget">>}

Active(t) == call[t].left # <<>>

LogTypes ==
    /\ now \in Nat /\ lines \in Nat
    /\ pending \in Seq(LogLine) /\ recent \in Seq(LogLine) /\ resets \in Seq(LogLine)
    /\ counted \subseteq LogLine /\ drained \subseteq LogLine
    /\ committed \subseteq LogLine /\ IsFiniteSet(committed)
    /\ noted \subseteq LogLine /\ saved \subseteq LogLine
    /\ call \in [Threads -> [line : LogLine, left : Lefts, taken : Seq(LogLine)]]

\* A call lasts no longer than Slow, drains only for a recovery, and holds lines
\* only between the two halves of a flush.
CallsOK ==
    /\ \A t \in Threads : Active(t) => /\ call[t].line.ts <= now
                                       /\ now <= call[t].line.ts + Slow
                                       /\ call[t].line.id <= lines
    /\ \A t \in Threads : At(t, "drain") => call[t].line.kind = Recovery
    /\ \A t \in Threads : At(t, "push") \/ call[t].taken = <<>>

\* No two lines have the same number, and a line is counted by the last step of
\* its call.
Numbered ==
    /\ \A t, u \in Threads :
        Active(t) /\ Active(u) /\ t # u => call[t].line.id # call[u].line.id
    /\ \A e \in counted : e.id <= lines
    /\ \A e \in counted, t \in Threads : Active(t) => call[t].line.id # e.id

InOrder(queue) ==
    \A i, j \in 1..Len(queue) : i < j => queue[i].ts <= queue[j].ts + Slow

NotLater(queue) == \A i \in 1..Len(queue) : queue[i].ts <= now

Queued == InOrder(pending) /\ NotLater(pending) /\ InOrder(resets) /\ NotLater(resets)

\* A line a recovery has found in time is drained, or waits for that recovery.
SavedOrWaiting ==
    \A e \in saved :
        \/ e \in drained
        \/ /\ e \in ToSet(pending)
           /\ \E t \in Threads : /\ At(t, "drain")
                                 /\ call[t].line.ts + Slow < e.ts + Window

LogInv ==
    /\ LogTypes /\ CallsOK /\ Numbered /\ Queued /\ EveryLineOnce /\ SavedOrWaiting
    /\ NothingOverstays

-----------------------------------------------------------------------------
\* A set of naturals has a least element ...
LEMMA LeastNat ==
    ASSUME NEW T \in SUBSET Nat, T # {}
    PROVE  \E x \in T : \A y \in T : x <= y
<1> DEFINE R == OpToRel(<, Nat)
<1>1. IsWellFoundedOn(R, Nat)
  BY NatLessThanWellFounded
<1>2. \E x \in T : \A y \in T : ~ (<<y, x>> \in R)
  <2> HIDE DEF R
  <2> QED BY <1>1, WFMin
<1>3. \A x, y \in Nat : y < x => <<y, x>> \in R
  BY DEF OpToRel
<1>4. PICK x \in T : \A y \in T : ~ (<<y, x>> \in R)
  BY <1>2
<1> HIDE DEF R
<1>5. \A y \in T : ~ (y < x)
  BY <1>3, <1>4
<1> QED BY <1>5

\* ... so one that holds 0 and every successor holds them all.
LEMMA NatSetInduction ==
    ASSUME NEW H \in SUBSET Nat, 0 \in H, \A n \in H : n + 1 \in H
    PROVE  H = Nat
<1> SUFFICES ASSUME Nat \ H # {} PROVE FALSE OBVIOUS
<1>1. PICK x \in Nat \ H : \A y \in Nat \ H : x <= y
  BY LeastNat
<1>2. x # 0 /\ x - 1 \in Nat BY <1>1
<1>3. x - 1 \in H BY <1>1, <1>2
<1> QED BY <1>3, <1>1, <1>2

\* The lines of a queue that is appended to, or joined to another.
LEMMA ToSetAppend ==
    ASSUME NEW S, NEW q \in Seq(S), NEW e \in S
    PROVE  ToSet(Append(q, e)) = ToSet(q) \cup {e}
<1>1. /\ DOMAIN q = 1..Len(q) /\ DOMAIN Append(q, e) = 1..Len(q) + 1 /\ Len(q) \in Nat
      /\ \A i \in 1..Len(q) : Append(q, e)[i] = q[i]
      /\ Append(q, e)[Len(q) + 1] = e
  OBVIOUS
<1>2. \A i \in 1..Len(q) + 1 : i \in 1..Len(q) \/ i = Len(q) + 1
  BY <1>1
<1>3. \A i \in 1..Len(q) : i \in 1..Len(q) + 1
  BY <1>1
<1>4. Len(q) + 1 \in 1..Len(q) + 1
  BY <1>1
<1> QED BY <1>1, <1>2, <1>3, <1>4, Zenon DEF ToSet

\* See ToSetAppend.
LEMMA ToSetConcat ==
    ASSUME NEW S, NEW q \in Seq(S), NEW r \in Seq(S)
    PROVE  ToSet(q \o r) = ToSet(q) \cup ToSet(r)
<1>1. /\ DOMAIN q = 1..Len(q) /\ DOMAIN r = 1..Len(r) /\ DOMAIN (q \o r) = 1..Len(q) + Len(r)
      /\ Len(q) \in Nat /\ Len(r) \in Nat
      /\ \A i \in 1..Len(q) : (q \o r)[i] = q[i]
      /\ \A i \in 1..Len(r) : (q \o r)[Len(q) + i] = r[i]
  OBVIOUS
<1>2. \A i \in 1..Len(q) + Len(r) : i \in 1..Len(q) \/ \E j \in 1..Len(r) : i = Len(q) + j
  <2> SUFFICES ASSUME NEW i \in 1..Len(q) + Len(r), i \notin 1..Len(q)
               PROVE  \E j \in 1..Len(r) : i = Len(q) + j
    OBVIOUS
  <2>1. i - Len(q) \in 1..Len(r) /\ i = Len(q) + (i - Len(q))
    BY <1>1
  <2> QED BY <2>1
<1>3. /\ \A i \in 1..Len(q) : i \in 1..Len(q) + Len(r)
      /\ \A i \in 1..Len(r) : Len(q) + i \in 1..Len(q) + Len(r)
  BY <1>1
<1>4. /\ ToSet(q \o r) = {(q \o r)[i] : i \in 1..Len(q) + Len(r)}
      /\ ToSet(q) = {q[i] : i \in 1..Len(q)} /\ ToSet(r) = {r[i] : i \in 1..Len(r)}
  BY <1>1 DEF ToSet
<1>5. \A x \in ToSet(q \o r) : x \in ToSet(q) \cup ToSet(r)
  BY <1>1, <1>2, <1>4
<1>6. \A x \in ToSet(q) \cup ToSet(r) : x \in ToSet(q \o r)
  BY <1>1, <1>3, <1>4
<1> QED BY <1>5, <1>6

\* What splitting a queue does to its lines.
LEMMA SplitFacts ==
    ASSUME NEW S, NEW q \in Seq(S), NEW k \in 0..Len(q)
    PROVE  LET front == SubSeq(q, 1, k)
               rest  == SubSeq(q, k + 1, Len(q))
           IN  /\ front \in Seq(S) /\ Len(front) = k /\ \A i \in 1..k : front[i] = q[i]
               /\ rest \in Seq(S) /\ Len(rest) = Len(q) - k
               /\ \A i \in 1..Len(q) - k : rest[i] = q[i + k]
               /\ ToSet(q) = ToSet(front) \cup ToSet(rest)
               /\ IsInjective(q) =>
                    IsInjective(front) /\ IsInjective(rest) /\ ToSet(front) \cap ToSet(rest) = {}
<1> DEFINE front == SubSeq(q, 1, k)
           rest  == SubSeq(q, k + 1, Len(q))
<1>1. Len(q) \in Nat /\ DOMAIN q = 1..Len(q) /\ k \in Nat /\ k <= Len(q)
  OBVIOUS
<1>2. front \in Seq(S) /\ Len(front) = k /\ \A i \in 1..k : front[i] = q[i]
  BY <1>1
<1>3. /\ rest \in Seq(S) /\ Len(rest) = Len(q) - k
      /\ \A i \in 1..Len(q) - k : rest[i] = q[i + k]
  <2>1. \A i \in k + 1..Len(q) : q[i] \in S
    BY <1>1
  <2>2. /\ SubSeq(q, k + 1, Len(q)) \in Seq(S)
        /\ Len(SubSeq(q, k + 1, Len(q))) = IF k + 1 <= Len(q) THEN Len(q) - (k + 1) + 1 ELSE 0
        /\ \A i \in 1..Len(q) - (k + 1) + 1 : SubSeq(q, k + 1, Len(q))[i] = q[(k + 1) + i - 1]
    BY <1>1, <2>1, SubSeqProperties
  <2>3. Len(q) - (k + 1) + 1 = Len(q) - k
    BY <1>1
  <2>4. ASSUME NEW i \in 1..Len(q) - k
        PROVE  rest[i] = q[i + k]
    <3>1. (k + 1) + i - 1 = i + k
      BY <1>1
    <3>2. rest[i] = q[(k + 1) + i - 1]
      BY <2>2, <2>3
    <3> QED BY <3>1, <3>2
  <2>5. Len(rest) = Len(q) - k
    <3>1. CASE k + 1 <= Len(q)
      BY <2>2, <2>3, <3>1
    <3>2. CASE ~ (k + 1 <= Len(q))
      <4>1. \A m, n \in Nat : m <= n /\ ~ (m + 1 <= n) => n - m = 0
        OBVIOUS
      <4>2. Len(q) - k = 0
        BY <1>1, <3>2, <4>1
      <4> QED BY <2>2, <3>2, <4>2
    <3> QED BY <3>1, <3>2
  <2> QED BY <2>2, <2>4, <2>5
<1> HIDE DEF front, rest
<1>4. DOMAIN front = 1..k /\ DOMAIN rest = 1..Len(q) - k
  BY <1>2, <1>3
<1>5. \A i \in 1..Len(q) : i \in 1..k \/ \E j \in 1..Len(q) - k : i = j + k
  <2> SUFFICES ASSUME NEW i \in 1..Len(q), i \notin 1..k
               PROVE  \E j \in 1..Len(q) - k : i = j + k
    OBVIOUS
  <2>1. i - k \in 1..Len(q) - k /\ i = (i - k) + k
    BY <1>1
  <2> QED BY <2>1
<1>6. /\ \A i \in 1..k : i \in 1..Len(q)
      /\ \A i \in 1..Len(q) - k : i + k \in 1..Len(q)
      /\ \A i \in 1..k, j \in 1..Len(q) - k : i # j + k
      /\ \A i, j \in 1..Len(q) - k : i + k = j + k => i = j
  BY <1>1
<1>7. /\ ToSet(q) = {q[i] : i \in 1..Len(q)}
      /\ ToSet(front) = {front[i] : i \in 1..k}
      /\ ToSet(rest) = {rest[i] : i \in 1..Len(q) - k}
  BY <1>1, <1>4 DEF ToSet
<1>8. ToSet(q) = ToSet(front) \cup ToSet(rest)
  <2>1. ASSUME NEW x \in ToSet(q)
        PROVE  x \in ToSet(front) \cup ToSet(rest)
    <3>1. PICK i \in 1..Len(q) : x = q[i]
      BY <1>7
    <3>2. CASE i \in 1..k
      BY <1>2, <1>7, <3>1, <3>2
    <3>3. CASE i \notin 1..k
      <4>1. PICK j \in 1..Len(q) - k : i = j + k
        BY <1>5, <3>3
      <4>2. x = rest[j]
        BY <1>3, <3>1, <4>1
      <4> QED BY <1>7, <4>2
    <3> QED BY <3>2, <3>3
  <2>2. \A x \in ToSet(front) \cup ToSet(rest) : x \in ToSet(q)
    BY <1>2, <1>3, <1>6, <1>7
  <2> QED BY <2>1, <2>2
<1>9. ASSUME IsInjective(q)
      PROVE  IsInjective(front) /\ IsInjective(rest) /\ ToSet(front) \cap ToSet(rest) = {}
  <2>1. \A i, j \in 1..Len(q) : q[i] = q[j] => i = j
    BY <1>1, <1>9 DEF IsInjective
  <2>2. IsInjective(front)
    BY <2>1, <1>2, <1>4, <1>6 DEF IsInjective
  <2>3. IsInjective(rest)
    <3> SUFFICES ASSUME NEW i \in 1..Len(q) - k, NEW j \in 1..Len(q) - k, rest[i] = rest[j]
                 PROVE  i = j
      BY <1>4 DEF IsInjective
    <3>1. q[i + k] = q[j + k] /\ i + k \in 1..Len(q) /\ j + k \in 1..Len(q)
      BY <1>3, <1>6
    <3>2. i + k = j + k
      BY <2>1, <3>1
    <3> QED BY <1>6, <3>2
  <2>4. ToSet(front) \cap ToSet(rest) = {}
    BY <2>1, <1>2, <1>3, <1>6, <1>7
  <2> QED BY <2>2, <2>3, <2>4
<1> QED BY <1>2, <1>3, <1>8, <1>9 DEF front, rest

\* What the head of a queue whose lines wait holds: the positions up to the first
\* in D.
LEMMA FirstOf ==
    ASSUME NEW n \in Nat, NEW D \in SUBSET (1..n)
    PROVE  LET stop == IF D # {} THEN Min(D) ELSE 0
               k    == IF stop = 0 THEN n ELSE stop - 1
           IN  k \in 0..n /\ (\A i \in 1..k : i \notin D) /\ (k < n => k + 1 \in D)
<1>1. CASE D = {}
  BY <1>1
<1>2. CASE D # {}
  <2>1. \E x \in D : \A y \in D : x <= y
    BY <1>2, LeastNat
  <2>2. Min(D) \in D /\ \A y \in D : Min(D) <= y
    BY <2>1 DEF Min
  <2>3. Min(D) \in 1..n
    BY <2>2
  <2> DEFINE m == Min(D)
  <2>4. \A i \in 1..m - 1 : i \notin D
    BY <2>2, <2>3
  <2>5. m - 1 \in 0..n /\ m # 0 /\ (m - 1) + 1 = m
    BY <2>3
  <2> QED BY <1>2, <2>2, <2>4, <2>5
<1> QED BY <1>1, <1>2

\* What a loop pops that stops at the first line not due, and what it leaves.
PoppedAt(q, k, front) ==
    /\ k \in 0..Len(q)
    /\ front = SubSeq(q, 1, k) /\ Rest(q, front) = SubSeq(q, k + 1, Len(q))

\* Of pending_ws, the lines popped are due, and the first one left is not.
LEMMA ExpiredFacts ==
    ASSUME NEW ts \in Nat, pending \in Seq(LogLine)
    PROVE  \E k \in 0..Len(pending) :
              /\ PoppedAt(pending, k, Expired(ts))
              /\ \A i \in 1..k : pending[i].ts + Window <= ts
              /\ k < Len(pending) => ~ (pending[k + 1].ts + Window <= ts)
<1> DEFINE n == Len(pending)
           D == {i \in 1..n : ~ (pending[i].ts + Window <= ts)}
           stop == IF D # {} THEN Min(D) ELSE 0
           k == IF stop = 0 THEN n ELSE stop - 1
<1>1. n \in Nat /\ D \in SUBSET (1..n)
  OBVIOUS
<1>2. SelectInSeq(pending, LAMBDA e : ~ (e.ts + Window <= ts)) = stop
  BY DEF SelectInSeq
<1>3. Expired(ts) = IF stop = 0 THEN pending ELSE SubSeq(pending, 1, stop - 1)
  BY <1>2 DEF Expired, DueInFront
<1> HIDE DEF D
<1>4. k \in 0..n /\ (\A i \in 1..k : i \notin D) /\ (k < n => k + 1 \in D)
  BY <1>1, FirstOf
<1>5. Expired(ts) = SubSeq(pending, 1, k)
  BY <1>1, <1>3, SubSeqFull
<1>6. Len(Expired(ts)) = k
  BY <1>1, <1>4, <1>5, SplitFacts
<1>7. PoppedAt(pending, k, Expired(ts))
  BY <1>4, <1>5, <1>6 DEF PoppedAt, Rest
<1> HIDE DEF k, stop
<1>8. \A i \in 1..k : i \in 1..n
  BY <1>1, <1>4
<1> QED BY <1>1, <1>4, <1>7, <1>8 DEF D

\* Of a queue that is pruned, the lines popped are old, and the first one left is not.
LEMMA PrunedFacts ==
    ASSUME NEW ts \in Nat, NEW q \in Seq(LogLine), NEW window \in Nat
    PROVE  \E k \in 0..Len(q) :
              /\ Pruned(q, window, ts) = SubSeq(q, k + 1, Len(q))
              /\ \A i \in 1..k : q[i].ts + window < ts
              /\ k < Len(q) => ~ (q[k + 1].ts + window < ts)
<1> DEFINE n == Len(q)
           D == {i \in 1..n : ~ (q[i].ts + window < ts)}
           stop == IF D # {} THEN Min(D) ELSE 0
           k == IF stop = 0 THEN n ELSE stop - 1
           front == IF stop = 0 THEN q ELSE SubSeq(q, 1, stop - 1)
<1>1. n \in Nat /\ D \in SUBSET (1..n)
  OBVIOUS
<1>2. SelectInSeq(q, LAMBDA e : ~ (e.ts + window < ts)) = stop
  BY DEF SelectInSeq
<1>3. Pruned(q, window, ts) = Rest(q, front)
  BY <1>2 DEF Pruned, DueInFront
<1> HIDE DEF D
<1>4. k \in 0..n /\ (\A i \in 1..k : i \notin D) /\ (k < n => k + 1 \in D)
  BY <1>1, FirstOf
<1>5. front = SubSeq(q, 1, k)
  BY <1>1, SubSeqFull
<1>6. Len(front) = k
  BY <1>1, <1>4, <1>5, SplitFacts
<1>7. Pruned(q, window, ts) = SubSeq(q, k + 1, Len(q))
  BY <1>3, <1>6 DEF Rest
<1> HIDE DEF k, stop
<1>8. \A i \in 1..k : i \in 1..n
  BY <1>1, <1>4
<1> QED BY <1>1, <1>4, <1>7, <1>8 DEF D

\* s is a part of the first n lines of q, in their order.
PartOf(s, q, n) ==
    /\ s \in Seq(LogLine)
    /\ \E h \in [1..Len(s) -> 1..n] :
        /\ \A i \in 1..Len(s) : s[i] = q[h[i]]
        /\ \A i, j \in 1..Len(s) : i < j => h[i] < h[j]

\* The part of no line, of one line more that is skipped, or kept.
LEMMA PartOfNothing ==
    ASSUME NEW q, NEW s, s = <<>>
    PROVE  PartOf(s, q, 0) /\ Len(s) = 0
<1>1. s \in Seq(LogLine) /\ Len(s) = 0
  OBVIOUS
<1> DEFINE h == [i \in 1..Len(s) |-> 1]
<1>2. \A i \in 1..Len(s) : FALSE
  BY <1>1
<1>3. h \in [1..Len(s) -> 1..0]
  BY <1>2
<1> QED BY <1>1, <1>2, <1>3 DEF PartOf

\* See PartOfNothing.
LEMMA PartOfSkips ==
    ASSUME NEW n \in Nat, NEW q, NEW s, PartOf(s, q, n)
    PROVE  PartOf(s, q, n + 1)
<1>1. PICK h \in [1..Len(s) -> 1..n] :
        /\ \A i \in 1..Len(s) : s[i] = q[h[i]]
        /\ \A i, j \in 1..Len(s) : i < j => h[i] < h[j]
  BY DEF PartOf
<1>2. h \in [1..Len(s) -> 1..n + 1]
  BY <1>1
<1> QED BY <1>1, <1>2 DEF PartOf

\* See PartOfNothing.
LEMMA PartOfKeeps ==
    ASSUME NEW n \in Nat, NEW q, NEW s, PartOf(s, q, n), q[n + 1] \in LogLine
    PROVE  PartOf(Append(s, q[n + 1]), q, n + 1)
<1>1. PICK h \in [1..Len(s) -> 1..n] :
        /\ \A i \in 1..Len(s) : s[i] = q[h[i]]
        /\ \A i, j \in 1..Len(s) : i < j => h[i] < h[j]
  BY DEF PartOf
<1> DEFINE r == Append(s, q[n + 1])
           g == [i \in 1..Len(s) + 1 |-> IF i = Len(s) + 1 THEN n + 1 ELSE h[i]]
<1>2. s \in Seq(LogLine) /\ Len(s) \in Nat
  BY DEF PartOf
<1>3. /\ r \in Seq(LogLine) /\ Len(r) = Len(s) + 1
      /\ \A i \in 1..Len(s) : r[i] = s[i]
      /\ r[Len(s) + 1] = q[n + 1]
  BY <1>2
<1> HIDE DEF r
<1>4. \A i \in 1..Len(s) + 1 : i = Len(s) + 1 \/ i \in 1..Len(s)
  BY <1>2
<1>5. g \in [1..Len(r) -> 1..n + 1]
  BY <1>1, <1>2, <1>3, <1>4
<1>6. \A i \in 1..Len(r) : r[i] = q[g[i]]
  BY <1>1, <1>2, <1>3, <1>4
<1>7. \A i, j \in 1..Len(r) : i < j => g[i] < g[j]
  <2> SUFFICES ASSUME NEW i \in 1..Len(s) + 1, NEW j \in 1..Len(s) + 1, i < j
               PROVE  g[i] < g[j]
    BY <1>3
  <2>1. i \in 1..Len(s)
    BY <1>2
  <2>2. h[i] \in 1..n
    BY <1>1, <2>1
  <2>3. CASE j = Len(s) + 1
    BY <1>2, <2>1, <2>2, <2>3
  <2>4. CASE j \in 1..Len(s)
    BY <1>1, <1>2, <2>1, <2>4
  <2> QED BY <1>4, <2>3, <2>4
<1> HIDE DEF g
<1> QED BY <1>3, <1>5, <1>6, <1>7 DEF PartOf, r

\* What a recovery leaves is a part of pending_ws, whose windows are over: the
\* recursive function is shown to exist, then followed line by line.
LEMMA UndrainedFacts ==
    ASSUME NEW ts \in Nat, pending \in Seq(LogLine)
    PROVE  /\ PartOf(Undrained(ts), pending, Len(pending))
           /\ \A i \in 1..Len(Undrained(ts)) : Undrained(ts)[i].ts + Window < ts
<1> DEFINE L == Len(pending)
           Waits(i) == pending[i].ts + Window < ts
           Keeps(f, n) == IF n = 0 THEN <<>>
                          ELSE IF Waits(n) THEN Append(f[n - 1], pending[n]) ELSE f[n - 1]
           Upto(n, f) == f = [i \in 0..n |-> Keeps(f, i)]
<1>1. L \in Nat
  OBVIOUS
<1>2. \A n \in Nat : \E f : Upto(n, f)
  <2> DEFINE H == {n \in Nat : \E f : Upto(n, f)}
  <2>1. 0 \in H
    <3>1. Upto(0, [i \in 0..0 |-> <<>>])
      OBVIOUS
    <3> QED BY <3>1
  <2>2. ASSUME NEW n \in H
        PROVE  n + 1 \in H
    <3>1. PICK f : Upto(n, f)
      OBVIOUS
    <3> DEFINE g == [i \in 0..n + 1 |-> IF i = n + 1 THEN Keeps(f, n + 1) ELSE f[i]]
    <3>2. \A i \in 0..n : i \in 0..n + 1 /\ i # n + 1
      OBVIOUS
    <3>9. \A i \in 0..n : f[i] = Keeps(f, i)
      <4> HIDE DEF Keeps
      <4> QED BY <3>1
    <3>3. \A i \in 0..n + 1 : i \in 0..n \/ i = n + 1
      OBVIOUS
    <3>4. \A i \in 0..n : g[i] = f[i]
      BY <3>2
    <3>5. \A i \in 0..n + 1 : i = 0 \/ i - 1 \in 0..n
      OBVIOUS
    <3>6. \A i \in 0..n + 1 : Keeps(g, i) = Keeps(f, i)
      BY <3>4, <3>5
    <3>7. \A i \in 0..n + 1 : g[i] = Keeps(g, i)
      BY <3>2, <3>3, <3>6, <3>9
    <3>8. Upto(n + 1, g)
      BY <3>7
    <3> HIDE DEF Upto, g
    <3> QED BY <3>8
  <2> HIDE DEF Upto
  <2> QED BY <2>1, <2>2, NatSetInduction
<1> DEFINE kept == CHOOSE f : Upto(L, f)
<1>3. Upto(L, kept)
  BY <1>1, <1>2
<1>4. Undrained(ts) = kept[L]
  BY DEF Undrained
<1> HIDE DEF kept
<1>5. \A i \in 0..L : kept[i] = Keeps(kept, i)
  BY <1>3
<1> DEFINE Fine(n) == /\ PartOf(kept[n], pending, n)
                      /\ \A i \in 1..Len(kept[n]) : kept[n][i].ts + Window < ts
           H == {n \in Nat : n <= L => Fine(n)}
<1>6. 0 \in H
  <2>1. kept[0] = <<>>
    BY <1>1, <1>5
  <2>2. PartOf(kept[0], pending, 0) /\ Len(kept[0]) = 0
    BY <2>1, PartOfNothing
  <2> QED BY <2>2
<1>7. ASSUME NEW n \in H
      PROVE  n + 1 \in H
  <2> SUFFICES ASSUME n + 1 <= L PROVE Fine(n + 1)
    OBVIOUS
  <2>1. Fine(n)
    BY <1>1
  <2>2. n + 1 \in 0..L /\ n + 1 # 0 /\ (n + 1) - 1 = n /\ n + 1 \in 1..L
    BY <1>1
  <2>3. kept[n + 1] = IF Waits(n + 1) THEN Append(kept[n], pending[n + 1]) ELSE kept[n]
    BY <1>5, <2>2
  <2>4. pending[n + 1] \in LogLine
    BY <2>2
  <2>5. kept[n] \in Seq(LogLine)
    BY <2>1 DEF PartOf
  <2>6. CASE Waits(n + 1)
    <3>1. PartOf(kept[n + 1], pending, n + 1)
      BY <2>1, <2>3, <2>4, <2>6, PartOfKeeps
    <3>2. \A i \in 1..Len(kept[n + 1]) :
            kept[n + 1][i] = pending[n + 1] \/ (i \in 1..Len(kept[n]) /\ kept[n + 1][i] = kept[n][i])
      BY <2>3, <2>4, <2>5, <2>6
    <3> QED BY <2>1, <2>6, <3>1, <3>2
  <2>7. CASE ~ Waits(n + 1)
    BY <2>1, <2>3, <2>7, PartOfSkips
  <2> QED BY <2>6, <2>7
<1>8. H = Nat
  <2> HIDE DEF Fine
  <2> QED BY <1>6, <1>7, NatSetInduction
<1>9. Fine(L)
  BY <1>1, <1>8
<1> QED BY <1>4, <1>9

\* The lines of a queue, by their positions; what a part of a queue inherits.
LEMMA ToSetIs ==
    ASSUME NEW S, NEW q \in Seq(S)
    PROVE  ToSet(q) = {q[i] : i \in 1..Len(q)} /\ ToSet(q) \subseteq S /\ Len(q) \in Nat
BY DEF ToSet

\* The lines left by retain are lines of the queue, in their order.
LEMMA PartOfFacts ==
    ASSUME NEW q \in Seq(LogLine), NEW s, PartOf(s, q, Len(q))
    PROVE  /\ s \in Seq(LogLine) /\ ToSet(s) \subseteq ToSet(q)
           /\ IsInjective(q) => IsInjective(s)
           /\ InOrder(q) => InOrder(s)
           /\ NotLater(q) => NotLater(s)
<1>1. s \in Seq(LogLine) /\ Len(s) \in Nat /\ Len(q) \in Nat
  BY DEF PartOf
<1>2. PICK h \in [1..Len(s) -> 1..Len(q)] :
        /\ \A i \in 1..Len(s) : s[i] = q[h[i]]
        /\ \A i, j \in 1..Len(s) : i < j => h[i] < h[j]
  BY DEF PartOf
<1>3. \A i \in 1..Len(s) : h[i] \in 1..Len(q) /\ s[i] = q[h[i]]
  BY <1>2
<1>4. ToSet(s) \subseteq ToSet(q)
  BY <1>1, <1>3, ToSetIs
<1>5. ASSUME IsInjective(q)
      PROVE  IsInjective(s)
  <2> SUFFICES ASSUME NEW i \in 1..Len(s), NEW j \in 1..Len(s), s[i] = s[j]
               PROVE  i = j
    BY <1>1 DEF IsInjective
  <2>1. h[i] = h[j]
    BY <1>3, <1>5 DEF IsInjective
  <2>2. ~ (i < j) /\ ~ (j < i)
    BY <1>2, <1>3, <2>1
  <2> QED BY <1>1, <2>2
<1>6. InOrder(q) => InOrder(s)
  BY <1>2, <1>3 DEF InOrder
<1>7. NotLater(q) => NotLater(s)
  BY <1>3 DEF NotLater
<1> QED BY <1>1, <1>4, <1>5, <1>6, <1>7

\* Of a queue in order, what is left behind the first k lines.
LEMMA RestFacts ==
    ASSUME NEW q \in Seq(LogLine), NEW k \in 0..Len(q)
    PROVE  LET rest == SubSeq(q, k + 1, Len(q))
           IN  /\ rest \in Seq(LogLine) /\ ToSet(rest) \subseteq ToSet(q)
               /\ InOrder(q) => InOrder(rest)
               /\ NotLater(q) => NotLater(rest)
               /\ InOrder(q) => \A e \in ToSet(rest) : k < Len(q) /\ q[k + 1].ts <= e.ts + Slow
<1> DEFINE rest == SubSeq(q, k + 1, Len(q))
<1>1. /\ rest \in Seq(LogLine) /\ Len(rest) = Len(q) - k
      /\ \A i \in 1..Len(q) - k : rest[i] = q[i + k]
      /\ ToSet(rest) \subseteq ToSet(q)
  BY SplitFacts
<1> HIDE DEF rest
<1>2. Len(q) \in Nat /\ k \in Nat /\ k <= Len(q)
  OBVIOUS
<1>3. \A i \in 1..Len(q) - k : i + k \in 1..Len(q)
  BY <1>2
<1>4. InOrder(q) => InOrder(rest)
  <2> SUFFICES ASSUME InOrder(q), NEW i \in 1..Len(q) - k, NEW j \in 1..Len(q) - k, i < j
               PROVE  rest[i].ts <= rest[j].ts + Slow
    BY <1>1 DEF InOrder
  <2>1. i + k < j + k
    BY <1>2
  <2> QED BY <1>1, <1>3, <2>1 DEF InOrder
<1>5. NotLater(q) => NotLater(rest)
  BY <1>1, <1>3 DEF NotLater
<1>6. ASSUME InOrder(q), NEW e \in ToSet(rest)
      PROVE  k < Len(q) /\ q[k + 1].ts <= e.ts + Slow
  <2>5. PICK i \in 1..Len(rest) : e = rest[i]
    BY <1>1, ToSetIs
  <2>1. i \in 1..Len(q) - k /\ e = q[i + k]
    BY <1>1, <2>5
  <2>2. i + k \in 1..Len(q) /\ k + 1 \in 1..Len(q) /\ k < Len(q) /\ (i = 1 \/ k + 1 < i + k)
    BY <1>2, <2>1
  <2>3. CASE i = 1
    <3>1. e = q[k + 1] /\ e \in LogLine
      BY <1>2, <2>1, <2>2, <2>3
    <3> QED BY <2>2, <3>1, ErrorDeferralAssumption DEF LogLine
  <2>4. CASE k + 1 < i + k
    BY <1>6, <2>1, <2>2, <2>4 DEF InOrder
  <2> QED BY <2>2, <2>3, <2>4
<1> QED BY <1>1, <1>4, <1>5, <1>6 DEF rest

\* A line that is pushed by a call that lasts no longer than Slow keeps a queue in
\* order.
LEMMA AppendFacts ==
    ASSUME LogTypes, NEW q \in Seq(LogLine), NEW e \in LogLine,
           InOrder(q), NotLater(q), e.ts <= now, now <= e.ts + Slow
    PROVE  /\ Append(q, e) \in Seq(LogLine) /\ ToSet(Append(q, e)) = ToSet(q) \cup {e}
           /\ InOrder(Append(q, e)) /\ NotLater(Append(q, e))
           /\ IsInjective(q) /\ e \notin ToSet(q) => IsInjective(Append(q, e))
<1> DEFINE r == Append(q, e)
<1>1. /\ r \in Seq(LogLine) /\ Len(r) = Len(q) + 1 /\ Len(q) \in Nat
      /\ \A i \in 1..Len(q) : r[i] = q[i]
      /\ r[Len(q) + 1] = e
      /\ DOMAIN q = 1..Len(q) /\ DOMAIN r = 1..Len(q) + 1
  OBVIOUS
<1>2. ToSet(r) = ToSet(q) \cup {e}
  BY ToSetAppend
<1> HIDE DEF r
<1>3. \A i \in 1..Len(q) + 1 : i \in 1..Len(q) \/ i = Len(q) + 1
  BY <1>1
<1>4. \A i \in 1..Len(q) : q[i].ts \in Nat
  <2>1. \A i \in 1..Len(q) : q[i] \in LogLine
    BY <1>1
  <2>2. \A x \in LogLine : x.ts \in Nat
    BY DEF LogLine
  <2> QED BY <2>1, <2>2
<1>5. now \in Nat /\ Slow \in Nat /\ e.ts \in Nat
  BY ErrorDeferralAssumption DEF LogTypes, LogLine
<1>6. InOrder(r)
  <2> SUFFICES ASSUME NEW i \in 1..Len(q) + 1, NEW j \in 1..Len(q) + 1, i < j
               PROVE  r[i].ts <= r[j].ts + Slow
    BY <1>1 DEF InOrder
  <2>1. i \in 1..Len(q)
    BY <1>1
  <2>2. CASE j \in 1..Len(q)
    BY <1>1, <2>1, <2>2 DEF InOrder
  <2>3. CASE j = Len(q) + 1
    <3>1. q[i].ts <= now
      BY <2>1 DEF NotLater
    <3> QED BY <1>1, <1>4, <1>5, <2>1, <2>3, <3>1
  <2> QED BY <1>3, <2>2, <2>3
<1>7. NotLater(r)
  BY <1>1, <1>3 DEF NotLater
<1>8. ASSUME IsInjective(q), e \notin ToSet(q)
      PROVE  IsInjective(r)
  <2> SUFFICES ASSUME NEW i \in 1..Len(q) + 1, NEW j \in 1..Len(q) + 1, r[i] = r[j]
               PROVE  i = j
    BY <1>1 DEF IsInjective
  <2>1. \A n \in 1..Len(q) : q[n] # e
    BY <1>8, ToSetIs
  <2>2. CASE i \in 1..Len(q) /\ j \in 1..Len(q)
    BY <1>1, <1>8, <2>2 DEF IsInjective
  <2>3. CASE i \in 1..Len(q) /\ j = Len(q) + 1
    BY <1>1, <2>1, <2>3
  <2>4. CASE i = Len(q) + 1 /\ j \in 1..Len(q)
    BY <1>1, <2>1, <2>4
  <2> QED BY <1>3, <2>2, <2>3, <2>4
<1> QED BY <1>1, <1>2, <1>6, <1>7, <1>8 DEF r

\* As many lines as positions, if no line is twice in the queue.
LEMMA InjectiveLength ==
    ASSUME NEW S, NEW q \in Seq(S), IsInjective(q)
    PROVE  IsFiniteSet(ToSet(q)) /\ Cardinality(ToSet(q)) = Len(q)
<1>1. DOMAIN q = 1..Len(q) /\ Len(q) \in Nat /\ ToSet(q) = {q[i] : i \in 1..Len(q)}
  BY ToSetIs
<1>2. IsFiniteSet(1..Len(q)) /\ Cardinality(1..Len(q)) = Len(q)
  <2>1. ASSUME NEW n \in Nat
        PROVE  IsFiniteSet(1..n) /\ Cardinality(1..n) = n
    <3>1. IsFiniteSet(1..n) /\ Cardinality(1..n) = IF 1 > n THEN 0 ELSE n - 1 + 1
      BY FS_Interval
    <3>2. (IF 1 > n THEN 0 ELSE n - 1 + 1) = n
      OBVIOUS
    <3> QED BY <3>1, <3>2
  <2> QED BY <1>1, <2>1
<1>3. q \in [1..Len(q) -> ToSet(q)]
  BY <1>1
<1>4. q \in Bijection(1..Len(q), ToSet(q))
  BY <1>1, <1>3 DEF Bijection, Injection, Surjection, IsInjective
<1> QED BY <1>2, <1>4, FS_Bijection DEF ExistsBijection

\* The constants, as the provers like them.
LEMMA Bounds ==
    Window \in Nat /\ Window > 0 /\ Rolling \in Nat /\ Day \in Nat /\ Slow \in Nat
<1>1. Window \in Nat \ {0} /\ Rolling \in Nat /\ Day \in Nat /\ Slow \in Nat
  BY ErrorDeferralAssumption
<1> QED BY <1>1

\* What a flush takes of pending_ws, and what it leaves.
LEMMA TakeFacts ==
    ASSUME LogTypes, InOrder(pending), NotLater(pending), NEW ts \in Nat
    PROVE  LET front == Expired(ts)
               rest  == StillWaiting(ts)
           IN  /\ front \in Seq(LogLine) /\ rest \in Seq(LogLine)
               /\ ToSet(pending) = ToSet(front) \cup ToSet(rest)
               /\ IsInjective(pending) =>
                    IsInjective(front) /\ IsInjective(rest) /\ ToSet(front) \cap ToSet(rest) = {}
               /\ \A e \in ToSet(front) : e.ts + Window <= ts
               /\ InOrder(rest) /\ NotLater(rest)
               /\ \A e \in ToSet(rest) : ts < e.ts + Window + Slow
<1> DEFINE front == Expired(ts)
           rest  == StillWaiting(ts)
<1>1. pending \in Seq(LogLine)
  BY DEF LogTypes
<1>2. PICK k \in 0..Len(pending) :
        /\ PoppedAt(pending, k, front)
        /\ \A i \in 1..k : pending[i].ts + Window <= ts
        /\ k < Len(pending) => ~ (pending[k + 1].ts + Window <= ts)
  BY <1>1, ExpiredFacts
<1>3. front = SubSeq(pending, 1, k) /\ rest = SubSeq(pending, k + 1, Len(pending))
  BY <1>2 DEF PoppedAt, StillWaiting
<1> HIDE DEF front, rest
<1>4. /\ front \in Seq(LogLine) /\ Len(front) = k /\ \A i \in 1..k : front[i] = pending[i]
      /\ rest \in Seq(LogLine)
      /\ ToSet(pending) = ToSet(front) \cup ToSet(rest)
      /\ IsInjective(pending) =>
            IsInjective(front) /\ IsInjective(rest) /\ ToSet(front) \cap ToSet(rest) = {}
  <2> DEFINE a == SubSeq(pending, 1, k)
             b == SubSeq(pending, k + 1, Len(pending))
  <2>1. /\ a \in Seq(LogLine) /\ Len(a) = k /\ \A i \in 1..k : a[i] = pending[i]
        /\ b \in Seq(LogLine)
        /\ ToSet(pending) = ToSet(a) \cup ToSet(b)
        /\ IsInjective(pending) =>
              IsInjective(a) /\ IsInjective(b) /\ ToSet(a) \cap ToSet(b) = {}
    BY <1>1, SplitFacts
  <2> HIDE DEF a, b
  <2>2. front = a /\ rest = b
    BY <1>3 DEF a, b
  <2> QED BY <2>1, <2>2
<1>5. \A e \in ToSet(front) : e.ts + Window <= ts
  BY <1>2, <1>4, ToSetIs
<1>6. /\ ToSet(rest) \subseteq ToSet(pending) /\ InOrder(rest) /\ NotLater(rest)
      /\ \A e \in ToSet(rest) : k < Len(pending) /\ pending[k + 1].ts <= e.ts + Slow
  BY <1>1, <1>3, RestFacts
<1>7. ASSUME NEW e \in ToSet(rest)
      PROVE  ts < e.ts + Window + Slow
  <2>1. k < Len(pending) /\ pending[k + 1].ts <= e.ts + Slow /\ ~ (pending[k + 1].ts + Window <= ts)
    BY <1>2, <1>6
  <2>2. e \in LogLine /\ pending[k + 1] \in LogLine
    BY <1>1, <1>4, <2>1, ToSetIs
  <2>3. e.ts \in Nat /\ pending[k + 1].ts \in Nat
    BY <2>2 DEF LogLine
  <2>4. \A a, b \in Nat : a <= b + Slow /\ ~ (a + Window <= ts) => ts < b + Window + Slow
    BY Bounds
  <2> QED BY <2>1, <2>3, <2>4
<1> QED BY <1>4, <1>5, <1>6, <1>7 DEF front, rest

\* What is left of a queue that is pruned.
LEMMA PruneFacts ==
    ASSUME NEW q \in Seq(LogLine), NEW window \in Nat, NEW ts \in Nat
    PROVE  LET rest == Pruned(q, window, ts)
           IN  /\ rest \in Seq(LogLine) /\ ToSet(rest) \subseteq ToSet(q)
               /\ \A e \in ToSet(q) : e \in ToSet(rest) \/ e.ts + window < ts
               /\ InOrder(q) => InOrder(rest)
               /\ NotLater(q) => NotLater(rest)
               /\ InOrder(q) => \A e \in ToSet(rest) : ts <= e.ts + window + Slow
<1> DEFINE rest == Pruned(q, window, ts)
<1>1. PICK k \in 0..Len(q) :
        /\ rest = SubSeq(q, k + 1, Len(q))
        /\ \A i \in 1..k : q[i].ts + window < ts
        /\ k < Len(q) => ~ (q[k + 1].ts + window < ts)
  BY PrunedFacts
<1> HIDE DEF rest
<1>2. PICK front \in Seq(LogLine) :
        /\ Len(front) = k /\ \A i \in 1..k : front[i] = q[i]
        /\ ToSet(q) = ToSet(front) \cup ToSet(rest)
  BY <1>1, SplitFacts
<1>3. ASSUME NEW e \in ToSet(q), e \notin ToSet(rest)
      PROVE  e.ts + window < ts
  <2>1. e \in ToSet(front)
    BY <1>2, <1>3
  <2>2. PICK i \in 1..k : e = front[i]
    BY <1>2, <2>1, ToSetIs
  <2> QED BY <1>1, <1>2, <2>2
<1>4. /\ rest \in Seq(LogLine) /\ ToSet(rest) \subseteq ToSet(q)
      /\ InOrder(q) => InOrder(rest)
      /\ NotLater(q) => NotLater(rest)
      /\ InOrder(q) => \A e \in ToSet(rest) : k < Len(q) /\ q[k + 1].ts <= e.ts + Slow
  BY <1>1, RestFacts
<1>5. ASSUME InOrder(q), NEW e \in ToSet(rest)
      PROVE  ts <= e.ts + window + Slow
  <2>1. k < Len(q) /\ q[k + 1].ts <= e.ts + Slow /\ ~ (q[k + 1].ts + window < ts)
    BY <1>1, <1>4, <1>5
  <2>2. e \in LogLine /\ q[k + 1] \in LogLine
    BY <1>4, <2>1, ToSetIs
  <2>3. e.ts \in Nat /\ q[k + 1].ts \in Nat
    BY <2>2 DEF LogLine
  <2>4. \A a, b \in Nat : a <= b + Slow /\ ~ (a + window < ts) => ts <= b + window + Slow
    BY Bounds
  <2> QED BY <2>1, <2>3, <2>4
<1> QED BY <1>3, <1>4, <1>5 DEF rest

\* The steps of each kind of call, and what is left after each of them.
LEMMA StepsFacts ==
    ASSUME NEW kind \in Kinds
    PROVE  /\ Steps[kind] \in Lefts /\ Steps[kind] # <<>>
           /\ Head(Steps[kind]) \in {"record", "drain", "take", "forget"}
           /\ Head(Steps[kind]) = "drain" => kind = Recovery
           /\ kind \in Phrased => Head(Steps[kind]) = "record"
<1> USE DEF Phrased
<1>1. kind \in {"plain", "transient", "reset", "mention", "recovery", "snapshot", "resets"}
  BY DEF Kinds, Steps, Warning, Transient, Reset, Recovery
<1>2. CASE kind \in {"plain", "transient"}
  <2>1. Steps[kind] = <<"take", "push", "count">>
    BY <1>2 DEF Steps, Warning, Transient, Reset, Recovery
  <2> QED BY <1>2, <2>1 DEF Lefts, Reset
<1>3. CASE kind \in {"reset", "mention"}
  <2>1. Steps[kind] = <<"record", "take", "push", "count">>
    BY <1>3 DEF Steps, Warning, Transient, Reset, Recovery
  <2> QED BY <2>1 DEF Lefts
<1>4. CASE kind = "recovery"
  <2>1. Steps[kind] = <<"drain", "take", "push">>
    BY <1>4 DEF Steps, Warning, Transient, Reset, Recovery
  <2> QED BY <1>4, <2>1 DEF Lefts, Reset, Recovery
<1>5. CASE kind = "snapshot"
  <2>1. Steps[kind] = <<"take", "push", "prune">>
    BY <1>5 DEF Steps, Warning, Transient, Reset, Recovery
  <2> QED BY <1>5, <2>1 DEF Lefts, Reset
<1>6. CASE kind = "resets"
  <2>1. Steps[kind] = <<"forget">>
    BY <1>6 DEF Steps, Warning, Transient, Reset, Recovery
  <2> QED BY <1>6, <2>1 DEF Lefts, Reset
<1> QED BY <1>1, <1>2, <1>3, <1>4, <1>5, <1>6

\* See StepsFacts.
LEMMA TailFacts ==
    ASSUME NEW l \in Lefts, l # <<>>
    PROVE  /\ Tail(l) \in Lefts
           /\ Len(l) # 1 => Tail(l) # <<>>
           /\ Head(l) \in {"record", "drain"} => Len(l) # 1 /\ Head(Tail(l)) = "take"
           /\ Head(l) = "take" => Len(l) # 1 /\ Head(Tail(l)) = "push"
           /\ Head(l) = "push" /\ Len(l) # 1 => Head(Tail(l)) \in {"count", "prune"}
           /\ Head(l) \in {"count", "prune", "forget"} => Len(l) = 1
<1>1. /\ Tail(<<"record", "take", "push", "count">>) = <<"take", "push", "count">>
      /\ Tail(<<"take", "push", "count">>) = <<"push", "count">>
      /\ Tail(<<"push", "count">>) = <<"count">>
      /\ Tail(<<"count">>) = <<>>
      /\ Tail(<<"drain", "take", "push">>) = <<"take", "push">>
      /\ Tail(<<"take", "push">>) = <<"push">>
      /\ Tail(<<"push">>) = <<>>
      /\ Tail(<<"take", "push", "prune">>) = <<"push", "prune">>
      /\ Tail(<<"push", "prune">>) = <<"prune">>
      /\ Tail(<<"prune">>) = <<>>
      /\ Tail(<<"forget">>) = <<>>
  OBVIOUS
<1>2. Tail(l) \in Lefts
  BY <1>1 DEF Lefts
<1>3. Len(l) # 1 => Tail(l) # <<>>
  <2>1. /\ <<"take", "push", "count">> # <<>> /\ <<"push", "count">> # <<>>
        /\ <<"count">> # <<>> /\ <<"take", "push">> # <<>> /\ <<"push">> # <<>>
        /\ <<"push", "prune">> # <<>> /\ <<"prune">> # <<>>
    OBVIOUS
  <2>2. \/ l \in {<<"count">>, <<"push">>, <<"prune">>, <<"forget">>}
        \/ Tail(l) # <<>>
    BY <1>1, <2>1 DEF Lefts
  <2>3. ASSUME l \in {<<"count">>, <<"push">>, <<"prune">>, <<"forget">>}
        PROVE  Len(l) = 1
    BY <2>3
  <2> QED BY <2>2, <2>3
<1>4. /\ Head(l) \in {"record", "drain"} => Len(l) # 1 /\ Head(Tail(l)) = "take"
      /\ Head(l) = "take" => Len(l) # 1 /\ Head(Tail(l)) = "push"
      /\ Head(l) \in {"count", "prune", "forget"} => Len(l) = 1
  BY DEF Lefts
<1>5. Head(l) = "push" /\ Len(l) # 1 => Head(Tail(l)) \in {"count", "prune"}
  BY DEF Lefts
<1> QED BY <1>2, <1>3, <1>4, <1>5

-----------------------------------------------------------------------------
\* How a call goes on, and that it leaves the others alone.
LEMMA GoesFacts ==
    ASSUME LogTypes, NEW t \in Threads, NEW lock, At(t, lock),
           NEW tk \in Seq(LogLine), Goes(t, tk), tk = <<>> \/ lock = "take"
    PROVE  /\ call' \in [Threads -> [line : LogLine, left : Lefts, taken : Seq(LogLine)]]
           /\ \A u \in Threads : u # t => call'[u] = call[u]
           /\ Active(t)' => call'[t].line = call[t].line
           /\ call'[t].taken = tk
           /\ lock \in {"record", "drain"} => At(t, "take")'
           /\ lock = "take" => At(t, "push")'
           /\ lock = "push" => ~ Active(t)' \/ At(t, "count")' \/ At(t, "prune")'
           /\ lock \in {"count", "prune", "forget"} => ~ Active(t)'
<1> DEFINE c == call[t]
<1>1. c \in [line : LogLine, left : Lefts, taken : Seq(LogLine)]
  BY DEF LogTypes
<1>2. c.left \in Lefts /\ c.left # <<>> /\ Head(c.left) = lock
  BY <1>1 DEF At
<1>3. /\ Tail(c.left) \in Lefts
      /\ Len(c.left) # 1 => Tail(c.left) # <<>>
      /\ lock \in {"record", "drain"} => Len(c.left) # 1 /\ Head(Tail(c.left)) = "take"
      /\ lock = "take" => Len(c.left) # 1 /\ Head(Tail(c.left)) = "push"
      /\ lock = "push" /\ Len(c.left) # 1 => Head(Tail(c.left)) \in {"count", "prune"}
      /\ lock \in {"count", "prune", "forget"} => Len(c.left) = 1
  BY <1>2, TailFacts
<1>4. CASE Len(c.left) = 1
  <2>1. call' = [call EXCEPT ![t] = Idle]
    BY <1>4 DEF Goes
  <2>2. Idle \in [line : LogLine, left : Lefts, taken : Seq(LogLine)]
    <3>1. "plain" \in Kinds
      BY DEF Kinds, Steps, Warning
    <3> QED BY <3>1 DEF Idle, LogLine, Lefts
  <2>3. call'[t] = Idle /\ \A u \in Threads : u # t => call'[u] = call[u]
    BY <2>1 DEF LogTypes
  <2>4. call' \in [Threads -> [line : LogLine, left : Lefts, taken : Seq(LogLine)]]
    BY <2>1, <2>2 DEF LogTypes
  <2>5. call'[t].left = <<>> /\ call'[t].taken = <<>>
    BY <2>3 DEF Idle
  <2> QED BY <1>2, <1>3, <1>4, <2>3, <2>4, <2>5 DEF Active
<1>5. CASE Len(c.left) # 1
  <2> DEFINE d == [c EXCEPT !.left = Tail(@), !.taken = tk]
  <2>1. call' = [call EXCEPT ![t] = d]
    BY <1>1, <1>5 DEF Goes, LogTypes
  <2>2. /\ d \in [line : LogLine, left : Lefts, taken : Seq(LogLine)]
        /\ d.line = c.line /\ d.left = Tail(c.left) /\ d.taken = tk
    BY <1>1, <1>3
  <2> HIDE DEF d
  <2>3. call'[t] = d /\ \A u \in Threads : u # t => call'[u] = call[u]
    BY <2>1 DEF LogTypes
  <2>4. call' \in [Threads -> [line : LogLine, left : Lefts, taken : Seq(LogLine)]]
    BY <2>1, <2>2 DEF LogTypes
  <2>5. call'[t].left = Tail(c.left) /\ Tail(c.left) # <<>>
    BY <1>3, <1>5, <2>2, <2>3
  <2> QED BY <1>2, <1>3, <1>5, <2>2, <2>3, <2>4, <2>5 DEF Active, At
<1> QED BY <1>4, <1>5

\* What a step of a call keeps of the calls: it drains nothing anew, and holds lines
\* only if it has just taken them.
LEMMA CallsKept ==
    ASSUME LogTypes, CallsOK, NEW t \in Threads, NEW lock, At(t, lock),
           NEW tk \in Seq(LogLine), Goes(t, tk), tk = <<>> \/ lock = "take",
           now' = now, lines' = lines
    PROVE  /\ CallsOK'
           /\ \A u \in Threads : Active(u)' => Active(u) /\ call'[u].line = call[u].line
           /\ \A u \in Threads : At(u, "push")' =>
                (u # t /\ At(u, "push")) \/ (u = t /\ lock = "take")
           /\ \A u \in Threads : u # t /\ At(u, "drain") => At(u, "drain")'
           /\ \A u \in Threads : At(u, "take")' =>
                (u # t /\ At(u, "take")) \/ (u = t /\ lock \in {"record", "drain"})
<1>1. /\ call' \in [Threads -> [line : LogLine, left : Lefts, taken : Seq(LogLine)]]
      /\ \A u \in Threads : u # t => call'[u] = call[u]
      /\ Active(t)' => call'[t].line = call[t].line
      /\ call'[t].taken = tk
      /\ lock \in {"record", "drain"} => At(t, "take")'
      /\ lock = "take" => At(t, "push")'
      /\ lock = "push" => ~ Active(t)' \/ At(t, "count")' \/ At(t, "prune")'
      /\ lock \in {"count", "prune", "forget"} => ~ Active(t)'
  BY GoesFacts
<1>2. lock \in {"record", "drain", "take", "push", "count", "prune", "forget"}
  BY DEF At, LogTypes, Lefts
<1>3. \A u \in Threads : u # t =>
        /\ Active(u)' <=> Active(u)
        /\ \A l : At(u, l)' <=> At(u, l)
  BY <1>1 DEF Active, At
<1>4. Active(t) /\ \A l : At(t, l)' => Active(t)' /\ l = Head(call'[t].left)
  BY DEF Active, At
<1>5. \A u \in Threads : Active(u)' => Active(u) /\ call'[u].line = call[u].line
  BY <1>1, <1>3, <1>4
<1>6. /\ At(t, "push")' => lock = "take"
      /\ ~ At(t, "drain")'
      /\ At(t, "take")' => lock \in {"record", "drain"}
  BY <1>1, <1>2, <1>4
<1>7. CallsOK'
  <2>1. ASSUME NEW u \in Threads, Active(u)'
        PROVE  /\ call'[u].line.ts <= now'
               /\ now' <= call'[u].line.ts + Slow
               /\ call'[u].line.id <= lines'
    BY <1>5, <2>1 DEF CallsOK
  <2>2. ASSUME NEW u \in Threads, At(u, "drain")'
        PROVE  call'[u].line.kind = Recovery
    BY <1>1, <1>3, <1>6, <2>2 DEF CallsOK
  <2>3. ASSUME NEW u \in Threads
        PROVE  At(u, "push")' \/ call'[u].taken = <<>>
    <3>1. CASE u = t
      BY <1>1, <3>1
    <3>2. CASE u # t
      BY <1>1, <1>3, <3>2 DEF CallsOK
    <3> QED BY <3>1, <3>2
  <2> QED BY <2>1, <2>2, <2>3 DEF CallsOK
<1> QED BY <1>3, <1>5, <1>6, <1>7

\* The line of a call that is under way.
LEMMA LineFacts ==
    ASSUME LogTypes, CallsOK, NEW t \in Threads, Active(t)
    PROVE  /\ call[t].line \in LogLine /\ call[t].line.ts \in Nat /\ now \in Nat
           /\ call[t].line.ts <= now /\ now <= call[t].line.ts + Slow
<1>1. call[t].line \in LogLine /\ now \in Nat
  BY DEF LogTypes
<1>2. call[t].line.ts \in Nat
  BY <1>1 DEF LogLine
<1> QED BY <1>1, <1>2 DEF CallsOK

\* While no line is counted, the numbers stay apart.
LEMMA NumbersKept ==
    ASSUME Numbered, counted' = counted, lines' = lines,
           \A u \in Threads : Active(u)' => Active(u) /\ call'[u].line = call[u].line
    PROVE  Numbered'
BY DEF Numbered

\* A call does not overstay a line that is pushed while it runs.
LEMMA PushedInTime ==
    ASSUME LogTypes, CallsOK, NEW u \in Threads, Active(u),
           NEW t \in Threads, Active(t)
    PROVE  /\ call[u].line.ts < call[t].line.ts + Window + Slow
           /\ call[u].line.ts <= call[t].line.ts + Day + Slow
<1>1. /\ call[t].line.ts \in Nat /\ call[u].line.ts \in Nat /\ now \in Nat
      /\ call[u].line.ts <= now /\ now <= call[t].line.ts + Slow
  BY LineFacts
<1> QED BY <1>1, Bounds

\* A reset is noted behind the ones that are not a day old.
LEMMA RecordKeepsLog ==
    ASSUME LogInv, NEW t \in Threads, RecordReset(t)
    PROVE  LogInv'
<1> DEFINE line == call[t].line
           rest == Pruned(resets, Day, line.ts)
<1> USE DEF LogInv
<1>1. /\ At(t, "record") /\ Goes(t, <<>>)
      /\ resets' = Append(rest, line) /\ noted' = noted \cup {line}
      /\ UNCHANGED <<now, pending, recent, total, lines, counted, drained, committed, saved>>
  BY DEF RecordReset
<1>2. Active(t) /\ <<>> \in Seq(LogLine)
  BY <1>1 DEF At, Active
<1>3. /\ CallsOK'
      /\ \A u \in Threads : Active(u)' => Active(u) /\ call'[u].line = call[u].line
      /\ \A u \in Threads : At(u, "push")' => u # t /\ At(u, "push")
      /\ \A u \in Threads : u # t /\ At(u, "drain") => At(u, "drain")'
      /\ \A u \in Threads : At(u, "take")' => (u # t /\ At(u, "take")) \/ u = t
  BY <1>1, <1>2, CallsKept
<1>4. /\ call' \in [Threads -> [line : LogLine, left : Lefts, taken : Seq(LogLine)]]
      /\ \A u \in Threads : u # t => call'[u] = call[u]
      /\ call'[t].taken = <<>>
  BY <1>1, <1>2, GoesFacts
<1>5. line \in LogLine /\ line.ts \in Nat /\ now \in Nat /\ line.ts <= now /\ now <= line.ts + Slow
  BY <1>2, LineFacts
<1>6. /\ rest \in Seq(LogLine) /\ ToSet(rest) \subseteq ToSet(resets)
      /\ \A e \in ToSet(resets) : e \in ToSet(rest) \/ e.ts + Day < line.ts
      /\ InOrder(rest) /\ NotLater(rest)
      /\ \A e \in ToSet(rest) : line.ts <= e.ts + Day + Slow
  BY <1>5, Bounds, PruneFacts DEF LogTypes, Queued
<1> HIDE DEF rest, line
<1>7. /\ resets' \in Seq(LogLine) /\ ToSet(resets') = ToSet(rest) \cup {line}
      /\ InOrder(resets') /\ NotLater(resets')
  BY <1>1, <1>5, <1>6, AppendFacts
<1>8. LogTypes'
  BY <1>1, <1>4, <1>5, <1>7 DEF LogTypes
<1>9. Numbered'
  BY <1>1, <1>3, NumbersKept
<1>10. Queued'
  BY <1>1, <1>7 DEF Queued, InOrder, NotLater
<1>11. \A u \in Threads : call'[u].taken = call[u].taken
  <2>1. call[t].taken = <<>>
    BY <1>1 DEF CallsOK, At
  <2> QED BY <1>4, <2>1
<1>12. InOnePlace' /\ AndOnce'
  BY <1>1, <1>11 DEF EveryLineOnce, InOnePlace, AndOnce, Taken
<1>13. AndReported'
  <2>1. ASSUME NEW e \in noted', now' <= e.ts + Day
        PROVE  e \in ToSet(resets')
    <3>1. CASE e = line
      BY <1>7, <3>1
    <3>2. CASE e \in noted
      <4>1. e \in ToSet(resets) /\ e.ts \in Nat
        BY <1>1, <2>1, <3>2 DEF EveryLineOnce, AndReported, LogTypes, LogLine
      <4>2. ~ (e.ts + Day < line.ts)
        BY <1>1, <1>5, <2>1, <4>1, Bounds
      <4> QED BY <1>6, <1>7, <4>1, <4>2
    <3> QED BY <1>1, <3>1, <3>2
  <2> QED BY <1>1, <2>1 DEF EveryLineOnce, AndReported
<1>14. SavedOrWaiting'
  <2>1. ~ At(t, "drain")
    BY <1>1 DEF At
  <2> QED BY <1>1, <1>3, <1>4, <2>1 DEF SavedOrWaiting
<1>15. NothingOverstays'
  <2>1. ASSUME NEW u \in Threads, At(u, "push")', NEW e \in ToSet(pending)'
        PROVE  call'[u].line.ts < e.ts + Window + Slow
    BY <1>1, <1>3, <1>4, <2>1 DEF NothingOverstays
  <2>2. ASSUME NEW u \in Threads, call'[u].line.kind \in Phrased, At(u, "take")', NEW e \in ToSet(resets)'
        PROVE  call'[u].line.ts <= e.ts + Day + Slow
    <3>1. Active(u) /\ call'[u].line = call[u].line
      BY <1>3, <2>2 DEF Active, At
    <3>2. CASE e = line
      BY <1>2, <3>1, <3>2, PushedInTime DEF line
    <3>3. CASE e \in ToSet(rest)
      <4>1. CASE u = t
        BY <1>6, <3>1, <3>3, <4>1 DEF line
      <4>2. CASE u # t
        BY <1>3, <1>4, <1>6, <2>2, <3>3, <4>2 DEF NothingOverstays
      <4> QED BY <4>1, <4>2
    <3> QED BY <1>7, <2>2, <3>2, <3>3
  <2> QED BY <2>1, <2>2 DEF NothingOverstays
<1> QED BY <1>3, <1>8, <1>9, <1>10, <1>12, <1>13, <1>14, <1>15 DEF EveryLineOnce

\* A recovery drains what it finds in time, and those lines only.
LEMMA DrainKeepsLog ==
    ASSUME LogInv, NEW t \in Threads, Drain(t)
    PROVE  LogInv'
<1> DEFINE line == call[t].line
           left == Undrained(line.ts)
<1> USE DEF LogInv
<1>1. /\ At(t, "drain") /\ Goes(t, <<>>) /\ pending' = left
      /\ drained' = drained \cup (ToSet(pending) \ ToSet(left))
      /\ UNCHANGED <<now, recent, total, resets, lines, counted, committed, saved, noted>>
  BY DEF Drain
<1>2. Active(t) /\ <<>> \in Seq(LogLine) /\ ~ At(t, "push")
  BY <1>1 DEF At, Active
<1>3. /\ CallsOK'
      /\ \A u \in Threads : Active(u)' => Active(u) /\ call'[u].line = call[u].line
      /\ \A u \in Threads : At(u, "push")' => u # t /\ At(u, "push")
      /\ \A u \in Threads : u # t /\ At(u, "drain") => At(u, "drain")'
      /\ \A u \in Threads : At(u, "take")' => (u # t /\ At(u, "take")) \/ u = t
  BY <1>1, <1>2, CallsKept
<1>4. /\ call' \in [Threads -> [line : LogLine, left : Lefts, taken : Seq(LogLine)]]
      /\ \A u \in Threads : u # t => call'[u] = call[u]
      /\ call'[t].taken = <<>>
  BY <1>1, <1>2, GoesFacts
<1>5. line \in LogLine /\ line.ts \in Nat
  BY <1>2, LineFacts
<1>6. /\ left \in Seq(LogLine) /\ ToSet(left) \subseteq ToSet(pending)
      /\ IsInjective(left) /\ InOrder(left) /\ NotLater(left)
      /\ \A e \in ToSet(left) : e.ts + Window < line.ts
  <2>1. pending \in Seq(LogLine)
    BY DEF LogTypes
  <2>2. /\ PartOf(left, pending, Len(pending))
        /\ \A i \in 1..Len(left) : left[i].ts + Window < line.ts
    BY <1>5, <2>1, UndrainedFacts
  <2> HIDE DEF left
  <2>3. /\ left \in Seq(LogLine) /\ ToSet(left) \subseteq ToSet(pending)
        /\ IsInjective(left) /\ InOrder(left) /\ NotLater(left)
    BY <2>1, <2>2, PartOfFacts DEF Queued, EveryLineOnce, AndOnce
  <2>4. \A e \in ToSet(left) : e.ts + Window < line.ts
    BY <2>2, <2>3, ToSetIs
  <2> QED BY <2>3, <2>4
<1> HIDE DEF left
<1>7. LogTypes'
  <2>1. ToSet(pending) \subseteq LogLine
    BY ToSetIs DEF LogTypes
  <2> QED BY <1>1, <1>4, <1>6, <2>1 DEF LogTypes
<1>8. Numbered'
  BY <1>1, <1>3, NumbersKept
<1>9. Queued'
  BY <1>1, <1>6 DEF Queued, InOrder, NotLater
<1>10. \A u \in Threads : call'[u].taken = call[u].taken
  BY <1>2, <1>4 DEF CallsOK
<1>11. InOnePlace' /\ AndOnce' /\ AndReported'
  <2>1. InOnePlace'
    BY <1>1, <1>6, <1>10 DEF EveryLineOnce, InOnePlace, Taken
  <2>2. /\ ToSet(pending)' \cap (committed \cup drained)' = {}
        /\ committed' \cap drained' = {}
        /\ \A u \in Threads : Taken(u)' \cap (ToSet(pending) \cup committed \cup drained)' = {}
    BY <1>1, <1>6, <1>10 DEF EveryLineOnce, AndOnce, Taken
  <2>3. AndOnce'
    BY <1>1, <1>6, <1>10, <2>2 DEF EveryLineOnce, AndOnce, Taken
  <2> QED BY <1>1, <2>1, <2>3 DEF EveryLineOnce, AndReported
<1>12. SavedOrWaiting'
  <2> SUFFICES ASSUME NEW e \in saved, e \notin drained', e \notin drained
               PROVE  /\ e \in ToSet(pending')
                      /\ \E u \in Threads : /\ At(u, "drain")'
                                            /\ call'[u].line.ts + Slow < e.ts + Window
    BY <1>1 DEF SavedOrWaiting
  <2>1. PICK u \in Threads : At(u, "drain") /\ call[u].line.ts + Slow < e.ts + Window
    BY DEF SavedOrWaiting
  <2>2. e \in ToSet(pending) /\ e \in ToSet(left)
    BY <1>1 DEF SavedOrWaiting
  <2>3. u # t
    <3>1. e.ts + Window < line.ts /\ e.ts \in Nat
      BY <1>6, <2>2 DEF LogTypes, LogLine
    <3> QED BY <1>5, <2>1, <3>1, Bounds
  <2> QED BY <1>1, <1>3, <1>4, <2>1, <2>2, <2>3
<1>13. NothingOverstays'
  <2>1. ~ (call[t].line.kind \in Phrased)
    BY <1>1 DEF CallsOK, Phrased, Reset, Recovery
  <2>2. \A u \in Threads : At(u, "push")' \/ At(u, "take")' => call'[u].line = call[u].line
    BY <1>3 DEF At, Active
  <2> QED BY <1>1, <1>3, <1>6, <2>1, <2>2 DEF NothingOverstays
<1> QED BY <1>3, <1>7, <1>8, <1>9, <1>11, <1>12, <1>13 DEF EveryLineOnce

\* A flush takes what is due, and moves every line it takes to its call.
LEMMA TakeKeepsLog ==
    ASSUME LogInv, NEW t \in Threads, Take(t)
    PROVE  LogInv'
<1> DEFINE line == call[t].line
           front == Expired(line.ts)
           rest == StillWaiting(line.ts)
<1> USE DEF LogInv
<1>1. /\ At(t, "take") /\ Goes(t, front) /\ pending' = rest
      /\ UNCHANGED <<now, recent, total, resets, lines, counted, drained, committed, saved, noted>>
  BY DEF Take, logHistories
<1>2. Active(t) /\ ~ At(t, "push") /\ ~ At(t, "drain")
  BY <1>1 DEF At, Active
<1>3. line \in LogLine /\ line.ts \in Nat /\ now \in Nat /\ line.ts <= now
  BY <1>2, LineFacts
<1>4. /\ front \in Seq(LogLine) /\ rest \in Seq(LogLine)
      /\ ToSet(pending) = ToSet(front) \cup ToSet(rest)
      /\ IsInjective(front) /\ IsInjective(rest) /\ ToSet(front) \cap ToSet(rest) = {}
      /\ \A e \in ToSet(front) : e.ts + Window <= line.ts
      /\ InOrder(rest) /\ NotLater(rest)
      /\ \A e \in ToSet(rest) : line.ts < e.ts + Window + Slow
  BY <1>3, TakeFacts DEF Queued, EveryLineOnce, AndOnce
<1> HIDE DEF front, rest
<1>5. /\ CallsOK'
      /\ \A u \in Threads : Active(u)' => Active(u) /\ call'[u].line = call[u].line
      /\ \A u \in Threads : At(u, "push")' => (u # t /\ At(u, "push")) \/ u = t
      /\ \A u \in Threads : u # t /\ At(u, "drain") => At(u, "drain")'
      /\ \A u \in Threads : At(u, "take")' => u # t /\ At(u, "take")
  BY <1>1, <1>4, CallsKept
<1>6. /\ call' \in [Threads -> [line : LogLine, left : Lefts, taken : Seq(LogLine)]]
      /\ \A u \in Threads : u # t => call'[u] = call[u]
      /\ call'[t].taken = front
  BY <1>1, <1>4, GoesFacts
<1>7. LogTypes'
  BY <1>1, <1>4, <1>6 DEF LogTypes
<1>8. Numbered'
  BY <1>1, <1>5, NumbersKept
<1>9. Queued'
  BY <1>1, <1>4 DEF Queued, InOrder, NotLater
<1>10. /\ Taken(t) = {} /\ Taken(t)' = ToSet(front)
       /\ \A u \in Threads : u # t => Taken(u)' = Taken(u)
  <2>1. call[t].taken = <<>>
    BY <1>2 DEF CallsOK
  <2> QED BY <1>6, <2>1 DEF Taken, ToSet
<1>11. InOnePlace'
  BY <1>1, <1>4, <1>10 DEF EveryLineOnce, InOnePlace
<1>12. AndOnce'
  <2>1. /\ ToSet(rest) \cap (committed \cup drained) = {} /\ committed \cap drained = {}
        /\ ToSet(front) \cap (committed \cup drained) = {}
        /\ total = Cardinality(committed)
    BY <1>4 DEF EveryLineOnce, AndOnce
  <2>2. \A u \in Threads : Taken(u)' \cap (ToSet(rest) \cup committed \cup drained) = {}
    BY <1>4, <1>10, <2>1 DEF EveryLineOnce, AndOnce
  <2>3. \A u, v \in Threads : u # v => Taken(u)' \cap Taken(v)' = {}
    BY <1>4, <1>10 DEF EveryLineOnce, AndOnce
  <2>4. IsInjective(rest) /\ \A u \in Threads : IsInjective(call'[u].taken)
    BY <1>4, <1>6 DEF EveryLineOnce, AndOnce
  <2> QED BY <1>1, <2>1, <2>2, <2>3, <2>4 DEF AndOnce
<1>13. AndReported'
  BY <1>1 DEF EveryLineOnce, AndReported
<1>14. SavedOrWaiting'
  <2> SUFFICES ASSUME NEW e \in saved, e \notin drained
               PROVE  /\ e \in ToSet(rest)
                      /\ \E u \in Threads : /\ At(u, "drain")'
                                            /\ call'[u].line.ts + Slow < e.ts + Window
    BY <1>1 DEF SavedOrWaiting
  <2>1. PICK u \in Threads : At(u, "drain") /\ call[u].line.ts + Slow < e.ts + Window
    BY DEF SavedOrWaiting
  <2>2. e \in ToSet(pending) /\ e.ts \in Nat
    BY DEF SavedOrWaiting, LogTypes, LogLine
  <2>3. call[u].line.ts \in Nat /\ now <= call[u].line.ts + Slow
    BY <2>1, LineFacts DEF At, Active
  <2>4. ~ (e.ts + Window <= line.ts)
    BY <1>3, <2>1, <2>2, <2>3, Bounds
  <2>5. e \in ToSet(rest)
    BY <1>4, <2>2, <2>4
  <2> QED BY <1>2, <1>5, <1>6, <2>1, <2>5
<1>15. NothingOverstays'
  <2>1. \A u \in Threads : At(u, "push")' \/ At(u, "take")' => call'[u].line = call[u].line
    BY <1>5 DEF At, Active
  <2> QED BY <1>1, <1>4, <1>5, <2>1 DEF NothingOverstays
<1> QED BY <1>5, <1>7, <1>8, <1>9, <1>11, <1>12, <1>13, <1>14, <1>15 DEF EveryLineOnce

\* What a call holds is committed, once.
LEMMA CommitKeepsLog ==
    ASSUME LogInv, NEW t \in Threads, CommitBatch(t)
    PROVE  LogInv'
<1> DEFINE taken == call[t].taken
<1> USE DEF LogInv
<1>1. /\ At(t, "push") /\ Goes(t, <<>>)
      /\ recent' = recent \o taken /\ total' = total + Len(taken)
      /\ committed' = committed \cup Taken(t)
      /\ UNCHANGED <<now, pending, resets, lines, counted, drained, saved, noted>>
  BY DEF CommitBatch, Taken
<1>2. Active(t) /\ <<>> \in Seq(LogLine) /\ ~ At(t, "drain")
  BY <1>1 DEF At, Active
<1>3. /\ CallsOK'
      /\ \A u \in Threads : Active(u)' => Active(u) /\ call'[u].line = call[u].line
      /\ \A u \in Threads : At(u, "push")' => u # t /\ At(u, "push")
      /\ \A u \in Threads : u # t /\ At(u, "drain") => At(u, "drain")'
      /\ \A u \in Threads : At(u, "take")' => u # t /\ At(u, "take")
  BY <1>1, <1>2, CallsKept
<1>4. /\ call' \in [Threads -> [line : LogLine, left : Lefts, taken : Seq(LogLine)]]
      /\ \A u \in Threads : u # t => call'[u] = call[u]
      /\ call'[t].taken = <<>>
  BY <1>1, <1>2, GoesFacts
<1>5. taken \in Seq(LogLine) /\ IsInjective(taken) /\ recent \in Seq(LogLine)
  BY DEF LogTypes, EveryLineOnce, AndOnce
<1>6. /\ Taken(t)' = {} /\ \A u \in Threads : u # t => Taken(u)' = Taken(u)
      /\ IsInjective(<<>>)
  BY <1>4 DEF Taken, ToSet, IsInjective
<1>7. /\ IsFiniteSet(Taken(t)) /\ Cardinality(Taken(t)) = Len(taken) /\ Len(taken) \in Nat
      /\ Taken(t) \subseteq LogLine
  BY <1>5, InjectiveLength, ToSetIs DEF Taken
<1>8. /\ IsFiniteSet(committed') /\ Cardinality(committed') = Cardinality(committed) + Len(taken)
      /\ Cardinality(committed) \in Nat
  <2>1. committed \cap Taken(t) = {}
    BY DEF EveryLineOnce, AndOnce
  <2>2. IsFiniteSet(committed)
    BY DEF LogTypes
  <2>3. Cardinality(committed) \in Nat /\ Cardinality({}) = 0
    BY <2>2, FS_CardinalityType, FS_EmptySet
  <2>4. /\ IsFiniteSet(committed \cup Taken(t))
        /\ Cardinality(committed \cup Taken(t)) =
              Cardinality(committed) + Cardinality(Taken(t)) - Cardinality(committed \cap Taken(t))
    BY <1>7, <2>2, FS_Union
  <2>5. committed' = committed \cup Taken(t)
    BY <1>1
  <2>6. Cardinality(committed') = Cardinality(committed) + Len(taken) - Cardinality({})
    BY <1>7, <2>1, <2>4, <2>5, Zenon
  <2>7. \A a, b, c \in Nat : c = 0 => a + b - c = a + b
    OBVIOUS
  <2>8. Cardinality(committed') = Cardinality(committed) + Len(taken)
    <3> HIDE DEF taken
    <3>1. Cardinality(committed) \in Nat /\ Len(taken) \in Nat
      BY <1>7, <2>3
    <3> QED BY <2>3, <2>6, <2>7, <3>1
  <2> QED BY <2>3, <2>4, <2>5, <2>8
<1>9. recent' \in Seq(LogLine) /\ ToSet(recent') = ToSet(recent) \cup Taken(t)
  BY <1>1, <1>5, ToSetConcat DEF Taken
<1> HIDE DEF taken
<1>10. LogTypes'
  BY <1>1, <1>4, <1>7, <1>8, <1>9 DEF LogTypes
<1>11. Numbered'
  BY <1>1, <1>3, NumbersKept
<1>12. Queued'
  BY <1>1 DEF Queued, InOrder, NotLater
<1>13. InOnePlace'
  BY <1>1, <1>6 DEF EveryLineOnce, InOnePlace
<1>14. AndOnce'
  <2>1. /\ ToSet(pending) \cap (committed' \cup drained) = {} /\ committed' \cap drained = {}
        /\ total' = Cardinality(committed')
    BY <1>1, <1>8 DEF EveryLineOnce, AndOnce
  <2>2. \A u \in Threads : Taken(u)' \cap (ToSet(pending) \cup committed' \cup drained) = {}
    BY <1>1, <1>6 DEF EveryLineOnce, AndOnce
  <2>3. \A u, v \in Threads : u # v => Taken(u)' \cap Taken(v)' = {}
    BY <1>6 DEF EveryLineOnce, AndOnce
  <2>4. IsInjective(pending) /\ \A u \in Threads : IsInjective(call'[u].taken)
    BY <1>4, <1>6 DEF EveryLineOnce, AndOnce
  <2> QED BY <1>1, <2>1, <2>2, <2>3, <2>4 DEF AndOnce
<1>15. AndReported'
  BY <1>1, <1>9 DEF EveryLineOnce, AndReported
<1>16. SavedOrWaiting'
  BY <1>1, <1>2, <1>3, <1>4 DEF SavedOrWaiting
<1>17. NothingOverstays'
  <2>1. \A u \in Threads : At(u, "push")' \/ At(u, "take")' => call'[u].line = call[u].line
    BY <1>3 DEF At, Active
  <2> QED BY <1>1, <1>3, <2>1 DEF NothingOverstays
<1> QED BY <1>3, <1>10, <1>11, <1>12, <1>13, <1>14, <1>15, <1>16, <1>17 DEF EveryLineOnce

\* A snapshot prunes what is older than the window, and the call for the resets what
\* is older than a day.
LEMMA PruneKeepsLog ==
    ASSUME LogInv, NEW t \in Threads, Prune(t) \/ Forget(t)
    PROVE  LogInv'
<1> DEFINE ts == call[t].line.ts
<1> USE DEF LogInv
<1>1. PICK lock \in {"prune", "forget"} :
      /\ At(t, lock) /\ Goes(t, <<>>)
      /\ UNCHANGED <<now, pending, total, lines, counted, drained, committed, saved, noted>>
      /\ \/ recent' = Pruned(recent, Rolling, ts) /\ resets' = resets
         \/ recent' = recent /\ resets' = Pruned(resets, Day, ts)
  BY DEF Prune, Forget, logHistories
<1>2. Active(t) /\ <<>> \in Seq(LogLine) /\ ~ At(t, "push") /\ ~ At(t, "drain")
  BY <1>1 DEF At, Active
<1>3. /\ CallsOK'
      /\ \A u \in Threads : Active(u)' => Active(u) /\ call'[u].line = call[u].line
      /\ \A u \in Threads : At(u, "push")' => u # t /\ At(u, "push")
      /\ \A u \in Threads : u # t /\ At(u, "drain") => At(u, "drain")'
      /\ \A u \in Threads : At(u, "take")' => u # t /\ At(u, "take")
  BY <1>1, <1>2, CallsKept
<1>4. /\ call' \in [Threads -> [line : LogLine, left : Lefts, taken : Seq(LogLine)]]
      /\ \A u \in Threads : u # t => call'[u] = call[u]
      /\ call'[t].taken = <<>>
  BY <1>1, <1>2, GoesFacts
<1>5. ts \in Nat /\ now \in Nat /\ ts <= now
  BY <1>2, LineFacts
<1>6. LET a == Pruned(recent, Rolling, ts)
          b == Pruned(resets, Day, ts)
      IN  /\ a \in Seq(LogLine) /\ \A e \in ToSet(recent) : e \in ToSet(a) \/ e.ts + Rolling < ts
          /\ b \in Seq(LogLine) /\ \A e \in ToSet(resets) : e \in ToSet(b) \/ e.ts + Day < ts
          /\ ToSet(b) \subseteq ToSet(resets) /\ InOrder(b) /\ NotLater(b)
  BY <1>5, Bounds, PruneFacts DEF LogTypes, Queued
<1>7. /\ recent' \in Seq(LogLine) /\ resets' \in Seq(LogLine)
      /\ \A e \in ToSet(recent) : e \in ToSet(recent') \/ e.ts + Rolling < ts
      /\ \A e \in ToSet(resets) : e \in ToSet(resets') \/ e.ts + Day < ts
      /\ ToSet(resets') \subseteq ToSet(resets) /\ InOrder(resets') /\ NotLater(resets')
  BY <1>1, <1>6 DEF LogTypes, Queued
<1> HIDE DEF ts
<1>8. LogTypes'
  BY <1>1, <1>4, <1>7 DEF LogTypes
<1>9. Numbered'
  BY <1>1, <1>3, NumbersKept
<1>10. Queued'
  BY <1>1, <1>7 DEF Queued, InOrder, NotLater
<1>11. \A u \in Threads : call'[u].taken = call[u].taken
  BY <1>2, <1>4 DEF CallsOK
<1>12. InOnePlace' /\ AndOnce'
  BY <1>1, <1>11 DEF EveryLineOnce, InOnePlace, AndOnce, Taken
<1>13. AndReported'
  <2>1. ASSUME NEW e \in committed, now <= e.ts + Rolling
        PROVE  e \in ToSet(recent')
    <3>1. e \in ToSet(recent) /\ e.ts \in Nat
      BY <2>1 DEF EveryLineOnce, AndReported, LogTypes, LogLine
    <3> QED BY <1>5, <1>7, <2>1, <3>1, Bounds
  <2>2. ASSUME NEW e \in noted, now <= e.ts + Day
        PROVE  e \in ToSet(resets')
    <3>1. e \in ToSet(resets) /\ e.ts \in Nat
      BY <2>2 DEF EveryLineOnce, AndReported, LogTypes, LogLine
    <3> QED BY <1>5, <1>7, <2>2, <3>1, Bounds
  <2> QED BY <1>1, <2>1, <2>2 DEF AndReported
<1>14. SavedOrWaiting'
  BY <1>1, <1>2, <1>3, <1>4 DEF SavedOrWaiting
<1>15. NothingOverstays'
  <2>1. \A u \in Threads : At(u, "push")' \/ At(u, "take")' => call'[u].line = call[u].line
    BY <1>3 DEF At, Active
  <2> QED BY <1>1, <1>3, <1>7, <2>1 DEF NothingOverstays
<1> QED BY <1>3, <1>8, <1>9, <1>10, <1>12, <1>13, <1>14, <1>15 DEF EveryLineOnce

\* A line that counts is new: it goes to pending_ws or is committed.
LEMMA CountKeepsLog ==
    ASSUME LogInv, NEW t \in Threads, Count(t)
    PROVE  LogInv'
<1> DEFINE line == call[t].line
<1> USE DEF LogInv
<1>1. /\ At(t, "count") /\ Goes(t, <<>>)
      /\ UNCHANGED <<now, resets, lines, drained, saved, noted>>
      /\ \/ UNCHANGED <<pending, recent, total, counted, committed>>
         \/ /\ counted' = counted \cup {line} /\ pending' = Append(pending, line)
            /\ UNCHANGED <<recent, total, committed>>
         \/ /\ counted' = counted \cup {line} /\ recent' = Append(recent, line)
            /\ total' = total + 1 /\ committed' = committed \cup {line}
            /\ UNCHANGED pending
  BY DEF Count
<1>2. Active(t) /\ <<>> \in Seq(LogLine) /\ ~ At(t, "push") /\ ~ At(t, "drain")
  BY <1>1 DEF At, Active
<1>3. /\ CallsOK'
      /\ \A u \in Threads : Active(u)' => Active(u) /\ call'[u].line = call[u].line
      /\ \A u \in Threads : At(u, "push")' => u # t /\ At(u, "push")
      /\ \A u \in Threads : u # t /\ At(u, "drain") => At(u, "drain")'
      /\ \A u \in Threads : At(u, "take")' => u # t /\ At(u, "take")
  BY <1>1, <1>2, CallsKept
<1>4. /\ call' \in [Threads -> [line : LogLine, left : Lefts, taken : Seq(LogLine)]]
      /\ \A u \in Threads : u # t => call'[u] = call[u]
      /\ call'[t].taken = <<>> /\ ~ Active(t)'
  BY <1>1, <1>2, GoesFacts
<1>5. line \in LogLine /\ line.ts \in Nat /\ now \in Nat /\ line.ts <= now /\ now <= line.ts + Slow
  BY <1>2, LineFacts
<1>6. /\ line \notin counted /\ line.id <= lines
      /\ \A u \in Threads : u # t /\ Active(u) => call[u].line.id # line.id
  BY <1>2 DEF Numbered, CallsOK
<1>7. /\ \A u \in Threads : call'[u].taken = call[u].taken
      /\ \A u \in Threads : Taken(u)' = Taken(u)
  BY <1>2, <1>4 DEF CallsOK, Taken
<1>8. line \notin ToSet(pending) \cup committed \cup drained /\ \A u \in Threads : line \notin Taken(u)
  BY <1>6 DEF EveryLineOnce, InOnePlace
<1>9. /\ LET q == Append(pending, line) IN
           /\ q \in Seq(LogLine) /\ ToSet(q) = ToSet(pending) \cup {line}
           /\ InOrder(q) /\ NotLater(q)
           /\ IsInjective(q)
      /\ Append(recent, line) \in Seq(LogLine)
      /\ ToSet(Append(recent, line)) = ToSet(recent) \cup {line}
  BY <1>5, <1>8, AppendFacts, ToSetAppend DEF LogTypes, Queued, EveryLineOnce, AndOnce
<1>10. /\ IsFiniteSet(committed \cup {line}) /\ Cardinality(committed) \in Nat
       /\ Cardinality(committed \cup {line}) = Cardinality(committed) + 1
  BY <1>8, FS_AddElement, FS_CardinalityType DEF LogTypes
<1> HIDE DEF line
<1>11. LogTypes'
  BY <1>1, <1>4, <1>5, <1>9, <1>10 DEF LogTypes
<1>12. Numbered'
  <2>1. \A u \in Threads : Active(u)' => u # t
    BY <1>4
  <2>2. \A e \in counted' : e \in counted \/ e = line
    BY <1>1
  <2> QED BY <1>1, <1>3, <1>6, <2>1, <2>2 DEF Numbered
<1>13. Queued'
  BY <1>1, <1>9 DEF Queued, InOrder, NotLater
<1>14. InOnePlace'
  BY <1>1, <1>7, <1>9 DEF EveryLineOnce, InOnePlace
<1>15. AndOnce'
  <2>1. CASE UNCHANGED <<pending, committed, total>>
    BY <1>1, <1>7, <2>1 DEF EveryLineOnce, AndOnce
  <2>2. CASE pending' = Append(pending, line) /\ UNCHANGED <<total, committed>>
    BY <1>1, <1>7, <1>8, <1>9, <2>2 DEF EveryLineOnce, AndOnce
  <2>3. CASE committed' = committed \cup {line} /\ total' = total + 1 /\ pending' = pending
    BY <1>1, <1>7, <1>8, <1>10, <2>3 DEF EveryLineOnce, AndOnce
  <2> QED BY <1>1, <2>1, <2>2, <2>3
<1>16. AndReported'
  BY <1>1, <1>9 DEF EveryLineOnce, AndReported
<1>17. SavedOrWaiting'
  <2>1. ToSet(pending) \subseteq ToSet(pending')
    BY <1>1, <1>9
  <2> QED BY <1>1, <1>2, <1>3, <1>4, <2>1 DEF SavedOrWaiting
<1>18. NothingOverstays'
  <2>1. \A u \in Threads : At(u, "push")' \/ At(u, "take")' => Active(u) /\ call'[u].line = call[u].line
    BY <1>3 DEF At, Active
  <2>2. \A e \in ToSet(pending') : e \in ToSet(pending) \/ e = line
    BY <1>1, <1>9
  <2>3. \A u \in Threads : Active(u) => call[u].line.ts < line.ts + Window + Slow
    BY <1>2, PushedInTime DEF line
  <2> QED BY <1>1, <1>3, <2>1, <2>2, <2>3 DEF NothingOverstays
<1> QED BY <1>3, <1>11, <1>12, <1>13, <1>14, <1>15, <1>16, <1>17, <1>18 DEF EveryLineOnce

\* A call begins with a number of its own; what a recovery finds in time waits for it.
LEMMA BeginKeepsLog ==
    ASSUME LogInv, NEW t \in Threads, Begin(t)
    PROVE  LogInv'
<1> USE DEF LogInv
<1>1. PICK kind \in Kinds :
        /\ call' = [call EXCEPT ![t] = [line  |-> [id |-> lines', ts |-> now, kind |-> kind],
                                        left  |-> Steps[kind], taken |-> <<>>]]
        /\ saved' = IF kind # Recovery THEN saved
                    ELSE saved \cup {e \in ToSet(pending) : now + Slow < e.ts + Window}
  BY DEF Begin, Kinds
<1>2. /\ ~ Active(t) /\ lines' = lines + 1
      /\ UNCHANGED <<now, pending, recent, total, resets, counted, drained, committed, noted>>
  BY DEF Begin, Active
<1>3. /\ Steps[kind] \in Lefts /\ Steps[kind] # <<>>
      /\ Head(Steps[kind]) \in {"record", "drain", "take", "forget"}
      /\ Head(Steps[kind]) = "drain" => kind = Recovery
      /\ kind \in Phrased => Head(Steps[kind]) = "record"
      /\ kind = Recovery => Head(Steps[kind]) = "drain"
  <2>1. Steps[Recovery] = <<"drain", "take", "push">>
    BY DEF Steps, Warning, Transient, Reset, Recovery
  <2> QED BY <2>1, StepsFacts
<1>4. now \in Nat /\ lines \in Nat /\ lines' \in Nat /\ now <= now + Slow /\ lines <= lines'
      /\ \A n \in Nat : n <= lines => n <= lines' /\ n # lines'
  BY <1>2, Bounds, ErrorDeferralAssumption DEF LogTypes
<1>5. /\ call' \in [Threads -> [line : LogLine, left : Lefts, taken : Seq(LogLine)]]
      /\ \A u \in Threads : u # t => call'[u] = call[u]
      /\ call'[t].line = [id |-> lines', ts |-> now, kind |-> kind]
      /\ call'[t].left = Steps[kind] /\ call'[t].taken = <<>>
  <2>1. [id |-> lines', ts |-> now, kind |-> kind] \in LogLine
    BY <1>4 DEF LogLine
  <2> QED BY <1>1, <1>3, <2>1 DEF LogTypes
<1>6. /\ Active(t)' /\ ~ At(t, "push")'
      /\ At(t, "drain")' <=> kind = Recovery
      /\ kind \in Phrased => ~ At(t, "take")'
      /\ \A l : ~ At(t, l)
      /\ \A u \in Threads : u # t => /\ Active(u)' <=> Active(u)
                                     /\ \A l : At(u, l)' <=> At(u, l)
  BY <1>2, <1>3, <1>5 DEF Active, At
<1>7. LogTypes'
  BY <1>1, <1>2, <1>4, <1>5, ToSetIs DEF LogTypes
<1>8. CallsOK'
  <2>1. ASSUME NEW u \in Threads, Active(u)'
        PROVE  /\ call'[u].line.ts <= now' /\ now' <= call'[u].line.ts + Slow
               /\ call'[u].line.id <= lines'
    <3>1. CASE u = t
      BY <1>2, <1>4, <1>5, <3>1
    <3>2. CASE u # t
      <4>1. call[u].line \in LogLine
        BY DEF LogTypes
      <4>2. call[u].line.id \in Nat
        BY <4>1 DEF LogLine
      <4> QED BY <1>2, <1>4, <1>5, <1>6, <2>1, <3>2, <4>2 DEF CallsOK
    <3> QED BY <3>1, <3>2
  <2>2. ASSUME NEW u \in Threads
        PROVE  /\ At(u, "drain")' => call'[u].line.kind = Recovery
               /\ At(u, "push")' \/ call'[u].taken = <<>>
    BY <1>5, <1>6, <2>2 DEF CallsOK
  <2> QED BY <2>1, <2>2 DEF CallsOK
<1>9. Numbered'
  <2>1. \A u \in Threads : Active(u) => call[u].line.id \in Nat /\ call[u].line.id <= lines
    <3>1. \A u \in Threads : call[u].line \in LogLine
      BY DEF LogTypes
    <3> QED BY <3>1 DEF LogLine, CallsOK
  <2>2. \A e \in counted : e.id \in Nat /\ e.id <= lines
    BY DEF LogTypes, LogLine, Numbered
  <2>3. call'[t].line.id = lines'
    BY <1>5
  <2>4. ASSUME NEW u \in Threads, NEW v \in Threads, Active(u)', Active(v)', u # v
        PROVE  call'[u].line.id # call'[v].line.id
    <3>1. CASE u # t /\ v # t
      BY <1>5, <1>6, <2>4, <3>1 DEF Numbered
    <3>2. CASE u = t
      BY <1>4, <1>5, <1>6, <2>1, <2>3, <2>4, <3>2
    <3>3. CASE v = t
      BY <1>4, <1>5, <1>6, <2>1, <2>3, <2>4, <3>3
    <3> QED BY <3>1, <3>2, <3>3
  <2>5. \A e \in counted : e.id <= lines'
    BY <1>4, <2>2
  <2>6. ASSUME NEW e \in counted, NEW u \in Threads, Active(u)'
        PROVE  call'[u].line.id # e.id
    <3>1. CASE u # t
      BY <1>5, <1>6, <2>6, <3>1 DEF Numbered
    <3>2. CASE u = t
      BY <1>4, <2>2, <2>3, <3>2
    <3> QED BY <3>1, <3>2
  <2> QED BY <1>2, <2>4, <2>5, <2>6 DEF Numbered
<1>10. Queued'
  BY <1>2 DEF Queued, InOrder, NotLater
<1>11. \A u \in Threads : call'[u].taken = call[u].taken
  BY <1>5, <1>6 DEF CallsOK
<1>12. InOnePlace' /\ AndOnce' /\ AndReported'
  <2>1. InOnePlace /\ AndOnce /\ AndReported
    BY DEF EveryLineOnce
  <2>2. \A u \in Threads : Taken(u)' = Taken(u)
    BY <1>11 DEF Taken
  <2>3. InOnePlace'
    BY <1>2, <2>1, <2>2 DEF InOnePlace
  <2>4. AndOnce'
    BY <1>2, <1>11, <2>1, <2>2 DEF AndOnce
  <2>5. AndReported'
    BY <1>2, <2>1 DEF AndReported
  <2> QED BY <2>3, <2>4, <2>5
<1>13. SavedOrWaiting'
  <2> SUFFICES ASSUME NEW e \in saved', e \notin drained
               PROVE  /\ e \in ToSet(pending)
                      /\ \E u \in Threads : /\ At(u, "drain")'
                                            /\ call'[u].line.ts + Slow < e.ts + Window
    BY <1>2 DEF SavedOrWaiting
  <2>1. CASE e \in saved
    <3>1. PICK u \in Threads : At(u, "drain") /\ call[u].line.ts + Slow < e.ts + Window
      BY <2>1 DEF SavedOrWaiting
    <3> QED BY <1>5, <1>6, <2>1, <3>1 DEF SavedOrWaiting
  <2>2. CASE e \notin saved
    <3>1. kind = Recovery /\ e \in ToSet(pending) /\ now + Slow < e.ts + Window
      BY <1>1, <2>2
    <3>2. call'[t].line.ts = now
      BY <1>5
    <3> QED BY <1>6, <3>1, <3>2
  <2> QED BY <2>1, <2>2
<1>14. NothingOverstays'
  <2>1. \A u \in Threads : At(u, "push")' => At(u, "push") /\ call'[u].line = call[u].line
    BY <1>5, <1>6
  <2>2. \A u \in Threads : At(u, "take")' /\ call'[u].line.kind \in Phrased =>
                          At(u, "take") /\ call'[u].line = call[u].line
    BY <1>5, <1>6
  <2> QED BY <1>2, <2>1, <2>2 DEF NothingOverstays
<1> QED BY <1>7, <1>8, <1>9, <1>10, <1>12, <1>13, <1>14 DEF EveryLineOnce

\* The clock waits for a call that has lasted Slow.
LEMMA TickKeepsLog ==
    ASSUME LogInv, Tick
    PROVE  LogInv'
<1> USE DEF LogInv
<1>1. /\ now' = now + 1 /\ \A t \in Threads : Active(t) => now < call[t].line.ts + Slow
      /\ UNCHANGED <<pending, recent, total, resets, call, lines, counted, drained,
                     committed, saved, noted>>
  BY DEF Tick, Active, logHistories
<1>2. now \in Nat /\ now' \in Nat /\ \A n \in Nat : n <= now => n <= now'
  BY <1>1 DEF LogTypes
<1>3. LogTypes'
  BY <1>1, <1>2 DEF LogTypes
<1>4. CallsOK'
  <2>1. ASSUME NEW t \in Threads, Active(t)
        PROVE  call[t].line.ts <= now' /\ now' <= call[t].line.ts + Slow
    <3>1. call[t].line.ts \in Nat /\ call[t].line.ts <= now
      BY <2>1, LineFacts
    <3>2. now < call[t].line.ts + Slow
      BY <1>1, <2>1
    <3> QED BY <1>1, <1>2, <3>1, <3>2, ErrorDeferralAssumption
  <2> QED BY <1>1, <2>1 DEF CallsOK, Active, At
<1>5. Numbered'
  BY <1>1 DEF Numbered, Active
<1>6. Queued'
  <2>1. ASSUME NEW q \in Seq(LogLine), NEW i \in 1..Len(q), q[i].ts <= now
        PROVE  q[i].ts <= now'
    <3>1. q[i] \in LogLine
      OBVIOUS
    <3>2. q[i].ts \in Nat
      BY <3>1 DEF LogLine
    <3> QED BY <1>2, <2>1, <3>2
  <2> QED BY <1>1, <2>1 DEF LogTypes, Queued, InOrder, NotLater
<1>7. InOnePlace' /\ AndOnce'
  BY <1>1 DEF EveryLineOnce, InOnePlace, AndOnce, Taken
<1>8. AndReported'
  <2>1. ASSUME NEW e \in LogLine, NEW w \in Nat, now' <= e.ts + w
        PROVE  now <= e.ts + w
    BY <1>1, <1>2, <2>1 DEF LogLine
  <2> QED BY <1>1, <2>1, ErrorDeferralAssumption DEF EveryLineOnce, AndReported, LogTypes
<1>9. SavedOrWaiting' /\ NothingOverstays'
  BY <1>1 DEF SavedOrWaiting, NothingOverstays, At
<1> QED BY <1>3, <1>4, <1>5, <1>6, <1>7, <1>8, <1>9 DEF EveryLineOnce

\* The queues begin empty, and no call is under way.
LEMMA LogInitInv == LogInit => LogInv
<1> SUFFICES ASSUME LogInit PROVE LogInv
  OBVIOUS
<1> USE DEF LogInit
<1>1. Idle \in [line : LogLine, left : Lefts, taken : Seq(LogLine)]
  <2>1. "plain" \in Kinds
    BY DEF Kinds, Steps, Warning
  <2> QED BY <2>1 DEF Idle, LogLine, Lefts
<1>2. /\ \A t \in Threads : call[t] = Idle /\ call[t].left = <<>> /\ call[t].taken = <<>>
      /\ call \in [Threads -> [line : LogLine, left : Lefts, taken : Seq(LogLine)]]
  BY <1>1 DEF Idle
<1>3. \A t \in Threads : ~ Active(t) /\ \A l : ~ At(t, l)
  BY <1>2 DEF Active, At
<1>4. LogTypes
  BY <1>2, FS_EmptySet DEF LogTypes
<1>5. CallsOK /\ Numbered /\ Queued /\ SavedOrWaiting /\ NothingOverstays
  BY <1>2, <1>3 DEF CallsOK, Numbered, Queued, InOrder, NotLater, SavedOrWaiting, NothingOverstays
<1>6. ToSet(<<>>) = {} /\ IsInjective(<<>>) /\ \A t \in Threads : Taken(t) = {}
  BY <1>2 DEF ToSet, IsInjective, Taken
<1>7. EveryLineOnce
  BY <1>2, <1>6, FS_EmptySet DEF EveryLineOnce, InOnePlace, AndOnce, AndReported
<1> QED BY <1>4, <1>5, <1>7 DEF LogInv

\* Every step of a call keeps the invariant.
LEMMA LogNextInv == LogInv /\ [LogNext \/ Over]_logVars => LogInv'
<1> SUFFICES ASSUME LogInv, [LogNext \/ Over]_logVars PROVE LogInv'
  OBVIOUS
<1>1. CASE Tick
  BY <1>1, TickKeepsLog
<1>2. ASSUME NEW t \in Threads,
             \/ Begin(t) \/ RecordReset(t) \/ Drain(t) \/ Take(t)
             \/ CommitBatch(t) \/ Count(t) \/ Prune(t) \/ Forget(t)
      PROVE  LogInv'
  BY <1>2, BeginKeepsLog, RecordKeepsLog, DrainKeepsLog, TakeKeepsLog, CommitKeepsLog,
     CountKeepsLog, PruneKeepsLog
<1>3. CASE UNCHANGED logVars
  <2>1. UNCHANGED <<now, pending, recent, total, resets, call, lines, counted, drained,
                    committed, saved, noted>>
    BY <1>3 DEF logVars, logHistories
  <2>2. LogTypes' /\ CallsOK' /\ Numbered' /\ Queued'
    BY <2>1 DEF LogInv, LogTypes, CallsOK, Numbered, Queued, InOrder, NotLater, Active, At
  <2>3. EveryLineOnce'
    BY <2>1 DEF LogInv, EveryLineOnce, InOnePlace, AndOnce, AndReported, Taken
  <2> QED BY <2>1, <2>2, <2>3 DEF LogInv, SavedOrWaiting, NothingOverstays, At
<1> QED BY <1>1, <1>2, <1>3 DEF LogNext, Over

\* A line that was not suppressed is in one place, is committed once, and is among those
\* that are counted while its window lasts, whatever the threads do between two locks
\* (ws_event_defer.rs:139).
THEOREM LinesAreCountedOnce == LogSpec => []EveryLineOnce
<1>1. LogInv => EveryLineOnce
  BY DEF LogInv
<1> QED BY <1>1, LogInitInv, LogNextInv, PTL DEF LogSpec

\* A transient line that a recovery finds in time is never counted as a failure, not even
\* by a call that flushes on another thread (ws_event_defer.rs:103).
THEOREM RecoveredLinesAreNotCounted == LogSpec => []RecoveredInTime
<1>1. LogInv => RecoveredInTime
  BY DEF LogInv, SavedOrWaiting, EveryLineOnce, AndOnce, RecoveredInTime
<1> QED BY <1>1, LogInitInv, LogNextInv, PTL DEF LogSpec

\* A queue that is pruned from its front keeps a line too long by no more than a call
\* lasts (ws_event_defer.rs:131).
THEOREM QueuesDoNotOverstay == LogSpec => []NothingOverstays
<1>1. LogInv => NothingOverstays
  BY DEF LogInv
<1> QED BY <1>1, LogInitInv, LogNextInv, PTL DEF LogSpec

=============================================================================

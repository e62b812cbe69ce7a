------------------------- MODULE RiskManagerProofs -------------------------
(***************************************************************************)
(* Theorems about the risk manager, for every value of its constants.       *)
(***************************************************************************)
EXTENDS RiskManager, FiniteSetTheorems, WellFoundedInduction, TLAPS

Store == [mem : RiskState, disk : RiskState, last : Nat]

\* What a call that changed `st` into `r` left in the file.
Wrote(st, r, ok) ==
    IF Due(st) THEN r.last = now /\ r.disk = IF ok THEN r.mem ELSE st.disk
               ELSE r.last = st.last /\ r.disk = st.disk

\* A call may have done nothing.
Called(st, r, ok) == r = st \/ Wrote(st, r, ok)

LEMMA OutcomesAreBoolean == Outcomes \subseteq BOOLEAN
BY DEF Outcomes

(***************************************************************************)
(* What the steps of a call do to the store.                                *)
(***************************************************************************)
\* MaybePersist writes the state if a write is due and changes nothing else.
LEMMA PersistWrites ==
    ASSUME NEW st \in Store, NEW ok \in BOOLEAN, now \in Nat \ {0}
    PROVE  LET r == MaybePersist(st, ok)
           IN  r \in Store /\ r.mem = st.mem /\ Wrote(st, r, ok)
BY DEF MaybePersist, Persist, Due, Wrote, Store

\* The day roll touches the daily sum, the stamp and the session's equity, and
\* an equity that was known stays known.
LEMMA RollFacts ==
    ASSUME NEW st \in Store, NEW ok \in BOOLEAN, now \in Nat \ {0}, lastEquity \in Nat
    PROVE  LET r == RollDaily(st, ok)
           IN  /\ r \in Store /\ Called(st, r, ok)
               /\ r.mem.losses = st.mem.losses /\ r.mem.cbUntil = st.mem.cbUntil
               /\ r.mem.samples = st.mem.samples /\ r.mem.halted = st.mem.halted
               /\ st.mem.startEquity > 0 => r.mem.startEquity > 0
               /\ r # st => r.mem.pnlToday = 0 /\ r.mem.startTs # st.mem.startTs
<1> DEFINE s == NewDay(st.mem)
           moved == [st EXCEPT !.mem = s]
<1>1. CASE st.mem.startTs # 0 /\ SessionDay(now) > SessionDay(st.mem.startTs)
  <2>1. st.mem \in RiskState
    BY DEF Store
  <2>2. s \in RiskState /\ s.pnlToday = 0 /\ s.startTs = now
        /\ s.losses = st.mem.losses /\ s.cbUntil = st.mem.cbUntil
        /\ s.samples = st.mem.samples /\ s.halted = st.mem.halted
        /\ s.startEquity = (IF lastEquity # 0 THEN lastEquity ELSE st.mem.startEquity)
    <3> DEFINE equity == IF lastEquity # 0 THEN lastEquity ELSE st.mem.startEquity
               s1 == [st.mem EXCEPT !.pnlToday = 0]
               s2 == [s1 EXCEPT !.startTs = now]
    <3>1. equity \in Nat
      BY <2>1 DEF RiskState
    <3>2. s = [s2 EXCEPT !.startEquity = equity]
      BY <2>1 DEF NewDay, RiskState
    <3>3. s1 \in RiskState /\ s1.pnlToday = 0 /\ s1.losses = st.mem.losses
          /\ s1.cbUntil = st.mem.cbUntil /\ s1.samples = st.mem.samples
          /\ s1.halted = st.mem.halted
      BY <2>1 DEF RiskState
    <3> HIDE DEF s1
    <3>4. s2 \in RiskState /\ s2.startTs = now /\ s2.pnlToday = s1.pnlToday
          /\ s2.losses = s1.losses /\ s2.cbUntil = s1.cbUntil
          /\ s2.samples = s1.samples /\ s2.halted = s1.halted
      BY <3>3 DEF RiskState
    <3> HIDE DEF s2, equity, s
    <3> QED BY <3>1, <3>2, <3>3, <3>4 DEF RiskState, equity
  <2>3. moved \in Store /\ moved.mem = s /\ moved.disk = st.disk /\ moved.last = st.last
    <3> HIDE DEF s
    <3> QED BY <2>2 DEF Store
  <2>4. RollDaily(st, ok) = MaybePersist(moved, ok)
    BY <1>1 DEF RollDaily, Store
  <2>5. Wrote(st, MaybePersist(moved, ok), ok)
    BY <2>3, PersistWrites DEF Wrote, Due
  <2>6. now # st.mem.startTs
    <3>1. SUFFICES ASSUME now = st.mem.startTs PROVE FALSE
      OBVIOUS
    <3>2. SessionDay(now) > SessionDay(now)
      BY <1>1, <3>1
    <3>3. SessionDay(now) \in Int
      BY RiskAssumption DEF SessionDay
    <3> QED BY <3>2, <3>3
  <2>7. lastEquity # 0 => lastEquity > 0
    OBVIOUS
  <2> HIDE DEF s, moved
  <2> QED
    BY <2>2, <2>3, <2>4, <2>5, <2>6, <2>7, PersistWrites DEF Called
<1>2. CASE ~(st.mem.startTs # 0 /\ SessionDay(now) > SessionDay(st.mem.startTs))
  BY <1>2 DEF RollDaily, Called
<1> QED BY <1>1, <1>2

\* The acknowledgement touches the halt and, with it, the window.
LEMMA AckFacts ==
    ASSUME NEW st \in Store, NEW ok \in BOOLEAN, now \in Nat \ {0}
    PROVE  LET r == ConsumeAck(st, ok)
           IN  /\ r \in Store /\ Called(st, r, ok)
               /\ r.mem.losses = st.mem.losses /\ r.mem.cbUntil = st.mem.cbUntil
               /\ r.mem.startEquity = st.mem.startEquity /\ r.mem.startTs = st.mem.startTs
               /\ r.mem.pnlToday = st.mem.pnlToday
               /\ r # st => st.mem.halted /\ ~r.mem.halted /\ r.mem.samples = {}
<1> DEFINE s == [st.mem EXCEPT !.halted = FALSE, !.samples = {}]
           moved == [st EXCEPT !.mem = s]
<1>1. CASE ack = "plain" /\ st.mem.halted
  <2>1. st.mem \in RiskState
    BY DEF Store
  <2>2. s \in RiskState /\ s.pnlToday = st.mem.pnlToday /\ s.startTs = st.mem.startTs
        /\ s.losses = st.mem.losses /\ s.cbUntil = st.mem.cbUntil
        /\ s.samples = {} /\ ~s.halted /\ s.startEquity = st.mem.startEquity
    BY <2>1 DEF RiskState
  <2>3. moved \in Store /\ moved.mem = s /\ moved.disk = st.disk /\ moved.last = st.last
    BY <2>2 DEF Store
  <2>4. ConsumeAck(st, ok) = MaybePersist(moved, ok)
    BY <1>1 DEF ConsumeAck, Store, RiskState
  <2>5. Wrote(st, MaybePersist(moved, ok), ok)
    BY <2>3, PersistWrites DEF Wrote, Due
  <2> HIDE DEF s, moved
  <2> QED
    BY <1>1, <2>2, <2>3, <2>4, <2>5, PersistWrites DEF Called
<1>2. CASE ~(ack = "plain" /\ st.mem.halted)
  BY <1>2 DEF ConsumeAck, Called
<1> QED BY <1>1, <1>2

\* The expiry touches the cooldown, and only one that is over.
LEMMA ClearFacts ==
    ASSUME NEW st \in Store, NEW ok \in BOOLEAN, now \in Nat \ {0}
    PROVE  LET r == ClearCooldown(st, ok)
           IN  /\ r \in Store /\ Called(st, r, ok)
               /\ r.mem.losses = st.mem.losses
               /\ r.mem.startEquity = st.mem.startEquity /\ r.mem.startTs = st.mem.startTs
               /\ r.mem.pnlToday = st.mem.pnlToday
               /\ r.mem.samples = st.mem.samples /\ r.mem.halted = st.mem.halted
               /\ r # st => st.mem.cbUntil <= now
<1> DEFINE s == [st.mem EXCEPT !.cbUntil = 0]
           moved == [st EXCEPT !.mem = s]
<1>1. CASE st.mem.cbUntil # 0 /\ ~CoolingDown(st.mem)
  <2>1. st.mem \in RiskState
    BY DEF Store
  <2>2. s \in RiskState /\ s.pnlToday = st.mem.pnlToday /\ s.startTs = st.mem.startTs
        /\ s.losses = st.mem.losses /\ s.cbUntil = 0
        /\ s.samples = st.mem.samples /\ s.halted = st.mem.halted
        /\ s.startEquity = st.mem.startEquity
    BY <2>1 DEF RiskState
  <2>3. moved \in Store /\ moved.mem = s /\ moved.disk = st.disk /\ moved.last = st.last
    BY <2>2 DEF Store
  <2>4. ClearCooldown(st, ok) = MaybePersist(moved, ok)
    BY <1>1 DEF ClearCooldown, Store, RiskState
  <2>5. Wrote(st, MaybePersist(moved, ok), ok)
    BY <2>3, PersistWrites DEF Wrote, Due
  <2>6. st.mem.cbUntil <= now
    BY <1>1, <2>1 DEF CoolingDown, RiskState
  <2> HIDE DEF s, moved
  <2> QED
    BY <2>2, <2>3, <2>4, <2>5, <2>6, PersistWrites DEF Called
<1>2. CASE ~(st.mem.cbUntil # 0 /\ ~CoolingDown(st.mem))
  BY <1>2 DEF ClearCooldown, Called
<1> QED BY <1>1, <1>2

(***************************************************************************)
(* A whole call, seen from the store it found.                              *)
(***************************************************************************)
\* What a call may do to the file: nothing, nothing because no write is due, or
\* one attempt, after which what is not on disk was changed by this very call.
OneAttempt(r, ok) ==
    \/ r = store
    \/ ~Due(store) /\ r.last = store.last /\ r.disk = store.disk
    \/ Due(store) /\ r.last = now /\ (ok => r.mem = r.disk \/ r.mem # store.mem)

LEMMA TickFacts ==
    ASSUME store \in Store, NEW ok \in BOOLEAN, now \in Nat \ {0}, lastEquity \in Nat
    PROVE  LET r == ClearCooldown(ConsumeAck(RollDaily(store, ok), ok), ok)
           IN  /\ r \in Store /\ OneAttempt(r, ok)
               /\ r.mem.losses = state.losses
               /\ r.mem.cbUntil = state.cbUntil \/ state.cbUntil <= now
               /\ state.startEquity > 0 => r.mem.startEquity > 0
               /\ \/ r.mem.pnlToday = 0
                  \/ /\ r.mem.pnlToday = state.pnlToday
                     /\ r.mem.startEquity = state.startEquity
               /\ \/ r.mem.samples = {}
                  \/ r.mem.samples = state.samples /\ r.mem.halted = state.halted
<1> DEFINE a == RollDaily(store, ok)
           b == ConsumeAck(a, ok)
           c == ClearCooldown(b, ok)
<1>1. /\ a \in Store /\ Called(store, a, ok)
      /\ a.mem.losses = state.losses /\ a.mem.cbUntil = state.cbUntil
      /\ a.mem.samples = state.samples /\ a.mem.halted = state.halted
      /\ state.startEquity > 0 => a.mem.startEquity > 0
      /\ a # store => a.mem.pnlToday = 0 /\ a.mem.startTs # state.startTs
  BY RollFacts DEF state
<1> HIDE DEF a
<1>2. /\ b \in Store /\ Called(a, b, ok)
      /\ b.mem.losses = a.mem.losses /\ b.mem.cbUntil = a.mem.cbUntil
      /\ b.mem.startEquity = a.mem.startEquity /\ b.mem.startTs = a.mem.startTs
      /\ b.mem.pnlToday = a.mem.pnlToday
      /\ b # a => a.mem.halted /\ ~b.mem.halted /\ b.mem.samples = {}
  BY <1>1, AckFacts
<1> HIDE DEF b
<1>3. /\ c \in Store /\ Called(b, c, ok)
      /\ c.mem.losses = b.mem.losses
      /\ c.mem.startEquity = b.mem.startEquity /\ c.mem.startTs = b.mem.startTs
      /\ c.mem.pnlToday = b.mem.pnlToday
      /\ c.mem.samples = b.mem.samples /\ c.mem.halted = b.mem.halted
      /\ c # b => b.mem.cbUntil <= now
  BY <1>2, ClearFacts
<1> HIDE DEF c
<1>4. OneAttempt(c, ok)
  <2>1. Due(store) => \A x \in Store : x.last = now => ~Due(x)
    BY RiskAssumption DEF Due, Store
  <2>2. ~Due(store) => \A x \in Store : x.last = store.last => ~Due(x)
    BY DEF Due
  <2>3. CASE a # store
    <3>1. c.mem # store.mem
      BY <1>1, <1>2, <1>3, <2>3 DEF state
    <3>2. Wrote(store, a, ok)
      BY <1>1, <2>3 DEF Called
    <3>3. CASE Due(store)
      <4>1. a.last = now /\ ~Due(a)
        BY <1>1, <2>1, <3>2, <3>3 DEF Wrote
      <4>2. b.last = now /\ ~Due(b)
        BY <1>2, <2>1, <3>3, <4>1 DEF Called, Wrote
      <4>3. c.last = now
        BY <1>3, <4>2 DEF Called, Wrote
      <4> QED BY <3>1, <3>3, <4>3 DEF OneAttempt
    <3>4. CASE ~Due(store)
      <4>1. a.last = store.last /\ a.disk = store.disk /\ ~Due(a)
        BY <1>1, <2>2, <3>2, <3>4 DEF Wrote
      <4>2. b.last = store.last /\ b.disk = store.disk /\ ~Due(b)
        BY <1>2, <2>2, <3>4, <4>1 DEF Called, Wrote
      <4>3. c.last = store.last /\ c.disk = store.disk
        BY <1>3, <4>2 DEF Called, Wrote
      <4> QED BY <3>4, <4>3 DEF OneAttempt
    <3> QED BY <3>3, <3>4
  <2>4. CASE a = store /\ b # a
    <3>1. c.mem # store.mem
      BY <1>2, <1>3, <2>4
    <3>2. Wrote(store, b, ok)
      BY <1>2, <2>4 DEF Called
    <3>3. CASE Due(store)
      <4>1. b.last = now /\ ~Due(b)
        BY <1>2, <2>1, <3>2, <3>3 DEF Wrote
      <4>2. c.last = now
        BY <1>3, <4>1 DEF Called, Wrote
      <4> QED BY <3>1, <3>3, <4>2 DEF OneAttempt
    <3>4. CASE ~Due(store)
      <4>1. b.last = store.last /\ b.disk = store.disk /\ ~Due(b)
        BY <1>2, <2>2, <3>2, <3>4 DEF Wrote
      <4>2. c.last = store.last /\ c.disk = store.disk
        BY <1>3, <4>1 DEF Called, Wrote
      <4> QED BY <3>4, <4>2 DEF OneAttempt
    <3> QED BY <3>3, <3>4
  <2>5. CASE a = store /\ b = a
    BY <1>3, <2>5 DEF Called, Wrote, OneAttempt
  <2> QED BY <2>3, <2>4, <2>5
<1>5. /\ c.mem.losses = state.losses
      /\ state.startEquity > 0 => c.mem.startEquity > 0
  BY <1>1, <1>2, <1>3
<1>6. c.mem.cbUntil = state.cbUntil \/ state.cbUntil <= now
  BY <1>1, <1>2, <1>3
<1>7. c.mem.pnlToday = 0 \/ (c.mem.pnlToday = state.pnlToday
                             /\ c.mem.startEquity = state.startEquity)
  BY <1>1, <1>2, <1>3 DEF state
<1>8. c.mem.samples = {} \/ (c.mem.samples = state.samples /\ c.mem.halted = state.halted)
  BY <1>1, <1>2, <1>3
<1> QED BY <1>3, <1>4, <1>5, <1>6, <1>7, <1>8 DEF a, b, c

\* A reading leaves the streak, the sum and the cooldown alone; if it leaves the
\* bot running, no peak of the new window is drawn down to it.
LEMMA SampledFacts ==
    ASSUME NEW s \in RiskState, NEW e \in Nat \ {0}, now \in Nat \ {0}
    PROVE  LET r == Sampled(s, e)
           IN  /\ r \in RiskState
               /\ r.losses = s.losses /\ r.cbUntil = s.cbUntil /\ r.pnlToday = s.pnlToday
               /\ s.startEquity > 0 => r.startEquity = s.startEquity
               /\ ~r.halted /\ MaxSessionLossBps > 0 =>
                    \A p \in r.samples : ~DrawnDown(p.equity, e)
<1> DEFINE w == Window(s.samples, e)
           equity == IF s.startEquity = 0 THEN e ELSE s.startEquity
           ts == IF s.startEquity = 0 THEN now ELSE s.startTs
           halted == s.halted \/ (MaxSessionLossBps > 0 /\ \E p \in w : DrawnDown(p.equity, e))
           r == Sampled(s, e)
<1>1. w \in SUBSET Sample
  BY DEF Window, RiskState, Sample
<1>2. equity \in Nat /\ ts \in Nat /\ halted \in BOOLEAN
  BY DEF RiskState
<1>3. r = [[[[s EXCEPT !.startEquity = equity] EXCEPT !.startTs = ts]
                EXCEPT !.samples = w] EXCEPT !.halted = halted]
  <2>1. s.halted \in BOOLEAN /\ DOMAIN s =
          {"losses", "cbUntil", "startEquity", "startTs", "pnlToday", "samples", "halted"}
    BY DEF RiskState
  <2> QED BY <2>1 DEF Sampled
<1> HIDE DEF w, equity, ts, halted, r
<1> DEFINE s1 == [s EXCEPT !.startEquity = equity]
           s2 == [s1 EXCEPT !.startTs = ts]
           s3 == [s2 EXCEPT !.samples = w]
<1>4. s1 \in RiskState /\ s1.startEquity = equity /\ s1.losses = s.losses
      /\ s1.cbUntil = s.cbUntil /\ s1.pnlToday = s.pnlToday
  BY <1>2 DEF RiskState
<1> HIDE DEF s1
<1>5. s2 \in RiskState /\ s2.startEquity = s1.startEquity /\ s2.losses = s1.losses
      /\ s2.cbUntil = s1.cbUntil /\ s2.pnlToday = s1.pnlToday
  BY <1>2, <1>4 DEF RiskState
<1> HIDE DEF s2
<1>6. s3 \in RiskState /\ s3.startEquity = s2.startEquity /\ s3.losses = s2.losses
      /\ s3.cbUntil = s2.cbUntil /\ s3.pnlToday = s2.pnlToday /\ s3.samples = w
  BY <1>1, <1>5 DEF RiskState
<1>7. r = [s3 EXCEPT !.halted = halted]
  BY <1>3 DEF s1, s2
<1> HIDE DEF s3
<1>8. r \in RiskState /\ r.startEquity = s3.startEquity /\ r.losses = s3.losses
      /\ r.cbUntil = s3.cbUntil /\ r.pnlToday = s3.pnlToday /\ r.samples = s3.samples
      /\ r.halted = halted
  BY <1>2, <1>6, <1>7 DEF RiskState
<1>9. r.startEquity = equity /\ r.losses = s.losses /\ r.cbUntil = s.cbUntil
      /\ r.pnlToday = s.pnlToday /\ r.samples = w
  BY <1>4, <1>5, <1>6, <1>8
<1>10. s.startEquity > 0 => equity = s.startEquity
  BY DEF equity, RiskState
<1>11. ~halted /\ MaxSessionLossBps > 0 => \A p \in w : ~DrawnDown(p.equity, e)
  BY DEF halted
<1> QED BY <1>8, <1>9, <1>10, <1>11 DEF r

\* A close leaves the halt, the window and the session's equity alone, never
\* shortens the cooldown, and pauses long enough after a loss.
LEMMA ClosedFacts ==
    ASSUME NEW s \in RiskState, NEW pnl \in Int, now \in Nat \ {0}
    PROVE  LET r == Closed(s, pnl)
           IN  /\ r \in RiskState
               /\ r.samples = s.samples /\ r.halted = s.halted
               /\ r.startEquity = s.startEquity
               /\ pnl < 0 /\ CooldownSecs(r.losses) >= 0 =>
                    r.cbUntil >= now + CooldownSecs(r.losses)
               /\ pnl > 0 => r.losses = 0
               /\ pnl = 0 => r.losses = s.losses /\ r.cbUntil = s.cbUntil
<1> DEFINE losses == CASE pnl < 0 -> s.losses + 1 [] pnl > 0 -> 0 [] pnl = 0 -> s.losses
           secs == IF pnl < 0 THEN CooldownSecs(losses) ELSE -1
           until == IF secs < 0 THEN s.cbUntil ELSE Later(s.cbUntil, now + secs)
           s1 == [s EXCEPT !.pnlToday = @ + pnl]
           s2 == [s1 EXCEPT !.losses = losses]
           r == Closed(s, pnl)
<1>1. /\ losses \in Nat
      /\ pnl > 0 => losses = 0
      /\ pnl = 0 => losses = s.losses
  BY DEF RiskState
<1>2. secs \in Int
  BY RiskAssumption DEF CooldownSecs
<1>3. until \in Nat
  BY <1>2 DEF Later, RiskState
<1>4. pnl < 0 /\ CooldownSecs(losses) >= 0 => until >= now + CooldownSecs(losses)
  BY <1>2 DEF Later, RiskState
<1>5. pnl = 0 => until = s.cbUntil
  OBVIOUS
<1>6. r = [s2 EXCEPT !.cbUntil = until]
  BY DEF Closed, RiskState
<1> HIDE DEF losses, secs, until, r
<1>7. s1 \in RiskState /\ s1.samples = s.samples /\ s1.halted = s.halted
      /\ s1.startEquity = s.startEquity /\ s1.cbUntil = s.cbUntil
  BY DEF RiskState
<1> HIDE DEF s1
<1>8. s2 \in RiskState /\ s2.samples = s1.samples /\ s2.halted = s1.halted
      /\ s2.startEquity = s1.startEquity /\ s2.losses = losses
  BY <1>1, <1>7 DEF RiskState
<1> HIDE DEF s2
<1>9. r \in RiskState /\ r.samples = s2.samples /\ r.halted = s2.halted
      /\ r.startEquity = s2.startEquity /\ r.losses = s2.losses /\ r.cbUntil = until
  BY <1>3, <1>6, <1>8 DEF RiskState
<1> QED BY <1>1, <1>4, <1>5, <1>7, <1>8, <1>9 DEF r

(***************************************************************************)
(* The inductive invariant.                                                 *)
(***************************************************************************)
\* The cooldown of the present streak has run from the last loss or is armed.
StreakPauses ==
    lossAt # 0 /\ CooldownSecs(state.losses) >= 0 =>
        \/ now >= lossAt + CooldownSecs(state.losses)
        \/ state.cbUntil >= lossAt + CooldownSecs(state.losses)

RiskInv ==
    /\ RiskTypeOK
    /\ store.last <= now
    /\ DrawdownHalts
    /\ OneTripPastTheLimit
    /\ UnsavedIsRecent
    /\ StreakPauses

\* The parts of the invariant a call leaves to what it stored.
LEMMA StoredFacts ==
    ASSUME RiskInv, NEW r \in Store, NEW ok \in BOOLEAN, OneAttempt(r, ok),
           Stored(r, ok), now' = now
    PROVE  /\ store' = r /\ store' \in Store /\ changedAt' \in Nat /\ unwritten' \in BOOLEAN
           /\ store'.last <= now'
           /\ UnsavedIsRecent'
<1> USE DEF RiskInv, RiskTypeOK
<1>1. store' = r /\ store' \in Store
  BY DEF Stored
<1>2. changedAt' \in Nat /\ unwritten' \in BOOLEAN
  <2>1. changedAt' \in {0, now, changedAt}
    BY DEF Stored, state
  <2> QED BY <2>1 DEF Stored
<1>3. r.last <= now
  BY DEF OneAttempt, Store
<1>4. UnsavedIsRecent'
  <2> SUFFICES ASSUME r.mem # r.disk, ~unwritten'
               PROVE  /\ r.last # 0
                      /\ changedAt' >= r.last /\ changedAt' < r.last + PersistSecs
    BY <1>1 DEF UnsavedIsRecent, state
  <2>1. changedAt' = IF r.mem # store.mem THEN now ELSE changedAt
    BY DEF Stored, state
  <2>2. Due(store) => store.last # now
    BY RiskAssumption DEF Due, Store
  <2>3. CASE r = store
    <3>1. ~unwritten
      BY <2>2, <2>3 DEF Stored
    <3> QED BY <2>1, <2>3, <3>1 DEF UnsavedIsRecent, state
  <2>4. CASE ~Due(store) /\ r.last = store.last /\ r.disk = store.disk
    <3>1. ~unwritten
      BY <2>4 DEF Stored
    <3>2. store.last # 0 /\ now - store.last < PersistSecs
      BY <2>4, RiskAssumption DEF Due, Store
    <3>3. CASE r.mem # store.mem
      BY <2>1, <2>4, <3>2, <3>3, RiskAssumption DEF Store
    <3>4. CASE r.mem = store.mem
      BY <2>1, <2>4, <3>1, <3>4 DEF UnsavedIsRecent, state
    <3> QED BY <3>3, <3>4
  <2>5. CASE Due(store) /\ r.last = now /\ (ok => r.mem = r.disk \/ r.mem # store.mem)
    <3>1. ok
      BY <2>5 DEF Stored
    <3>2. changedAt' = now
      BY <2>1, <2>5, <3>1
    <3> QED BY <2>5, <3>2, RiskAssumption
  <2> QED BY <2>3, <2>4, <2>5 DEF OneAttempt
<1> QED BY <1>1, <1>2, <1>3, <1>4

\* A call that changes the state and then calls maybe_persist makes one attempt.
LEMMA OneCall ==
    ASSUME store \in Store, NEW s \in RiskState, NEW ok \in BOOLEAN, now \in Nat \ {0}
    PROVE  LET r == MaybePersist([store EXCEPT !.mem = s], ok)
           IN  r \in Store /\ r.mem = s /\ OneAttempt(r, ok)
<1> DEFINE moved == [store EXCEPT !.mem = s]
<1>1. moved \in Store /\ moved.mem = s /\ moved.disk = store.disk /\ moved.last = store.last
  BY DEF Store
<1>2. Due(moved) <=> Due(store)
  BY <1>1 DEF Due
<1> HIDE DEF moved
<1>3. MaybePersist(moved, ok) \in Store /\ MaybePersist(moved, ok).mem = s
      /\ Wrote(moved, MaybePersist(moved, ok), ok)
  BY <1>1, PersistWrites
<1>4. OneAttempt(MaybePersist(moved, ok), ok)
  BY <1>1, <1>2, <1>3 DEF Wrote, OneAttempt
<1> QED BY <1>3, <1>4 DEF moved

LEMMA InvInit == RiskInit => RiskInv
<1> SUFFICES ASSUME RiskInit PROVE RiskInv
  OBVIOUS
<1>1. FreshState \in RiskState
  BY DEF FreshState, RiskState
<1>2. RiskTypeOK /\ store.last <= now
  <2> DEFINE f == FreshState
  <2>1. /\ store = [mem |-> f, disk |-> f, last |-> 0]
        /\ now = 1 /\ lastEquity = 0 /\ ack = "absent" /\ position = "none"
        /\ lossAt = 0 /\ changedAt = 0 /\ unwritten = FALSE
    BY DEF RiskInit
  <2>2. f \in RiskState
    BY <1>1
  <2> HIDE DEF f
  <2>3. store \in [mem : RiskState, disk : RiskState, last : Nat] /\ store.last = 0
    BY <2>1, <2>2
  <2>4. now \in Nat \ {0} /\ lastEquity \in Nat /\ lossAt \in Nat /\ changedAt \in Nat
    BY <2>1
  <2>5. unwritten \in BOOLEAN
    BY <2>1
  <2>6. store.last <= now
    BY <2>1, <2>3
  <2> QED BY <2>1, <2>3, <2>4, <2>5, <2>6 DEF RiskTypeOK
<1>3. DrawdownHalts /\ OneTripPastTheLimit /\ UnsavedIsRecent /\ StreakPauses
  BY DEF RiskInit, DrawdownHalts, OneTripPastTheLimit, UnsavedIsRecent, StreakPauses, state
<1> QED BY <1>2, <1>3 DEF RiskInv

\* The daily gate is open on a fresh day.
LEMMA FreshDayRuns ==
    ASSUME NEW s \in RiskState, s.pnlToday = 0 PROVE ~DailyHalted(s)
<1> SUFFICES ASSUME DailyHalted(s) PROVE FALSE
  OBVIOUS
<1> DEFINE m == MaxDailyLossBps
           q == s.startEquity
<1>1. m \in Nat /\ m > 0 /\ q \in Nat /\ q > 0
  BY RiskAssumption DEF DailyHalted, RiskState
<1>2. Bps * s.pnlToday <= -(m * q)
  BY DEF DailyHalted
<1>3. Bps * s.pnlToday = 0
  BY DEF Bps
<1> HIDE DEF m, q
<1>4. m * q \in Int /\ m * q > 0
  BY <1>1
<1> QED BY <1>2, <1>3, <1>4

\* One step per action.
LEMMA InvNext == RiskInv /\ [RiskNext]_riskVars => RiskInv'
<1> SUFFICES ASSUME RiskInv, [RiskNext]_riskVars PROVE RiskInv'
  OBVIOUS
<1> USE DEF RiskInv
<1>1. /\ store \in Store /\ state \in RiskState /\ now \in Nat \ {0} /\ lastEquity \in Nat
      /\ ack \in {"absent", "plain", "malformed"} /\ lossAt \in Nat
      /\ position \in {"none", "gated", "ungated"}
  BY DEF RiskTypeOK, Store, state
<1>2. CASE Tick
  <2>1. PICK ok \in Outcomes :
          /\ Stored(ClearCooldown(ConsumeAck(RollDaily(store, ok), ok), ok), ok)
          /\ ack' \in {ack, "absent"}
    BY <1>2 DEF Tick
  <2> DEFINE r == ClearCooldown(ConsumeAck(RollDaily(store, ok), ok), ok)
  <2>2. ok \in BOOLEAN
    BY OutcomesAreBoolean
  <2>3. /\ r \in Store /\ OneAttempt(r, ok)
        /\ r.mem.losses = state.losses
        /\ r.mem.cbUntil = state.cbUntil \/ state.cbUntil <= now
        /\ state.startEquity > 0 => r.mem.startEquity > 0
        /\ \/ r.mem.pnlToday = 0
           \/ r.mem.pnlToday = state.pnlToday /\ r.mem.startEquity = state.startEquity
        /\ \/ r.mem.samples = {}
           \/ r.mem.samples = state.samples /\ r.mem.halted = state.halted
    BY <1>1, <2>2, TickFacts
  <2>4. UNCHANGED <<now, lastEquity, position, lossAt>>
    BY <1>2 DEF Tick
  <2> HIDE DEF r
  <2>5. Stored(r, ok)
    BY <2>1 DEF r
  <2>6. /\ store' = r /\ store' \in Store /\ changedAt' \in Nat /\ unwritten' \in BOOLEAN
        /\ store'.last <= now' /\ UnsavedIsRecent'
    BY <2>2, <2>3, <2>4, <2>5, StoredFacts
  <2>7. state' = r.mem /\ r.mem \in RiskState
    BY <2>3, <2>6 DEF state, Store
  <2>8. RiskTypeOK'
    BY <1>1, <2>1, <2>4, <2>6 DEF RiskTypeOK, Store
  <2>9. DrawdownHalts'
    BY <2>3, <2>4, <2>7 DEF DrawdownHalts
  <2>10. OneTripPastTheLimit'
    <3>1. CASE r.mem.pnlToday = 0
      BY <2>3, <2>4, <2>7, <3>1, FreshDayRuns DEF OneTripPastTheLimit
    <3>2. CASE r.mem.pnlToday = state.pnlToday /\ r.mem.startEquity = state.startEquity
      BY <2>4, <2>7, <3>2 DEF OneTripPastTheLimit, DailyHalted
    <3> QED BY <2>3, <3>1, <3>2
  <2>11. StreakPauses'
    <3>1. CooldownSecs(state.losses) \in Int
      BY RiskAssumption DEF CooldownSecs
    <3>2. state.cbUntil \in Nat
      BY <1>1 DEF RiskState
    <3>3. CooldownSecs(state'.losses) = CooldownSecs(state.losses)
      BY <2>3, <2>7
    <3> QED BY <1>1, <2>3, <2>4, <2>7, <3>1, <3>2, <3>3 DEF StreakPauses
  <2> QED BY <2>6, <2>8, <2>9, <2>10, <2>11
<1>3. ASSUME NEW e \in Equities, EquitySample(e) PROVE RiskInv'
  <2>1. e \in Nat \ {0} /\ lastEquity' = e /\ UNCHANGED <<now, ack, position, lossAt>>
    BY <1>3, RiskAssumption DEF EquitySample
  <2>2. PICK ok \in Outcomes :
          Stored(MaybePersist([store EXCEPT !.mem = Sampled(state, e)], ok), ok)
    BY <1>3 DEF EquitySample
  <2> DEFINE s == Sampled(state, e)
             r == MaybePersist([store EXCEPT !.mem = s], ok)
  <2>3. /\ s \in RiskState
        /\ s.losses = state.losses /\ s.cbUntil = state.cbUntil
        /\ s.pnlToday = state.pnlToday
        /\ state.startEquity > 0 => s.startEquity = state.startEquity
        /\ ~s.halted /\ MaxSessionLossBps > 0 =>
             \A p \in s.samples : ~DrawnDown(p.equity, e)
    BY <1>1, <2>1, SampledFacts
  <2> HIDE DEF s
  <2>4. ok \in BOOLEAN
    BY OutcomesAreBoolean
  <2>5. r \in Store /\ r.mem = s /\ OneAttempt(r, ok)
    BY <1>1, <2>3, <2>4, OneCall
  <2>6. Stored(r, ok)
    BY <2>2 DEF s
  <2> HIDE DEF r
  <2>7. /\ store' = r /\ store' \in Store /\ changedAt' \in Nat /\ unwritten' \in BOOLEAN
        /\ store'.last <= now' /\ UnsavedIsRecent'
    BY <2>1, <2>4, <2>5, <2>6, StoredFacts
  <2>8. state' = s
    BY <2>5, <2>7 DEF state
  <2>9. RiskTypeOK'
    BY <1>1, <2>1, <2>7 DEF RiskTypeOK, Store
  <2>10. DrawdownHalts'
    BY <2>1, <2>3, <2>8 DEF DrawdownHalts
  <2>11. OneTripPastTheLimit'
    BY <2>1, <2>3, <2>8 DEF OneTripPastTheLimit, DailyHalted
  <2>12. StreakPauses'
    BY <2>1, <2>3, <2>8 DEF StreakPauses, CooldownSecs
  <2> QED BY <2>7, <2>9, <2>10, <2>11, <2>12
<1>4. CASE Enter
  <2>1. /\ UNCHANGED <<now, store, lastEquity, ack, lossAt, changedAt, unwritten>>
        /\ position' \in {"gated", "ungated"}
        /\ position' = "gated" => state.startEquity > 0
        /\ ~DailyHalted(state)
    BY <1>4 DEF Enter, Blocked, history
  <2>2. state' = state
    BY <2>1 DEF state
  <2>3. RiskTypeOK'
    BY <2>1 DEF RiskTypeOK
  <2>4. OneTripPastTheLimit'
    BY <2>1, <2>2 DEF OneTripPastTheLimit, DailyHalted
  <2> QED BY <2>1, <2>2, <2>3, <2>4
        DEF DrawdownHalts, UnsavedIsRecent, StreakPauses
<1>5. ASSUME NEW pnl \in Pnls, Close(pnl) PROVE RiskInv'
  <2>1. /\ pnl \in Int /\ UNCHANGED <<now, lastEquity, ack>> /\ position' = "none"
        /\ lossAt' = IF pnl < 0 THEN now ELSE lossAt
    BY <1>5, RiskAssumption DEF Close
  <2>2. PICK ok \in Outcomes :
          Stored(MaybePersist([store EXCEPT !.mem = Closed(state, pnl)], ok), ok)
    BY <1>5 DEF Close
  <2> DEFINE s == Closed(state, pnl)
             r == MaybePersist([store EXCEPT !.mem = s], ok)
  <2>3. /\ s \in RiskState
        /\ s.samples = state.samples /\ s.halted = state.halted
        /\ pnl < 0 /\ CooldownSecs(s.losses) >= 0 =>
             s.cbUntil >= now + CooldownSecs(s.losses)
        /\ pnl > 0 => s.losses = 0
        /\ pnl = 0 => s.losses = state.losses /\ s.cbUntil = state.cbUntil
    BY <1>1, <2>1, ClosedFacts
  <2> HIDE DEF s
  <2>4. ok \in BOOLEAN
    BY OutcomesAreBoolean
  <2>5. r \in Store /\ r.mem = s /\ OneAttempt(r, ok)
    BY <1>1, <2>3, <2>4, OneCall
  <2>6. Stored(r, ok)
    BY <2>2 DEF s
  <2> HIDE DEF r
  <2>7. /\ store' = r /\ store' \in Store /\ changedAt' \in Nat /\ unwritten' \in BOOLEAN
        /\ store'.last <= now' /\ UnsavedIsRecent'
    BY <2>1, <2>4, <2>5, <2>6, StoredFacts
  <2>8. state' = s
    BY <2>5, <2>7 DEF state
  <2>9. RiskTypeOK'
    BY <1>1, <2>1, <2>7 DEF RiskTypeOK, Store
  <2>10. DrawdownHalts'
    BY <2>1, <2>3, <2>8 DEF DrawdownHalts
  <2>11. OneTripPastTheLimit'
    BY <2>1 DEF OneTripPastTheLimit
  <2>12. StreakPauses'
    <3>1. CASE pnl < 0
      BY <2>1, <2>3, <2>8, <3>1 DEF StreakPauses
    <3>2. CASE pnl > 0
      <4>1. ~(CooldownSecs(0) >= 0)
        BY RiskAssumption DEF CooldownSecs
      <4> QED BY <2>3, <2>8, <3>2, <4>1 DEF StreakPauses
    <3>3. CASE pnl = 0
      BY <2>1, <2>3, <2>8, <3>3 DEF StreakPauses
    <3> QED BY <2>1, <3>1, <3>2, <3>3
  <2> QED BY <2>7, <2>9, <2>10, <2>11, <2>12
<1>6. ASSUME NEW st \in Store, Booted(st) PROVE RiskInv'
  <2>1. /\ store' = [st EXCEPT !.mem = st.disk, !.last = 0]
        /\ lastEquity' = 0 /\ position' = "none"
        /\ lossAt' = 0 /\ changedAt' = 0 /\ unwritten' = FALSE
        /\ UNCHANGED <<now, ack>>
    BY <1>6 DEF Booted
  <2>2. store' \in Store /\ store'.mem = store'.disk /\ store'.last = 0
    BY <2>1 DEF Store
  <2>3. RiskTypeOK'
    BY <1>1, <2>1, <2>2 DEF RiskTypeOK, Store
  <2> QED BY <1>1, <2>1, <2>2, <2>3
        DEF DrawdownHalts, OneTripPastTheLimit, UnsavedIsRecent, StreakPauses, state
<1>7. CASE Shutdown
  <2>1. PICK ok \in Outcomes : Booted(Persist(store, ok))
    BY <1>7 DEF Shutdown
  <2>2. Persist(store, ok) \in Store
    BY <1>1, OutcomesAreBoolean DEF Persist, Store
  <2> QED BY <1>6, <2>1, <2>2
<1>8. CASE Crash
  BY <1>1, <1>6, <1>8 DEF Crash
<1>9. CASE OperatorAcks
  <2>1. ack' \in {"plain", "malformed"}
        /\ UNCHANGED <<now, store, lastEquity, position, lossAt, changedAt, unwritten>>
    BY <1>9 DEF OperatorAcks, history
  <2> QED BY <2>1 DEF RiskTypeOK, DrawdownHalts, OneTripPastTheLimit, UnsavedIsRecent,
                      StreakPauses, DailyHalted, state
<1>10. CASE Elapse
  <2>1. now' = now + 1
        /\ UNCHANGED <<store, lastEquity, ack, position, lossAt, changedAt, unwritten>>
    BY <1>10 DEF Elapse, history
  <2>2. state' = state
    BY <2>1 DEF state
  <2>3. RiskTypeOK' /\ store'.last <= now'
    BY <1>1, <2>1 DEF RiskTypeOK, Store
  <2>4. DrawdownHalts' /\ OneTripPastTheLimit' /\ UnsavedIsRecent'
    BY <2>1, <2>2 DEF DrawdownHalts, OneTripPastTheLimit, UnsavedIsRecent, DailyHalted
  <2>5. StreakPauses'
    <3>1. CooldownSecs(state.losses) \in Int
      BY RiskAssumption DEF CooldownSecs
    <3> QED BY <1>1, <2>1, <2>2, <3>1 DEF StreakPauses
  <2> QED BY <2>3, <2>4, <2>5
<1>11. CASE UNCHANGED riskVars
  <2>1. UNCHANGED <<now, store, lastEquity, ack, position, lossAt, changedAt, unwritten>>
    BY <1>11 DEF riskVars, history
  <2> QED BY <2>1 DEF RiskTypeOK, DrawdownHalts, OneTripPastTheLimit, UnsavedIsRecent,
                      StreakPauses, DailyHalted, state
<1> QED
  BY <1>2, <1>3, <1>4, <1>5, <1>7, <1>8, <1>9, <1>10, <1>11 DEF RiskNext

(***************************************************************************)
(* The window of samples.                                                   *)
(***************************************************************************)
\* Samples of the past, none closer to another than SampleSecs and none further
\* than Lookback.
Sparse(S) ==
    \A p, q \in S : /\ p.ts <= now /\ p.ts <= q.ts + Lookback
                    /\ p = q \/ p.ts + SampleSecs <= q.ts \/ q.ts + SampleSecs <= p.ts

\* The file holds a window too, which a restart brings back.
SparseStore(st) == Sparse(st.mem.samples) /\ Sparse(st.disk.samples)

\* Division by c keeps numbers apart that differ by c, and keeps an order.
LEMMA QuotientsDiffer ==
    ASSUME NEW c \in Nat \ {0}, NEW a \in Nat, NEW b \in Nat
    PROVE  /\ a \div c \in Nat
           /\ a <= b => a \div c <= b \div c
           /\ a + c <= b => a \div c # b \div c
<1>1. a \div c \in Int /\ b \div c \in Int /\ a % c \in 0..c - 1 /\ b % c \in 0..c - 1
  BY SMT
<1>2. a = c * (a \div c) + (a % c) /\ b = c * (b \div c) + (b % c)
  BY SMT
<1>3. ASSUME NEW q \in Int, NEW r \in Int, q < r PROVE c * q + c <= c * r
  <2>1. q + 1 <= r /\ r - (q + 1) \in Nat
    BY <1>3
  <2>2. ASSUME NEW k \in Nat PROVE c * k >= 0
    BY SMT
  <2>3. c * (r - (q + 1)) >= 0
    BY <2>1, <2>2
  <2>4. c * (r - (q + 1)) = c * r - (c * q + c)
    BY SMT
  <2>5. c * r \in Int /\ c * q \in Int
    BY SMT
  <2> QED BY <2>3, <2>4, <2>5
<1> DEFINE q == a \div c
           r == b \div c
           m == c * q
           n == c * r
<1>4. /\ q \in Int /\ r \in Int /\ m \in Int /\ n \in Int
      /\ a = m + (a % c) /\ b = n + (b % c)
      /\ q < r => m + c <= n
      /\ r < q => n + c <= m
      /\ q = r => m = n
  BY <1>1, <1>2, <1>3
<1>5. q >= 0
  <2>1. q < 0 => m + c <= c * 0
    BY <1>1, <1>3
  <2>2. c * 0 = 0
    BY SMT
  <2> HIDE DEF q, m
  <2> QED BY <1>1, <1>4, <2>1, <2>2
<1> HIDE DEF q, r, m, n
<1>6. q \in Nat /\ (a <= b => q <= r) /\ (a + c <= b => q # r)
  BY <1>1, <1>4, <1>5
<1> QED BY <1>6 DEF q, r

\* Every set of naturals but the empty one has a least element.
LEMMA LeastStamp ==
    ASSUME NEW T \in SUBSET Nat, T # {}
    PROVE  \E x \in T : \A y \in T : x <= y
<1> DEFINE R == OpToRel(<, Nat)
<1>1. IsWellFoundedOn(R, Nat)
  BY NatLessThanWellFounded
<1>2. \E x \in T : \A y \in T : ~ (<<y, x>> \in R)
  <2> HIDE DEF R
  <2> QED BY <1>1, WFMin
<1>3. \A x, y \in Nat : y < x => <<y, x>> \in R
  BY DEF OpToRel
<1>4. PICK x \in T : \A y \in T : ~ (<<y, x>> \in R)
  BY <1>2
<1> HIDE DEF R
<1>5. \A y \in T : ~ (y < x)
  BY <1>3, <1>4
<1> QED BY <1>5

\* A window of Lookback seconds has room for that many samples: the samples
\* fall into different slots of SampleSecs, counted from the oldest.
LEMMA SparseIsSmall ==
    ASSUME NEW S \in SUBSET Sample, Sparse(S)
    PROVE  Cardinality(S) <= Lookback \div SampleSecs + 1
<1> DEFINE top == Lookback \div SampleSecs
<1>1. Lookback \in Nat /\ SampleSecs \in Nat \ {0}
  BY RiskAssumption
<1>2. top \in Nat
  BY <1>1, QuotientsDiffer
<1>3. IsFiniteSet(0..top) /\ Cardinality(0..top) = top + 1
  BY <1>2, FS_Interval
<1>4. CASE S = {}
  BY <1>2, <1>4, FS_EmptySet
<1>5. CASE S # {}
  <2> DEFINE T == {p.ts : p \in S}
  <2>1. T \in SUBSET Nat /\ T # {}
    BY <1>5 DEF Sample
  <2>2. PICK old \in T : \A y \in T : old <= y
    BY <2>1, LeastStamp
  <2>3. ASSUME NEW p \in S
        PROVE  p.ts \in Nat /\ p.ts - old \in Nat /\ p.ts - old <= Lookback
    <3>1. PICK q \in S : old = q.ts
      BY <2>2
    <3>2. p.ts \in Nat /\ q.ts \in Nat /\ p.ts \in T
      BY DEF Sample
    <3>3. q.ts <= p.ts
      BY <2>2, <3>1, <3>2
    <3>4. p.ts <= q.ts + Lookback
      BY DEF Sparse
    <3> HIDE DEF T
    <3> QED BY <1>1, <3>1, <3>2, <3>3, <3>4
  <2> DEFINE slot == [p \in S |-> (p.ts - old) \div SampleSecs]
  <2>4. ASSUME NEW p \in S PROVE slot[p] \in 0..top
    BY <1>1, <1>2, <2>3, QuotientsDiffer
  <2>5. ASSUME NEW p \in S, NEW q \in S, p # q PROVE slot[p] # slot[q]
    <3>1. old \in Nat
      BY <2>1, <2>2
    <3>2. \/ (p.ts - old) + SampleSecs <= q.ts - old
          \/ (q.ts - old) + SampleSecs <= p.ts - old
      BY <1>1, <2>3, <2>5, <3>1 DEF Sparse
    <3> QED BY <1>1, <2>3, <3>2, QuotientsDiffer
  <2> HIDE DEF top
  <2>6. slot \in Injection(S, 0..top)
    <3>1. slot \in [S -> 0..top]
      BY <2>4
    <3> HIDE DEF slot
    <3> QED BY <2>5, <3>1 DEF Injection, IsInjective
  <2> HIDE DEF slot
  <2>7. Cardinality(S) <= Cardinality(0..top)
    BY <1>3, <2>6, FS_Injection
  <2> QED BY <1>3, <2>7 DEF top
<1> QED BY <1>4, <1>5

\* A reading thins out the window as it adds to it.
LEMMA WindowIsSparse ==
    ASSUME NEW S \in SUBSET Sample, Sparse(S), NEW e \in Nat, now \in Nat
    PROVE  Sparse(Window(S, e))
<1> DEFINE kept == {s \in S : s.ts >= now - Lookback}
           new  == [ts |-> now, equity |-> e]
<1>1. Lookback \in Nat /\ SampleSecs \in Nat \ {0}
  BY RiskAssumption
<1>2. \A s \in kept : s \in S /\ s.ts \in Nat /\ s.ts <= now /\ now <= s.ts + Lookback
  BY <1>1 DEF Sparse, Sample
<1>3. Sparse(kept)
  BY DEF Sparse
<1>4. ASSUME \A s \in kept : now - s.ts >= SampleSecs
      PROVE  Sparse(kept \cup {new})
  <2>1. \A s \in kept : s.ts + SampleSecs <= new.ts /\ s.ts <= new.ts + Lookback
    BY <1>1, <1>2, <1>4
  <2> QED BY <1>1, <1>2, <1>3, <2>1 DEF Sparse
<1> QED BY <1>3, <1>4 DEF Window

\* A call that leaves the window of the memory sparse leaves the file's so.
LEMMA PersistKeepsSparse ==
    ASSUME NEW st \in Store, SparseStore(st), NEW ok, now \in Nat \ {0}
    PROVE  SparseStore(MaybePersist(st, ok))
BY DEF MaybePersist, Persist, Due, SparseStore, Store

\* The steps of tick keep the window or empty it.
LEMMA TickKeepsSparse ==
    ASSUME NEW st \in Store, SparseStore(st), NEW ok \in BOOLEAN, now \in Nat \ {0},
           lastEquity \in Nat
    PROVE  SparseStore(ClearCooldown(ConsumeAck(RollDaily(st, ok), ok), ok))
<1>1. ASSUME NEW s \in Store, SparseStore(s), NEW m \in RiskState,
             m.samples = s.mem.samples \/ m.samples = {}
      PROVE  /\ [s EXCEPT !.mem = m] \in Store
             /\ SparseStore(MaybePersist([s EXCEPT !.mem = m], ok))
  <2>1. [s EXCEPT !.mem = m] \in Store /\ SparseStore([s EXCEPT !.mem = m])
    BY <1>1 DEF Store, SparseStore, Sparse
  <2> QED BY <2>1, PersistKeepsSparse
<1> DEFINE r == RollDaily(st, ok)
           c == ConsumeAck(r, ok)
<1>2. r \in Store
  BY RollFacts
<1>3. SparseStore(r)
  <2>1. NewDay(st.mem) \in RiskState /\ NewDay(st.mem).samples = st.mem.samples
    <3> DEFINE m == st.mem
               equity == IF lastEquity # 0 THEN lastEquity ELSE m.startEquity
    <3>1. m \in RiskState /\ equity \in Nat
      BY DEF Store, RiskState
    <3> HIDE DEF m
    <3>2. NewDay(m) = [[[m EXCEPT !.pnlToday = 0] EXCEPT !.startTs = now]
                          EXCEPT !.startEquity = equity]
      BY <3>1 DEF NewDay, RiskState
    <3> HIDE DEF equity
    <3> DEFINE m1 == [m EXCEPT !.pnlToday = 0]
               m2 == [m1 EXCEPT !.startTs = now]
    <3>3. m1 \in RiskState /\ m1.samples = m.samples
      BY <3>1 DEF RiskState
    <3> HIDE DEF m1
    <3>4. m2 \in RiskState /\ m2.samples = m.samples
      BY <3>3 DEF RiskState
    <3>5. NewDay(m) = [m2 EXCEPT !.startEquity = equity]
      BY <3>2 DEF m1
    <3> HIDE DEF m2
    <3>6. NewDay(m) \in RiskState /\ NewDay(m).samples = m.samples
      BY <3>1, <3>4, <3>5 DEF RiskState
    <3> QED BY <3>6 DEF m
  <2>2. MaybePersist([st EXCEPT !.mem = NewDay(@)], ok)
          = MaybePersist([st EXCEPT !.mem = NewDay(st.mem)], ok)
    BY DEF Store
  <2> QED BY <1>1, <2>1, <2>2 DEF RollDaily
<1> HIDE DEF r
<1>4. c \in Store
  BY <1>2, AckFacts
<1>5. SparseStore(c)
  <2> DEFINE m == [r.mem EXCEPT !.halted = FALSE, !.samples = {}]
  <2>1. m \in RiskState /\ m.samples = {}
    BY <1>2 DEF Store, RiskState
  <2>2. [r EXCEPT !.mem.halted = FALSE, !.mem.samples = {}] = [r EXCEPT !.mem = m]
    BY <1>2 DEF Store, RiskState
  <2> HIDE DEF m
  <2> QED BY <1>1, <1>2, <1>3, <2>1, <2>2 DEF ConsumeAck
<1> HIDE DEF c
<1>6. SparseStore(ClearCooldown(c, ok))
  <2> DEFINE m == [c.mem EXCEPT !.cbUntil = 0]
  <2>1. m \in RiskState /\ m.samples = c.mem.samples
    BY <1>4 DEF Store, RiskState
  <2>2. [c EXCEPT !.mem.cbUntil = 0] = [c EXCEPT !.mem = m]
    BY <1>4 DEF Store, RiskState
  <2> HIDE DEF m
  <2> QED BY <1>1, <1>4, <1>5, <2>1, <2>2 DEF ClearCooldown
<1> QED BY <1>6 DEF c, r

\* The windows stay sparse, through ticks, readings, closes and restarts.
LEMMA SparseNext == RiskInv /\ SparseStore(store) /\ [RiskNext]_riskVars => SparseStore(store)'
<1> SUFFICES ASSUME RiskInv, SparseStore(store), [RiskNext]_riskVars PROVE SparseStore(store)'
  OBVIOUS
<1>1. /\ store \in Store /\ state \in RiskState /\ state = store.mem
      /\ now \in Nat \ {0} /\ lastEquity \in Nat
  BY DEF RiskInv, RiskTypeOK, Store, state
<1>2. ASSUME NEW st, now' = now, store' = st, SparseStore(st) PROVE SparseStore(store)'
  BY <1>2 DEF SparseStore, Sparse
<1>3. ASSUME NEW m \in RiskState, Sparse(m.samples), NEW ok
      PROVE  SparseStore(MaybePersist([store EXCEPT !.mem = m], ok))
  <2>1. [store EXCEPT !.mem = m] \in Store /\ SparseStore([store EXCEPT !.mem = m])
    BY <1>1, <1>3 DEF Store, SparseStore
  <2> QED BY <1>1, <2>1, PersistKeepsSparse
<1>4. CASE Tick
  <2>1. PICK ok \in Outcomes :
          store' = ClearCooldown(ConsumeAck(RollDaily(store, ok), ok), ok)
    BY <1>4 DEF Tick, Stored
  <2>2. ok \in BOOLEAN
    BY OutcomesAreBoolean
  <2>3. SparseStore(ClearCooldown(ConsumeAck(RollDaily(store, ok), ok), ok))
    BY <1>1, <2>2, TickKeepsSparse
  <2>4. now' = now
    BY <1>4 DEF Tick
  <2> QED BY <1>2, <2>1, <2>3, <2>4
<1>5. ASSUME NEW e \in Equities, EquitySample(e) PROVE SparseStore(store)'
  <2>1. e \in Nat \ {0} /\ now' = now
    BY <1>5, RiskAssumption DEF EquitySample
  <2>2. PICK ok \in Outcomes : store' = MaybePersist([store EXCEPT !.mem = Sampled(state, e)], ok)
    BY <1>5 DEF EquitySample, Stored
  <2> DEFINE m == Sampled(state, e)
  <2>3. m \in RiskState
    BY <1>1, <2>1, SampledFacts
  <2>4. m.samples = Window(state.samples, e)
    <3>1. DOMAIN state =
            {"losses", "cbUntil", "startEquity", "startTs", "pnlToday", "samples", "halted"}
      BY <1>1 DEF RiskState
    <3> QED BY <3>1 DEF Sampled
  <2>5. Sparse(m.samples)
    <3>1. state.samples \in SUBSET Sample /\ Sparse(state.samples)
      BY <1>1 DEF RiskState, SparseStore
    <3> HIDE DEF m
    <3> QED BY <1>1, <2>1, <2>4, <3>1, WindowIsSparse
  <2> HIDE DEF m
  <2>6. SparseStore(MaybePersist([store EXCEPT !.mem = m], ok))
    BY <1>3, <2>3, <2>5
  <2> QED BY <1>2, <2>1, <2>2, <2>6 DEF m
<1>6. ASSUME NEW pnl \in Pnls, Close(pnl) PROVE SparseStore(store)'
  <2>1. pnl \in Int /\ now' = now
    BY <1>6, RiskAssumption DEF Close
  <2>2. PICK ok \in Outcomes : store' = MaybePersist([store EXCEPT !.mem = Closed(state, pnl)], ok)
    BY <1>6 DEF Close, Stored
  <2> DEFINE m == Closed(state, pnl)
  <2>3. m \in RiskState /\ m.samples = state.samples
    BY <1>1, <2>1, ClosedFacts
  <2> HIDE DEF m
  <2>4. Sparse(m.samples)
    BY <1>1, <2>3 DEF SparseStore
  <2>5. SparseStore(MaybePersist([store EXCEPT !.mem = m], ok))
    BY <1>3, <2>3, <2>4
  <2> QED BY <1>2, <2>1, <2>2, <2>5 DEF m
<1>7. ASSUME NEW st \in Store, SparseStore(st), Booted(st) PROVE SparseStore(store)'
  <2>1. store' = [st EXCEPT !.mem = st.disk, !.last = 0] /\ now' = now
    BY <1>7 DEF Booted
  <2>2. SparseStore([st EXCEPT !.mem = st.disk, !.last = 0])
    BY <1>7 DEF SparseStore, Store
  <2> QED BY <1>2, <2>1, <2>2
<1>8. CASE Shutdown
  <2>1. PICK ok \in Outcomes : Booted(Persist(store, ok))
    BY <1>8 DEF Shutdown
  <2>2. Persist(store, ok) \in Store /\ SparseStore(Persist(store, ok))
    BY <1>1, OutcomesAreBoolean DEF Persist, Store, SparseStore
  <2> QED BY <1>7, <2>1, <2>2
<1>9. CASE Crash
  BY <1>1, <1>7, <1>9 DEF Crash
<1>10. CASE Elapse
  <2>1. now' = now + 1 /\ store' = store
    BY <1>10 DEF Elapse
  <2>2. \A p \in store.mem.samples \cup store.disk.samples : p.ts \in Nat
    BY <1>1 DEF Store, RiskState, Sample
  <2> QED BY <1>1, <2>1, <2>2 DEF SparseStore, Sparse
<1>11. CASE Enter \/ OperatorAcks \/ UNCHANGED riskVars
  BY <1>2, <1>11 DEF Enter, OperatorAcks, riskVars
<1> QED
  BY <1>4, <1>5, <1>6, <1>8, <1>9, <1>10, <1>11 DEF RiskNext

(***************************************************************************)
(* The theorems.                                                            *)
(***************************************************************************)
THEOREM RiskInvariant == RiskSpec => []RiskInv
<1>1. RiskInit => RiskInv
  BY InvInit
<1>2. RiskInv /\ [RiskNext]_riskVars => RiskInv'
  BY InvNext
<1> QED BY <1>1, <1>2, PTL DEF RiskSpec

\* The gates hold for every sequence of readings, closes, acknowledgements, day
\* rolls, crashes and failing writes: no remembered drawdown without a halt
\* (manager.rs:252-255), at most one trip past the daily limit (gates.rs:50-57).
THEOREM GatesHold == RiskSpec => [](RiskTypeOK /\ DrawdownHalts /\ OneTripPastTheLimit)
<1>1. RiskInv => RiskTypeOK /\ DrawdownHalts /\ OneTripPastTheLimit
  BY DEF RiskInv
<1> QED BY <1>1, RiskInvariant, PTL

\* What the throttle of maybe_persist may lose is bounded (manager.rs:602-612).
THEOREM ThrottleLosesRecentOnly == RiskSpec => []UnsavedIsRecent
<1>1. RiskInv => UnsavedIsRecent
  BY DEF RiskInv
<1> QED BY <1>1, RiskInvariant, PTL

\* No entry cuts the cooldown of a streak short (manager.rs:544-570), if the
\* streak was seen by this process.
THEOREM CooldownIsServed == RiskSpec => EntryServesCooldown
<1> DEFINE Serves ==
      position = "none" /\ position' # "none" /\ lossAt # 0 =>
        /\ (Tier2 > 0 /\ state.losses >= Tier2) => now >= lossAt + Tier2Secs
        /\ (Tier1 > 0 /\ state.losses >= Tier1 /\ (Tier2 = 0 \/ state.losses < Tier2))
              => now >= lossAt + Tier1Secs
<1>1. RiskInv /\ [RiskNext]_riskVars => [Serves]_riskVars
  <2> SUFFICES ASSUME RiskInv, RiskNext, position = "none", position' # "none", lossAt # 0
               PROVE  Serves
    BY DEF riskVars
  <2>1. Enter
    BY DEF RiskNext, Tick, EquitySample, Close, Shutdown, Crash, Booted, OperatorAcks, Elapse
  <2>2. state.cbUntil <= now
    <3>1. state.cbUntil \in Nat /\ now \in Nat
      BY DEF RiskInv, RiskTypeOK, RiskState, state
    <3> QED BY <2>1, <3>1 DEF Enter, Blocked, CoolingDown
  <2>3. CooldownSecs(state.losses) >= 0 => now >= lossAt + CooldownSecs(state.losses)
    <3>1. CooldownSecs(state.losses) \in Int /\ state.cbUntil \in Nat
          /\ now \in Nat /\ lossAt \in Nat
      BY RiskAssumption DEF CooldownSecs, RiskInv, RiskTypeOK, RiskState, state
    <3> QED BY <2>2, <3>1 DEF RiskInv, StreakPauses
  <2>4. state.losses \in Nat
    BY DEF RiskInv, RiskTypeOK, RiskState, state
  <2> QED BY <2>3, <2>4, RiskAssumption DEF CooldownSecs
<1> QED BY <1>1, RiskInvariant, PTL DEF RiskSpec, EntryServesCooldown

\* Streaks and samples stay naturals, the day's start is read or unread, and
\* what is on disk is a state the manager could have had (manager.rs:54-84).
THEOREM RiskTypeCorrect == RiskSpec => []RiskTypeOK
<1>1. RiskTypeOK /\ DrawdownHalts /\ OneTripPastTheLimit
     => RiskTypeOK
  OBVIOUS
<1> QED BY <1>1, GatesHold, PTL

\* No trip is ever held on a day its gate has stopped before it was entered
\* (gates.rs:50-57, manager.rs:412-446).
THEOREM DailyLossIsBounded == RiskSpec => []OneTripPastTheLimit
<1>1. RiskTypeOK /\ DrawdownHalts /\ OneTripPastTheLimit
     => OneTripPastTheLimit
  OBVIOUS
<1> QED BY <1>1, GatesHold, PTL

\* The persisted window of equity samples never outgrows the lookback, however
\* often equity is reported and whatever a restart brings back (manager.rs:70-73).
THEOREM SamplesStayBounded == RiskSpec => []SamplesBounded
<1>1. RiskInit => SparseStore(store)
  BY DEF RiskInit, SparseStore, Sparse, FreshState
<1>2. RiskInv /\ SparseStore(store) => SamplesBounded
  <2> SUFFICES ASSUME RiskInv, SparseStore(store) PROVE SamplesBounded
    OBVIOUS
  <2>1. state.samples \in SUBSET Sample /\ Sparse(state.samples)
    BY DEF RiskInv, RiskTypeOK, RiskState, SparseStore, state
  <2> QED BY <2>1, SparseIsSmall DEF SamplesBounded
<1> QED BY <1>1, <1>2, RiskInvariant, SparseNext, PTL DEF RiskSpec
=============================================================================

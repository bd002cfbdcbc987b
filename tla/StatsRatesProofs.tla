-------------------------- MODULE StatsRatesProofs --------------------------
(***************************************************************************)
(* Theorems about StatsRates, for any number of ticks, any traffic and any *)
(* limit of consecutive errors: what the clients are told is true or       *)
(* marked, and the rate is that of traffic which passed.                   *)
(***************************************************************************)
EXTENDS StatsRates, TLAPS

\* Since the last snapshot the counter has gained no more than was carried, a
\* restart of Xray included; the snapshot holds the counter or is marked.
TrafficInv ==
  /\ sampled.before <= sampled.last
  /\ sampled.last <= carried
  /\ counter - sampled.counter <= carried - sampled.last
  /\ lastAt # 0 /\ ~sampled.partial => lastSnapshot.uplink = sampled.counter

\* The newest good payload has the uptime of the newest tick, so that the next
\* one differs from it.
UptimeInv ==
  /\ startedAt <= ticks
  /\ good > 0 => ~prevJSON.degraded /\ prevJSON.uptime = ticks - startedAt

RatesInv ==
  /\ TypeOK
  /\ TrafficInv
  /\ UptimeInv
  /\ RateExplained
  /\ UnmarkedIsTrue
  /\ RecoveryAnnounced

\* Before the first fetch the invariant holds.
LEMMA RatesInit == Init => RatesInv
<1> SUFFICES ASSUME Init PROVE RatesInv
  OBVIOUS
<1>1. TypeOK
  BY RatesAssumption DEF Init, TypeOK, Payload, Nothing, Event
<1> QED
  BY <1>1 DEF Init, RatesInv, TrafficInv, UptimeInv, RateExplained, UnmarkedIsTrue,
              RecoveryAnnounced, Nothing

\* Traffic of Xray and its restarts leave the server's side alone.
LEMMA XrayKeeps ==
  ASSUME RatesInv, Traffic \/ XrayRestarts
  PROVE  RatesInv'
<1>1. /\ carried' \in Nat /\ counter' \in 0..carried' /\ startedAt' \in Nat
      /\ carried <= carried' /\ startedAt' <= ticks /\ good' \in 0..2
      /\ counter' - counter <= carried' - carried
      /\ UNCHANGED <<ticks, lastSnapshot, lastAt, prevJSON, errs, view, sampled>>
      /\ good' \in {0, good} /\ (good' # 0 => startedAt' = startedAt)
  BY DEF Traffic, XrayRestarts, RatesInv, TypeOK, UptimeInv
<1>2. TypeOK'
  BY <1>1 DEF RatesInv, TypeOK
<1>3. TrafficInv'
  <2>1. /\ sampled.before \in Nat /\ sampled.last \in Nat /\ sampled.counter \in Nat
        /\ carried \in Nat /\ counter \in Nat /\ counter' \in Nat
    BY <1>1 DEF RatesInv, TypeOK
  <2>2. /\ sampled.before <= sampled.last
        /\ sampled.last <= carried
        /\ counter - sampled.counter <= carried - sampled.last
        /\ lastAt # 0 /\ ~sampled.partial => lastSnapshot.uplink = sampled.counter
    BY DEF RatesInv, TrafficInv
  <2>a. \A a, b, c, d, e, f \in Nat :
          a - b <= c - d /\ b - e <= d - f => a - e <= c - f
    OBVIOUS
  <2>3. counter' - sampled.counter <= carried' - sampled.last
    BY <1>1, <2>1, <2>2, <2>a
  <2>4. sampled.last <= carried'
    BY <1>1, <2>1, <2>2
  <2> QED
    BY <1>1, <2>2, <2>3, <2>4 DEF TrafficInv
<1>4. UptimeInv'
  BY <1>1 DEF RatesInv, TypeOK, UptimeInv
<1>5. RateExplained' /\ UnmarkedIsTrue' /\ RecoveryAnnounced'
  BY <1>1 DEF RatesInv, RateExplained, UnmarkedIsTrue, RecoveryAnnounced
<1> QED
  BY <1>2, <1>3, <1>4, <1>5 DEF RatesInv

\* A fetch that fails: only the count and the event change.
LEMMA FailKeeps ==
  ASSUME RatesInv, NEW q \in Outcomes, NEW s \in Outcomes, FetchFails(q, s),
         ticks' = ticks + 1, UNCHANGED <<carried, counter, startedAt>>
  PROVE  RatesInv'
<1>1. errs' = errs + 1 /\ good' = 0
      /\ UNCHANGED <<lastSnapshot, lastAt, prevJSON, sampled>>
  BY DEF FetchFails
<1>2. \/ errs' # MaxErrors /\ view' = view
      \/ view' \in Event /\ view'.data.degraded /\ view'.delta = 0
  BY RatesAssumption DEF FetchFails, Event, Payload, Nothing
<1>3. TypeOK'
  BY <1>1, <1>2 DEF RatesInv, TypeOK
<1>4. TrafficInv' /\ UptimeInv'
  BY <1>1 DEF RatesInv, TypeOK, TrafficInv, UptimeInv
<1>5. RateExplained' /\ UnmarkedIsTrue' /\ RecoveryAnnounced'
  BY <1>1, <1>2, RatesAssumption
  DEF RatesInv, TypeOK, TrafficInv, RateExplained, UnmarkedIsTrue, RecoveryAnnounced
<1> QED
  BY <1>3, <1>4, <1>5 DEF RatesInv

\* A fetch that succeeds: a payload that repeats the one before is dropped,
\* another becomes the event and the snapshot.
LEMMA SuccessKeeps ==
  ASSUME RatesInv, NEW q \in Outcomes, NEW s \in Outcomes, NEW list \in Lists,
         FetchSucceeds(q, s, list),
         ticks' = ticks + 1, UNCHANGED <<carried, counter, startedAt>>
  PROVE  RatesInv'
<1> DEFINE data == CombinedStats(q, s, list)
<1>1. /\ data \in Payload
      /\ data.uplink = IF q = "ok" THEN counter ELSE 0
      /\ data.uptime = IF s = "ok" THEN ticks + 1 - startedAt ELSE 0
      /\ ~data.degraded => q = "ok" /\ s = "ok"
  <2>1. counter \in Nat /\ ticks \in Nat /\ startedAt \in Nat /\ startedAt <= ticks
    BY DEF RatesInv, TypeOK, UptimeInv
  <2>2. q # "canceled" /\ s # "canceled"
    BY DEF FetchSucceeds, Failed
  <2> DEFINE d == "failed" \in {q, s}
  <2>3. d \in BOOLEAN /\ (~d => q = "ok" /\ s = "ok")
    BY <2>2 DEF Outcomes
  <2>4. data = [uplink |-> IF q = "ok" THEN counter ELSE 0,
                uptime |-> IF s = "ok" THEN ticks + 1 - startedAt ELSE 0,
                outbounds |-> list, degraded |-> d]
    BY DEF CombinedStats, Degraded, QueryStats, SysStats
  <2> HIDE DEF d
  <2> QED
    BY <2>1, <2>3, <2>4 DEF Payload
<1>2. errs' = 0 /\ good' = IF data.degraded THEN 0 ELSE IF good < 2 THEN good + 1 ELSE 2
  BY DEF FetchSucceeds
<1>3. CASE Repeats(data)
  <2>1. UNCHANGED <<lastSnapshot, lastAt, prevJSON, view, sampled>> /\ data = prevJSON
    BY <1>3 DEF FetchSucceeds, Repeats
  <2>2. data.degraded \/ good = 0
    BY <1>1, <2>1 DEF RatesInv, TypeOK, UptimeInv
  <2>3. TypeOK'
    BY <1>2, <2>1 DEF RatesInv, TypeOK
  <2>4. TrafficInv' /\ UptimeInv'
    BY <1>1, <1>2, <2>1 DEF RatesInv, TypeOK, TrafficInv, UptimeInv
  <2>5. RateExplained' /\ UnmarkedIsTrue' /\ RecoveryAnnounced'
    BY <1>2, <2>1, <2>2, RatesAssumption
    DEF RatesInv, TypeOK, RateExplained, UnmarkedIsTrue, RecoveryAnnounced
  <2> QED
    BY <2>3, <2>4, <2>5 DEF RatesInv
<1>4. CASE ~Repeats(data)
  <2>1. /\ prevJSON' = data /\ lastSnapshot' = data /\ lastAt' = ticks + 1
        /\ view' = ComputeBPS(data, lastSnapshot, ticks + 1, lastAt)
        /\ sampled' = [before |-> sampled.last, last |-> carried, counter |-> counter,
                       partial |-> q # "ok", blind |-> sampled.partial]
    BY <1>4 DEF FetchSucceeds, Snapshot
  <2> HIDE DEF data
  <2>2. /\ view' \in Event /\ view'.data = data
        /\ lastAt = 0 => view'.delta = 0
        /\ lastAt # 0 => view'.delta = IF data.uplink < lastSnapshot.uplink THEN 0
                                       ELSE data.uplink - lastSnapshot.uplink
    <3>1. lastSnapshot.uplink \in Nat /\ data.uplink \in Nat /\ lastAt \in 0..ticks
          /\ ticks \in Nat
      BY <1>1 DEF RatesInv, TypeOK, Payload
    <3> QED
      BY <1>1, <2>1, <3>1 DEF ComputeBPS, Event
  <2>3. TypeOK'
    BY <1>1, <1>2, <2>1, <2>2 DEF RatesInv, TypeOK
  <2>4. TrafficInv'
    <3>1. /\ sampled'.before = sampled.last /\ sampled'.last = carried
          /\ sampled'.counter = counter /\ (~sampled'.partial => q = "ok")
      BY <2>1
    <3>2. /\ sampled.last \in Nat /\ carried \in Nat /\ counter \in Nat
          /\ sampled.last <= carried
      BY DEF RatesInv, TypeOK, TrafficInv
    <3>3. ~sampled'.partial => lastSnapshot'.uplink = sampled'.counter
      BY <3>1, <2>1, <1>1
    <3> QED
      BY <3>1, <3>2, <3>3 DEF TrafficInv
  <2>5. UptimeInv'
    BY <1>1, <1>2, <2>1 DEF RatesInv, TypeOK, UptimeInv
  <2>6. RateExplained'
    <3>1. /\ sampled.last \in Nat /\ sampled.counter \in Nat /\ counter \in Nat
          /\ carried \in Nat /\ lastSnapshot.uplink \in Nat
      BY DEF RatesInv, TypeOK, Payload
    <3>2. sampled'.last = carried /\ sampled'.before = sampled.last
          /\ sampled'.blind = sampled.partial
      BY <2>1
    <3>3. CASE lastAt = 0 \/ data.uplink < lastSnapshot.uplink \/ q # "ok"
      BY <3>1, <3>2, <3>3, <1>1, <2>2 DEF RatesInv, TypeOK, TrafficInv, RateExplained
    <3>4. CASE lastAt # 0 /\ data.uplink >= lastSnapshot.uplink /\ q = "ok"
      BY <3>1, <3>2, <3>4, <1>1, <2>2 DEF RatesInv, TrafficInv, RateExplained
    <3> QED
      BY <3>1, <3>3, <3>4, <1>1
  <2>7. UnmarkedIsTrue'
    BY <1>1, <1>2, <2>1, <2>2, RatesAssumption
    DEF RatesInv, TypeOK, UptimeInv, UnmarkedIsTrue
  <2>8. RecoveryAnnounced'
    BY <1>2, <2>2 DEF RecoveryAnnounced
  <2> QED
    BY <2>3, <2>4, <2>5, <2>6, <2>7, <2>8 DEF RatesInv
<1> QED
  BY <1>3, <1>4

\* Every step keeps the invariant.
LEMMA RatesStep == RatesInv /\ [Next]_vars => RatesInv'
<1> SUFFICES ASSUME RatesInv, [Next]_vars PROVE RatesInv'
  OBVIOUS
<1>1. CASE Traffic \/ XrayRestarts
  BY <1>1, XrayKeeps
<1>2. ASSUME NEW q \in Outcomes, NEW s \in Outcomes, NEW list \in Lists, Tick(q, s, list)
      PROVE  RatesInv'
  BY <1>2, FailKeeps, SuccessKeeps DEF Tick
<1>3. CASE UNCHANGED vars
  BY <1>3 DEF vars, RatesInv, TypeOK, TrafficInv, UptimeInv, RateExplained,
              UnmarkedIsTrue, RecoveryAnnounced
<1> QED
  BY <1>1, <1>2, <1>3 DEF Next, Over

-----------------------------------------------------------------------------
\* The invariant holds in every reachable state.
THEOREM RatesInvCorrect == Spec => []RatesInv
BY RatesInit, RatesStep, PTL DEF Spec

\* Every variable keeps its type: no rate is negative (computeBPS).
THEOREM RatesTypes == Spec => []TypeOK
<1>1. RatesInv => TypeOK
  BY DEF RatesInv
<1> QED
  BY <1>1, RatesInvCorrect, PTL

\* The rate is that of traffic which passed, restarts of Xray and failed
\* fetches included (the loop's lastSnapshot and computeBPS).
THEOREM RatesExplained == Spec => []RateExplained
<1>1. RatesInv => RateExplained
  BY DEF RatesInv
<1> QED
  BY <1>1, RatesInvCorrect, PTL

\* What is not marked as degraded is true (getCombinedStats and the count of
\* consecutive errors).
THEOREM UnmarkedTrue == Spec => []UnmarkedIsTrue
<1>1. RatesInv => UnmarkedIsTrue
  BY DEF RatesInv
<1> QED
  BY <1>1, RatesInvCorrect, PTL

\* The end of an outage reaches the clients in spite of the deduplication.
THEOREM RecoveriesAnnounced == Spec => []RecoveryAnnounced
<1>1. RatesInv => RecoveryAnnounced
  BY DEF RatesInv
<1> QED
  BY <1>1, RatesInvCorrect, PTL

=============================================================================

---------------------------- MODULE StatsRates ----------------------------
(***************************************************************************)
(* What the clients are told about the traffic: getCombinedStats puts a    *)
(* payload together from sources that fail independently, the broadcaster  *)
(* drops the payloads that repeat the one before, and computeBPS derives a *)
(* rate from two payloads (server/handlerstats.go 226-339, the loop of     *)
(* sse/broadcaster.go 213-286).  The down link is treated like the up link *)
(* and is left out; memory and goroutines change with the uptime.          *)
(***************************************************************************)
EXTENDS Integers

CONSTANTS
  Lists,       \* what getAllOutboundStatuses may return, see ServerCaches
  None,        \* ... among it nil, no list
  MaxErrors,   \* maxConsecutiveErrors
  MaxTicks,    \* bound on the ticks of the loop
  MaxTraffic   \* bound on the traffic of a behaviour

ASSUME RatesAssumption ==
  /\ None \in Lists
  /\ MaxErrors \in Nat \ {0}
  /\ MaxTicks \in Nat
  /\ MaxTraffic \in Nat

VARIABLES
  ticks,         \* ticks of the loop; the clock
  carried,       \* the traffic Xray has really carried
  counter,       \* its traffic counter, and when it was started
  startedAt,
  lastSnapshot,  \* locals of the loop
  lastAt,
  prevJSON,
  errs,          \* consecutiveErrors
  view,          \* the event the clients were sent last
  sampled,       \* history: what was true at the last two snapshots
  good           \* history: good fetches in a row from one run of Xray

vars == <<ticks, carried, counter, startedAt, lastSnapshot, lastAt, prevJSON,
          errs, view, sampled, good>>

\* StatsData without the rate; Nothing is the zero value and nil.
Payload == [uplink : Nat, uptime : Nat, outbounds : Lists, degraded : BOOLEAN]
Nothing == [uplink |-> 0, uptime |-> 0, outbounds |-> None, degraded |-> FALSE]
Event == [data : Payload, delta : Nat, elapsed : Nat]

TypeOK ==
  /\ ticks \in Nat
  /\ carried \in Nat
  /\ counter \in 0..carried
  /\ startedAt \in Nat
  /\ lastSnapshot \in Payload
  /\ lastAt \in 0..ticks
  /\ prevJSON \in Payload
  /\ errs \in Nat
  /\ view \in Event
  /\ sampled \in [before : Nat, last : Nat, counter : Nat,
                 partial : BOOLEAN, blind : BOOLEAN]
  /\ good \in 0..2

Init ==
  /\ ticks = 0
  /\ carried = 0
  /\ counter = 0
  /\ startedAt = 0
  /\ lastSnapshot = Nothing
  /\ lastAt = 0
  /\ prevJSON = Nothing
  /\ errs = 0
  /\ view = [data |-> Nothing, delta |-> 0, elapsed |-> 0]
  /\ sampled = [before |-> 0, last |-> 0, counter |-> 0,
                partial |-> FALSE, blind |-> FALSE]
  /\ good = 0

-----------------------------------------------------------------------------
(* Xray *)

Traffic ==
  /\ carried < MaxTraffic
  /\ carried' = carried + 1
  /\ counter' = counter + 1
  /\ UNCHANGED <<ticks, startedAt, lastSnapshot, lastAt, prevJSON, errs, view,
                 sampled, good>>

XrayRestarts ==
  /\ counter' = 0
  /\ startedAt' = ticks
  /\ counter # 0 \/ startedAt # ticks
  /\ good' = 0
  /\ UNCHANGED <<ticks, carried, lastSnapshot, lastAt, prevJSON, errs, view,
                 sampled>>

-----------------------------------------------------------------------------
(* A tick *)

Outcomes == {"ok", "failed", "canceled"}

\* getCombinedStats is an error when both counted sources fail, or one was
\* canceled by the shutdown.  An empty list of outbounds is no failure.
Failed(q, s) == "canceled" \in {q, s} \/ {q, s} = {"failed"}

\* What Xray answers: the sum of its counters, and its uptime.
QueryStats == counter
SysStats == ticks + 1 - startedAt

\* A mistake: a failed GetSysStats is not marked.
BugDegraded(q, s) == q # "ok"
Degraded(q, s) == "failed" \in {q, s}

\* The payload when at most one source has failed.
CombinedStats(q, s, list) ==
  [uplink |-> IF q = "ok" THEN QueryStats ELSE 0,
   uptime |-> IF s = "ok" THEN SysStats ELSE 0,
   outbounds |-> list,
   degraded |-> Degraded(q, s)]

\* computeBPS: the rate is delta / elapsed; a counter that went back gives 0.
ComputeBPS(data, prev, at, prevAt) ==
  IF prevAt = 0 THEN [data |-> data, delta |-> 0, elapsed |-> 0]
  ELSE [data |-> data,
        delta |-> IF data.uplink < prev.uplink THEN 0
                  ELSE data.uplink - prev.uplink,
        elapsed |-> at - prevAt]

FetchFails(q, s) ==
  /\ Failed(q, s)
  /\ errs' = errs + 1
  /\ view' = IF errs' = MaxErrors
             THEN [data |-> [Nothing EXCEPT !.degraded = TRUE],
                   delta |-> 0, elapsed |-> 0]
             ELSE view
  /\ good' = 0
  /\ UNCHANGED <<lastSnapshot, lastAt, prevJSON, sampled>>

\* A mistake: two payloads with the same traffic are taken for equal.
BugRepeats(data) == data.uplink = prevJSON.uplink /\ lastAt # 0
\* bytes.Equal(currJSON, prevJSON)
Repeats(data) == data = prevJSON

\* A mistake: the snapshot is kept only when it is the first.
BugSnapshot(data) == IF lastAt = 0 THEN data ELSE lastSnapshot
Snapshot(data) == data

FetchSucceeds(q, s, list) ==
  LET data == CombinedStats(q, s, list) IN
  /\ ~Failed(q, s)
  /\ errs' = 0
  /\ good' = IF data.degraded THEN 0 ELSE IF good < 2 THEN good + 1 ELSE 2
  /\ IF Repeats(data)
     THEN UNCHANGED <<lastSnapshot, lastAt, prevJSON, view, sampled>>
     ELSE /\ prevJSON' = data
          /\ view' = ComputeBPS(data, lastSnapshot, ticks + 1, lastAt)
          /\ lastSnapshot' = Snapshot(data)
          /\ lastAt' = ticks + 1
          /\ sampled' = [before |-> sampled.last, last |-> carried,
                          counter |-> counter,
                          partial |-> q # "ok", blind |-> sampled.partial]

Tick(q, s, list) ==
  /\ ticks < MaxTicks
  /\ ticks' = ticks + 1
  /\ FetchFails(q, s) \/ FetchSucceeds(q, s, list)
  /\ UNCHANGED <<carried, counter, startedAt>>

Over == ticks = MaxTicks /\ UNCHANGED vars

Next ==
  \/ Traffic
  \/ XrayRestarts
  \/ \E q, s \in Outcomes, list \in Lists : Tick(q, s, list)
  \/ Over

Spec == Init /\ [][Next]_vars

-----------------------------------------------------------------------------
(* Properties *)

\* The rate the clients see is never that of more traffic than passed between
\* the two snapshots, whether Xray restarted or fetches failed in between.  The
\* code does not keep it when QueryStats alone had failed at the earlier one:
\* its traffic is stored as 0 and all of the counter is taken for new.
RateExplained ==
  view.delta > sampled.last - sampled.before => sampled.blind

\* What the clients see unmarked is the real counter and uptime as of the last
\* snapshot, and fewer fetches than maxConsecutiveErrors have failed since.
UnmarkedIsTrue ==
  lastAt # 0 /\ ~view.data.degraded =>
    /\ view.data.uplink = sampled.counter
    /\ view.data.uptime > 0
    /\ errs < MaxErrors

\* Clients shown the outage learn of its end by the second fetch from a running
\* Xray that succeeds; the first may repeat the payload before the outage, which
\* the dedup drops.
RecoveryAnnounced == good = 2 => ~view.data.degraded

=============================================================================

# A TLA+ development of xray-web-manager

xray-web-manager is a small Go server with a browser front end that watches and
switches the outbounds of an Xray process over gRPC.  This directory models its
behaviour in TLA+, checks the models with TLC and proves the properties
that matter most with TLAPS.

Paths below are relative to the repository (`src/`).

## 1. Inventory

### Server side

| Component | State | Operations | Talks to |
|---|---|---|---|
| **Broadcaster** `sse/broadcaster.go` | `subscribers`, `stopCh`, `loopDone`, `loopGen`, `stopped`, `idleTimer` (all under `mu`), `lastBroadcast`; a loop goroutine with `consecutiveErrors`, `prevJSON`, `lastSnapshot` | `Subscribe`, `Unsubscribe`, the idle timer's callback, `Stop`, `LastBroadcast`, the loop | fetches with `getCombinedStats`, feeds the SSE handlers through channels of capacity 5 |
| **SSE manager** `sse/manager.go` | `connections`, `shutdown`, `maxConns` under `mu` | `Add`, `Remove`, `CloseAll`, `Count` | cancels the contexts of the SSE handlers |
| **Stats SSE handler** `server/handlerstats.go` | per request: connection, channel, heartbeat and lifetime timers | `handleStatsSSE`, `getCombinedStats` (singleflight over three gRPC sources), `computeBPS` | manager, broadcaster, observatory cache |
| **Health check** `server/handlerhealth.go` | `healthCache` under `healthMu`, `healthGroup` | `handleHealthCheck` | invalidated by `handleSwitchOutbound` |
| **Outbounds** `server/handleroutbound.go` | `obsCache`, `excludedTagsCache`, each with a mutex and a singleflight group | list, status, current, switch; `findBestAvailableNode`, `buildExcludedTags` | gRPC; invalidates two caches |
| **Server, shutdown, reconnect** `server/server.go`, `main.go` | `shutdownCtx`, `backgroundWg`, `wasConnected` | `Shutdown`, `StartReconnectMonitor`, `waitForReconnect`, `waitForReady`, the startup retries | broadcaster, manager, gRPC connection |
| **Logs, journal** `server/handlerlog.go`, `server/journal.go` | `ringPool`, rings that requests take and give back | `readLogFile` (ring buffer), `trimLinesToBytes`, `truncateSearch`, journalctl | files, a process |
| **Rate limiter** `middleware/ratelimit.go` | `requests`: per address a sliding window | `checkAndRecord`, `cleanupStaleKeys`, `evictOldest`, `StopCleanup` | wraps every request |
| **Auth limiters** `middleware/auth.go` | `states`: per address attempts, last attempt, blocked since | `isAuthBlocked`, `recordAuthFailure`, `cleanupRateLimiter` | wraps every request |
| **Cleanup goroutines** `middleware/middleware.go` | started flag, stop channel | `startCleanupLoop`, `StopCleanup` | both limiters |
| **Stateless middleware** `cors.go`, `security.go`, `logger.go`, `recovery.go` | none | one function each | |
| **Configuration** `config/config.go` | the file | `LoadConfig`, `ValidateConfig`, `SaveDefaultConfig` | the disk |

### Browser side

| Component | State | Operations |
|---|---|---|
| **network.js** | event source, retry count and timer, polling timer, last known outbound | `initializePage`, `startPostInitPolling`, `connectStatsSSE`, `loadCurrentOutbound` |
| **features.js, core.js** | log view, node cards | `findBestNode`, `LogManager`, rendering |

`internal/xray-proto` is generated and not modelled: a call of it is its outcome.  The
types of the model have the few fields of its messages that the server reads.

### Which behaviours are hard, and what makes each part correct

* **Broadcaster.**  The loop is started by a `Subscribe`, stopped by a timer that
  an `Unsubscribe` arms or by `Stop`, and each of the four may be between two of
  its critical sections while the others run: `Subscribe` drops the lock to wait
  for the previous loop, `Stop` to wait for the current one, the loop sends
  without the lock, a timer that has fired cannot be recalled.  Correct means: one
  loop at a time; no send on, and no second close of, a closed channel; every
  client served while it is subscribed and released by `Stop`; no loop without
  clients running for ever; streams in order.
* **Handler, manager, shutdown.**  A slot of the manager is returned on every
  exit; the shutdown ends every handler, whatever it is doing; what a client sees
  first is not newer than what it sees next.
* **Caches.**  A fetch in flight races an invalidation; every caller released by
  a singleflight acts on the shared result; the time to live depends on the
  outcome.
* **Limiters.**  Bounds over any window of time, not only over the windows of the
  implementation; eviction; a check and the record of its outcome are two steps.
* **Log tail.**  The ring buffer and the byte limit at their boundaries.
* **Life of the process.**  The only state that survives is the configuration file,
  which the process itself may create; startup waits for Xray with timeouts;
  shutdown waits for a monitor that may be waiting for the connection.
* **Browser.**  Overlapping initialisations, a polling chain that outlives its
  cancellation, retries of the event source.

The `hazards` of `PROJECT.json` list these with their lines and the properties
that cover them.

## 2. Plan

| # | Module | What it models | State |
|---|---|---|---|
| 1 | `Feed` | the abstract promise of a broadcaster | done |
| 2 | `Broadcaster`, `BroadcasterProofs` | `sse/broadcaster.go`, implements `Feed` | done |
| 3 | `StatsStream`, `StatsStreamProofs` | manager, handler and `Shutdown`, composed with `Broadcaster` | done |
| 4 | `StatsRates`, `StatsRatesProofs` | the sources of `getCombinedStats`, the deduplication and `computeBPS` | done |
| 5 | `ServerCaches`, `ServerCachesProofs` | the three caches with their singleflight groups, and the switch that invalidates two of them | done |
| 6 | `RateLimiter`, `AuthLimiter`, `RequestChain`, `RequestChainProofs` | the limiters and the chain a request passes through | done |
| 7 | `LogTail`, `LogTailProofs` | file and journal readers | done |
| 8 | `Outbounds`, `Browser`, `BrowserProofs` | the choice of a node on both sides, and the page | done |
| 9 | `Lifecycle`, `StatsClient`, `Deployment`, `DeploymentProofs` | the process over its restarts with the stream of a page that stays open | done |

How they compose: `StatsStream` extends `Broadcaster` and drives its actions.
`RequestChain` extends `RateLimiter` and has two instances of `AuthLimiter`.
`Browser` uses the operators of `Outbounds`, the server's choice of a node and the
page's.  `Deployment` is the conjunction of `Lifecycle` and `StatsClient`.

Left for later: the browser's `LogManager`.

## 3. The modules

### Broadcaster

One action is one critical section under `b.mu`, or one step the loop takes
without it.

| Code | Actions |
|---|---|
| `Subscribe`, lines 109-158 | `SubscribeStopped` (114-117), `SubscribeJoin` (a loop runs, or somebody is about to start one), `SubscribeFirst` (no earlier loop), `SubscribeAwait` (up to the unlock at 141), `SubscribeRestart` and `SubscribeGiveUp` (from `<-done` on) |
| `Unsubscribe`, 164-186 | `Unsubscribe`; `TimerFires` and `IdleCallback` for the timer it arms |
| `loop`, 204-301 | `Tick`, then one of `FetchFails`, `FetchDegrades`, `FetchDuplicate`, `FetchFresh`, `LoopPanics`; `Snapshot`; one `Send` per channel; `LoopStops` |
| `Stop`, 75-104 | `StopBegin` (first section), `StopClose` (after `<-loopDone`) |
| the handler's `<-statsCh` | `Receive` |

`Finished` is a stutter in the state in which everybody is done, so that TLC's
deadlock check, which stays on, reports every other state without a successor.

Representation:

* An element of `Conns` is one call of `Subscribe`: its channel, the loop it may start
  (with that loop's `stopCh` and `loopDone`) and the idle timer its `Unsubscribe` may
  arm carry its name.  Each of these is created at most once per call.  The only caller
  of `Unsubscribe` is the deferred call of `handleStatsSSE`, which runs once.
* A closed `loopDone` is the loop's pc `"exited"`; closed `stopCh`s are the set
  `stopClosed`, closed subscriber channels the set `closed`.
* A timer is `"armed"`, then `"fired"`: its goroutine exists and waits for `b.mu`;
  `timer.Stop` has an effect only on an armed one.
* A payload is what was fetched and the tick that fetched it.  The fields `enrichFn`
  derives, `lastSnapshot` and `lastAt`, which only it reads, and the counter of dropped
  messages, which is only logged, are left out.  Two equal payloads are what the byte
  comparison of their JSON says; the members of `Unmarshalable` make `json.Marshal`
  fail, which resets `prevJSON`.
* The generation check of `Subscribe` is modelled with both its outcomes, but only
  `Stop` ever increments `loopGen`: the branch at 145-147 (generation changed and not
  stopped) cannot be reached, and `StopInv` records why.
* `CallbacksPanic` says whether `enrichFn` and `degradedFn` may panic.  The code
  recovers from both; a loop that dies of `enrichFn` leaves `stopCh` in place, and
  `Served` excepts its clients: they are served again only after all of them have left
  for the idle period.  The callbacks the server installs do not panic.  A panic of
  `fetchFn` is an error like any other.

Operators whose names begin with `Bug` are one-line mistakes in the operator that
follows them (a forgotten wait, a timer not forgotten, a guard dropped).  They are
used by no action: replacing the operator by its mistake makes the corresponding
property fail, which shows that the property depends on that line of the code.

### Feed

The promise, without locks: members join while the feed is up, a single poller
ticks while it runs, and delivers the payload of the current tick at most once, to
feeds that are open and have room; a shutdown closes every member's feed, only when
the poller is gone; latecomers get a closed feed.  `Broadcaster` instantiates it as
`Promise` with

| `Feed` | in `Broadcaster` |
|---|---|
| `place[c]` | `"outside"` before the call, `"member"` while in `subscribers`, else `"gone"` |
| `polling` | some loop is live |
| `inbox[c]`, `last[c]` | the ticks in the buffer; the latest tick sent to `c` |
| `now`, `phase` | `ticks`; where `Stop` is |

### StatsStream

The requests for `/api/stats-sse` between the manager, the broadcaster and the
shutdown.  The module extends `Broadcaster`: a request makes one call of
`Subscribe` and has its name, and every step is a step of the broadcaster taken by
its caller (conjoined with what the caller does), or leaves the broadcaster alone.

| Code | Actions |
|---|---|
| `Manager.Add` and the handler's answer to it | `AddConn`, `RefuseConn` |
| `Subscribe` and its `defer`, 147-148 | `CallSubscribe` (up to its return or its wait), `ResumeSubscribe` (returns, or panics) |
| the initial event, 156-187 | `ReadLast` or `FetchInitial`, then `WriteSucceeds` or `WriteFails` |
| the event loop, 189-223 | `TakePayload`, `Heartbeat`, then the same two writes; `ContextDone`, `ChannelClosed`, `Lifetime` |
| the deferred calls | `DeferredUnsubscribe`, then `DeferredRemove` (with `conn.Close`) |
| the client | `Disconnect`: its context is done and writes to it fail |
| `Server.Shutdown` and `main` after the signal | `ShutdownBegins`, `ShutdownStopped` (the two halves of `Stop`), `CloseAll`, `BackgroundDone`, then `Drained` or `DrainTimeout` |
| the goroutines of the broadcaster | `IdleTimer`, `LoopTicks`, `LoopWorks`, `LoopEnds` |

`h[c]` is where the handler is.  `Holding` are the handlers between a successful
`Add` and the end of the deferred function that calls `Remove`.  The order of the
`defer`s matters: `Remove` is deferred before `Subscribe` is called, `Unsubscribe`
after it has returned, so the panic of the finding `close_twice` still gives the
slot back (`AfterSubscribe`).  `missed` is a history variable: channels that were
full for some payload.  `getCombinedStats` returns a payload or fails; the heartbeat
and the lifetime may expire at any time.  When `main` returns the process is gone:
`"exit"` is final.

### StatsRates

The numbers behind the stream, which `Broadcaster` abstracts to payloads: the traffic
counter and the uptime of Xray and the list of outbounds, what `getCombinedStats` makes
of them, the deduplication, `computeBPS`.  A tick is one action, `Tick(q, s, list)`,
with the outcomes of `QueryStats` and `GetSysStats` and the list as parameters;
`FetchFails` and `FetchSucceeds` are its two ends.  An empty list is no failure in the
code, and does not mark the payload.  Xray restarts at any time, its counter then begins
again at 0.  A rate is kept as its numerator and denominator, `delta` and `elapsed`.
`sampled` and `good` are history variables: what had really been carried at the last two
snapshots, and how many good fetches in a row there were.  One loop is followed; a new
loop begins with the same empty locals.

### ServerCaches

The caches of `handlerhealth.go` and `handleroutbound.go`.  A critical section is one
action, and the function a singleflight group runs has a life of its own, `flight[r]`,
named after the request that leads it.

| Code | Actions |
|---|---|
| the handlers up to their first look at a cache | `Begin`, `BalancerInfo`, `Read` |
| `group.Do` | `Do`; the function: `Recheck` (health only), `XrayAnswers`, `Store` (not health), `Return` |
| after `Do` | `ReadBack` (observatory, excluded tags), `WriteHealth` |
| `handleSwitchOutbound` | `Override`, `ClearHealth`, `ClearObs` |

What a call returned is abstracted to whether it succeeded and to the number of
changes Xray had gone through when it answered (`epoch`); the order of epochs is what
"newer" and "older" mean.  `settled`, `shown`, and the fields `raced`, `cut` and `floor`
are history.  The override may take effect although its answer is lost.

### RateLimiter, AuthLimiter, RequestChain

`RateLimiter` is the sliding window of `ratelimit.go`, with the comparison of floats
multiplied out into integers; rounding at equality is left out.  `AuthLimiter` is
`simpleAuthRateLimit`, of which `RequestChain` has two instances.  In `RequestChain` a
request goes through the handlers of `main.go` 126-131 in their order, and each critical
section of a limiter is one action: `Arrive` (up to the comparison of the credentials),
`CheckNoCred`, `RecordNoCred`, `RecordFailure`, `RateLimit`.  Between them other
requests and the two cleanup goroutines (`CleanRate`, `CleanAuth`) run.  A cleanup loop
runs before time moves on: the loops are assumed to be punctual.  Behind a trusted
proxy every request has the proxy's remote address, and the client's own in
`X-Real-IP`.  What lies inside `RateLimit` (`CheckOrigin`, the mux and the handlers)
changes no state of the limiters: a request that reaches it is answered, with a status
that is not modelled.  `accepted` and `failures` are history.

### LogTail

`handleGetLogs` with `readLogFile` and `readJournalLog`.  A reader takes a ring out of
`ringPool` with whatever an earlier read left in it, scans line by line while the log
grows, copies the result out, trims it and gives the ring back on every way out.  A line
is its place, its size, whether it matches the search and whether a reader has to reject
it.  `truncateSearch` works on bytes, of which four kinds are told apart: ASCII, the
first of two, the first of three, and continuation.  A log type that `ValidateConfig`
does not accept is not modelled, nor the answer it gets.  `Kept` (the lines a reader
should keep), `Bytes` (their size) and `Fitted` (the most of the last lines that fit)
are the definitions the readers are compared with.

### Outbounds, Browser

`Outbounds` has the pure functions: which outbounds are shown and which are excluded
(by the lower case of their protocol), which tags a switch accepts (256 bytes, letters,
digits and four signs), `findBestAvailableNode` of the server and `findBestNode` of the
page.  `Browser` is the page's `initializePage`: several of them may be waiting for
answers at a time, since the page load, the refresh button, the retry countdown and a
switch all start it.

| Code | Actions |
|---|---|
| `frontend/network.js`: `initializePage` 95-151 | `Enter` (as `Reload`, `Retry`, `Refresh`), `CurrentArrives`, `CurrentFails`, `ListArrives`, `ListFails`, `StatusesArrive`, `Answered`, `Applied`, `StatusesAgain` |
| `startPostInitPolling` 153-178 | `PollTimer`, `PollAnswered`; `StopPolling` |
| `applyOutboundChange` 78-93 | `Switch`, and `Applied` from the dialog |
| `server/handleroutbound.go`: `obsCache` | `AllStatuses`, `ObsExpires` |
| Xray's observatory | `Probe` |

The server answers from the statuses in its cache, which may be older than those the
observatory has (`cached`; it expires at any time, which covers the 2 s of
`observatoryCacheTTL`).  So `/api/current-outbound` may choose a node from other
statuses than the page compares with, and a call records which they were (`asOf`,
`seen`).  A failed `/api/current-outbound` counts as automatic, whatever the override.
A request to the server is one step here; what several of them do to the cache
while a fetch or a switch is under way is in `ServerCaches`.  The outbounds of Xray do not
change while the page is open, so `fixedNodeOrder` is the order by tag.

An element of `Inits` stands for one call and the polling it leaves behind, and is
used again when both have ended.  `escaped` is history: a polling `_postInitTimer` no
longer names.

### Lifecycle, StatsClient, Deployment

`Lifecycle` is `main()` from the configuration file to its return, over several starts;
the process may be killed at any point and only the file survives.  Its `Startup`
actions are the statements of `main.go` in their order, `MonitorTick` to `MonitorEnds`
the goroutine of `StartReconnectMonitor` with both reads of the state in
`waitForReconnect`.  The settings are reduced to three that are treated differently
(with a default when empty; that and validated; validated only).  `SaveDefaultConfig`
creates the file and writes it in two steps (`SaveDefaultConfig`, `WriteFile`): the file
may not be created, and a write that fails or is interrupted by a crash may leave any
beginning of it, whole lines (`WholeLines`) or a last value that is cut short
(`CutShort`), while `LoadConfig` goes on with the defaults.  A file that is there and cannot
be read ends the start (`ReadFails`).  `config` is what the last start loaded, kept over
the restarts for the comparison; `touched` says what happened to the file since.
`StatsClient` is
`connectStatsSSE`.  `Deployment` puts them together: a page that stays open while the
process stops, crashes and starts again.  The shutdown of the streams is one step here
(`StopSSE`); its steps are in `StatsStream`.

## 4. The runs

The MC modules add only the symmetry (of clients, requests or readers, in safety runs
alone) and sets that a cfg cannot write.  `StatsRates` needs none.
`BytesBounded` and `TailExact` are about the same answers: what is returned, and what a
user of `max_bytes` may expect of it.

| Run | Bounds | What it checks |
|---|---|---|
| `broadcaster` | 2 calls, 2 payloads (one unmarshalable), capacity 2, threshold 2, 3 ticks, callbacks may panic, clients may not read | `TypeOK`, `AtMostOneLoop`, `NoSendOnClosed`, `StopChOpen`, `ClosedAfterStop`, `ServedOrStarting`; that the broadcaster implements `Feed` (`ImplementsFeed`); `StopReturns`, `SubscribeEnds`, `IdleLoopEnds`, `Served` |
| `close_twice` | 2 calls, 1 tick | `NoCloseTwice` is violated |
| `idle_grace` | 2 calls, 1 tick | `IdleGraceHonoured` is violated |
| `stream_safety` | 2 requests, 1 slot, capacity 1, threshold 1, 3 ticks | `SlotAccounting`, `CancelledAfterCloseAll`, `SubscribedOnlyWhileHeld`, `NoLostUpdate` |
| `stream_liveness` | 2 requests, 2 slots, no ticks, clients may stall | `ShutdownDrains`, `SlotReleased` |
| `stats_rates` | threshold 2, 6 ticks, traffic 3 | `RateExplained`, `UnmarkedIsTrue`, `RecoveryAnnounced` |
| `caches` | 3 requests, times to live 1, 1 and 0, clock up to 1, drift 1 | `SwitchReflected`, `StatusesNeverGoBack`, `EmptyOnlyClearedOrExpired` |
| `request_chain` | a client and the proxy, 2 goroutines, 5 requests, limit 2 in a window of 2, 2 failures block for 2, 1 missing credential for 1, tables of 1, cleanup every 2, time up to 7 | `SlidingBound`, `RefusedJustly`, `BlockedJustly`, `AttemptsBounded`, `BlockKept`, `TablesBounded` |
| `logs` | 2 readers, 2 rings of 2, 2 bytes at most, log of 3 lines, searches of up to 4 bytes cut at 3 | `TailExact`, `SearchCut` |
| `logs_bytes` | the same with 1 reader and 1 ring | `BytesBounded` is violated |
| `browser` | 2 calls, 4 outbounds, 2 rounds of polling, 1 probe, 1 reload | `NeverStuck`, `OnePolling`, `PromptJustified`, `PollingEnds` |
| `deployment` | 3 attempts, 3 starts, 3 retries | `RestartAgrees`, `OneStream`, `MainProgresses`, `RecoveryReported`, `StreamResumes` |

The type invariants: that of `Broadcaster` is checked and proved; those of
`StatsStream`, `StatsRates` and `ServerCaches` are proved; those of `RequestChain`,
`LogTail`, `Browser` and `Deployment` are conjuncts of `TablesBounded`, `TailExact`,
`NeverStuck` and `OneStream`, and proved as well.  `Broadcaster` also defines the
inductive invariant `IInv` and `IdleLoopHasTimer`, which are proved; the order of the
streams is part of `Feed`.

**Why the bounds are enough.**  Two calls are what it takes for a loop to be stopped by
a timer, or by `Stop`, while the second call waits for it; for a client to come back
just before a timer fires; and for one client to be full while the other reads.  A third
call that joins while the second waits finds the broadcaster not empty and takes the
branch of `SubscribeJoin`, as the second does beside a running loop; with three calls the
run passes with 1 tick, and the invariants are proved for any number of calls.
Capacity 2 makes a full channel and a dropped payload common; a threshold of 2 errors
within 3 ticks lets an outage begin, degrade and end; one more loop or tick repeats a
situation already met.  There is no symmetry in this run, since it checks liveness.

For the streams, two requests for one slot let one be refused, or served after
the other has left, and be in different phases when the signal comes; with two slots
they share the loop (`stream_liveness`).  An update is lost, if at all, between one
handler's `Subscribe` and its read of `LastBroadcast` while a broadcast runs: three ticks
are an earlier broadcast, the one that races and the next.
Their liveness is checked without symmetry, on the smallest instance that has the
interplay it is about: two handlers of which one may be inside `Subscribe`, waiting for
the loop of the other, or in a write that never ends (heartbeats are enough to stall in
one).  Payloads do not matter to it, and that run has no ticks.  The callbacks in
the runs of the streams are those of the server and do not panic.

`stats_rates`: an outage takes two failures, so six ticks hold a snapshot, an outage, a
recovery of two fetches and a partial failure; with two lists a payload may differ from
the one before in its list alone.  `caches`: a leader, a caller that joins it and a
switch between any two of their steps; a failed probe whose time to live of 0 has run
out by the next tick.  `request_chain`: seven units are three windows and a half, so that counts
rotate, are carried over, and are forgotten at exactly two windows and beyond; tables of
one entry make every new address an eviction; two goroutines pass the check of a limiter
before either records its failure.  `logs`: a ring of two wraps within three lines, and
the longest line exceeds the byte limit by itself; with two rings and two readers a ring
is used again with what is left in it.  `browser`: two calls overlap at every await; the
four outbounds are two proxies, one that is excluded and one without a tag; one probe
makes the cached statuses old, and the targets of a switch are one that is accepted, the
reset and two that are refused.  `deployment`: three starts are a first one that creates
the file, one that finds it, or a beginning of it, and one after a crash or an edit.

The theorems of section 5 hold without these bounds.

**Fairness.**  `FairSpec` assumes weak fairness of the work of a tick (a fetch is
bounded by the 4 s or 5 s timeout of its context and nothing else in it blocks), of
the resumption of a waiting `Subscribe` and of the second half of `Stop` (a receive
from a closed channel, then a mutex Go hands over without starvation), of timers and
of their callbacks.  `LoopStops` has strong fairness: a loop whose `stopCh` is
closed may still see its ticker first, but `select` chooses at random among the
ready cases.  Clients, the ticker and the caller of `Stop` are under no obligation.

`SSFairness` adds the handlers: weak fairness of the steps that do not wait for the
client (the initial fetch is bounded by its timeout; a write to a client that has
gone away fails), strong fairness of `HandlerReturns`, because `select` may choose a
payload or the heartbeat first, finitely often; and weak fairness of the steps of
`main`.  `BackgroundDone` is among them: that the reconnect monitor ends is
`MainProgresses` of `Lifecycle`.  Nothing makes a client read: a write
may last for ever, and nothing makes the five seconds elapse.  `ShutdownDrains` says
that only such writes can then keep the process from its end.

`SiteSpec` (`deployment`) assumes weak fairness of the startup (its waits have
timeouts), of the shutdown, of the monitor and its ticker, and of the browser's timers
and connections; strong fairness of `MonitorGivesUp` and `MonitorEnds`, for the same
reason as `LoopStops`.  Nothing makes Xray come up, the user click or the connection
settle.  `Browser` assumes weak fairness of the polling: its timers fire and its
requests are answered or fail (the calls behind the server's handlers have timeouts,
and a lost connection is an error of `fetch`).

**Findings.**

* `close_twice`: `Subscribe` (line 149) can close a channel that `Stop` (98-100) has
  closed already, against the comment at 161-162 that closing "is handled
  exclusively by Stop()".  The goroutine of the request panics; `handleStatsSSE`
  recovers, and the deferred `Remove` gives the slot back.
* `logs_bytes`: `max_bytes` is documented as an "upper bound on bytes returned per
  /api/logs call" (`config/config.go:40`, likewise `README.md:45`), with the exception of
  a single line that is larger (`handlerlog.go:28-31`).  If the last line is larger,
  `trimLinesToBytes` returns all lines and not only that one (line 48).
* `idle_grace`: the callback of a timer that fired just before a client came back
  stops the loop as soon as that client has left, against the comment at 15-17.
  The next client waits for the old loop and starts a new one: no client is
  harmed, which is what `ServedOrStarting` and `Served` say.

**Observations.**  Smaller things met on the way.  Where a property has an
exception, it is one of these.

* When the initial fetch of a stream fails the handler logs that it sends degraded data
  (`handlerstats.go:169`) but sends an empty payload with `Degraded` false (171).
* After a fetch in which only `QueryStats` failed the next rate takes the whole counter
  for new traffic (`handlerstats.go:273`; the exception in `RateExplained`).
* A result on its way into a cache when a switch clears it is stored all the same
  (the exception in `SwitchReflected`); a failed health status that the second look at
  the cache finds is stored again with the long time to live (`handlerhealth.go:43`).
* `SlidingBound` is twice the limit, not the limit: all requests at the end of one
  window and, as the weight of the older falls, again in the next.  It counts what has
  been accepted since the address was last forgotten: an eviction (`ratelimit.go:87`)
  lets it start afresh, and what it gains by that is not bounded by any property.
* `waitForReconnect` reads the state twice (`server.go:184`): if the connection comes
  up in between, it waits for a change that does not come, until its timeout.
* A polling that is in the middle of a round when it should stop arms itself again
  (`network.js:160`; the exception in `OnePolling`).  It ends by its rounds.
* The page may ask for a switch although the server would choose the same node: if two
  nodes are equally fast, if the server chose from older statuses of its cache or without
  knowing the excluded tags, or if `/api/current-outbound` failed, which counts as
  automatic even with an override set (`network.js:69-74`).  These are the exceptions in
  `PromptJustified`; it says that there is no other.
* A tag that the page lists may be refused by `validateOutboundTag`
  (`handleroutbound.go:291-305`): Xray accepts tags with other characters.
* `Logger` runs inside `Recovery`, so it logs 200 for a request that panics
  (`logger.go:57`); an entry of `allowed_origins` with a trailing slash never matches
  (`cors.go:58`); a preflight request without credentials is answered 401 by `BasicAuth` and
  counted by `noCredLimiter`.
* The configuration file is not written atomically (`config.go:217`): a crash, or a write
  that fails while the process goes on with the defaults, may leave a beginning of it.
  Whole lines of it do no harm, since what is missing has its default; a value that is cut
  short may be a legal one, and the next start then takes another configuration, or
  refuses the file (the exception in `RestartAgrees`).

## 5. The proofs

Every safety property that a passing run checks is also a theorem, for every value of the
constants that satisfies the assumptions.  The assumptions are named where the constants
are declared, and TLC evaluates them in the runs; each is mentioned below with the theorems
that rest on it.

### Broadcaster

`BroadcasterProofs` proves, for every set of calls, payloads, capacity, threshold
and number of ticks, under `BroadcasterAssumption` (nil is not a call or a payload,
the degraded payload is not a fetched one, capacity and threshold are positive):

* `TypeCorrect`: `Spec => []TypeOK`, with the capacity of the channels;
* `InvCorrect`: `Spec => []IInv`; and from it
* `OneLoop`, `SendsAreSafe`, `StopChClosedOnce`, `StopIsFinal`,
  `SubscribersServed`, `IdleLoopsTimed`: the invariants of the `broadcaster` run, and that
  a loop without clients has a timer that will end it.

**The argument.**  None of these properties is inductive alone.  That a `Subscribe`
may start a loop when `<-done` returns is safe only because the loop it waits for
is the newest one (`LoopsInv`: a live loop is `loopDone`), because nobody else can
be in the same place (`CallsInv`: a waiting call is registered, so nobody finds the
broadcaster empty; at most one call waits), and because `Stop` cannot have passed
unnoticed (`StopInv`: the generation is 1 exactly when stopped, and a waiting call
remembers 0).  That `Stop` may close the channels is safe because the loop it waited
for is still the newest (`StopInv`) and a loop that is not live has nothing left to
send (`LoopsInv`).  That no closed channel is sent to needs in addition that a
closed channel belongs to a call that has been made and that closing begins with
`Stop` (`ChannelsInv`).  `InvStep` has one step per action and under it one per
conjunct the action can disturb.

**The refinement.**  `FeedInit` and `FeedStep` show that the first state maps to the first
state of `Feed`, and each action to one of its steps or to a stutter.  That the mapped
`Send` is a step of `Feed` needs that the payload is later than everything its receiver
was sent, which no invariant of the run says.  `OrderInv` does: the loop that has
taken a tick works for the latest one, and whoever it has still to send to was sent
nothing of that tick.

### StatsStream

`StatsStreamProofs` proves, for every set of requests and every limit of the manager:

* `SlotsAccounted` (`SlotAccounting`), `AllCancelled` (`CancelledAfterCloseAll`) and
  `OnlyHoldersSubscribed` (`SubscribedOnlyWhileHeld`);
* `StreamTypes`: the type invariant of the composition;
* `UpdatesKept` (`NoLostUpdate`);
* `StreamRunsBroadcaster`: `SSSpec => Spec`.  Whatever the handlers and `main` do, they use
  the broadcaster by its operations alone.  So its theorems hold in the composition:
  `StreamImplementsFeed` and `StreamChannelsSafe` are the two that matter most there.

The assumptions are `StatsStreamAssumption` (there is at least one slot) and the
broadcaster's. The first three follow from the invariant `SlotsInv`, which needs nothing
of the broadcaster's: a handler gets a slot only through `Add` before `CloseAll` and
keeps it until its deferred function; only the caller of `Subscribe`, who holds a slot,
is ever registered; and `NotSubscribed` carries the subscription over the last stretch,
from `Unsubscribe` (or from a panic in `Subscribe`, which has unregistered the channel
already) to `Remove`.  That the slots never exceed the limit is `SlotLimit`, which rests
on the facts about cardinality of `FiniteSetTheorems`.

`UpdatesKept` has the invariant `StreamInv`.  Its part `UpdateInv` says of every subscribed
handler that is past its initial event, and whose channel was never full, that the latest
broadcast is `Covered`: it was the initial event, or it or a later payload was sent into the
channel, or a loop is about to send it.  The case that makes this hard is a subscription
while a broadcast runs: the loop stores `lastBroadcast` first and then takes the channels
(`Snapshot`), so a handler that reads the old value is in the snapshot, because it
subscribed before it read.  That the handler is covered by what the loop sends needs
`OrderInv` (the payload in hand is the latest) and `BroadcastInv` (only a loop that is
sending has channels left).

### The caches

`ServerCachesProofs` proves, for any number of requests, any times to live, any clock
and any behaviour of Xray, under `CachesAssumption`:

* `SwitchIsReflected`, `StatusesOnlyAdvance`, `OnlySwitchOrExpiryEmpties` (the three
  properties of `caches`) and `CachesTypes`.

They follow from `CachesInv`.  `FlightsInv` says who leads and who waits: a call under
way belongs to the one request its group's key names, so at most one call per group is
ever between Xray's answer and the cache; callers wait for calls of their own group.
`SwitchInv` extends `SwitchReflected` from the cache back along the way into it (calls
that have returned, callers about to write).  `StatusInv` orders the epochs: what was
shown, then what the cache holds, then what the call under way brings.  `EmptyInv` says
that a stored result stays valid until it is cut off, `AgeInv` that who finds an expired
entry has waited out its time to live, and `KindInv` keeps the handlers apart. `OwnStep` deals with the steps that touch only one request, `LandKeeps`
with the return of a call, `InvalidateKeeps` with both invalidations; then there is one
lemma per action.

### The rates

`StatsRatesProofs` proves, for any traffic, number of ticks and threshold, under
`RatesAssumption`: `RatesExplained`, `UnmarkedTrue`, `RecoveriesAnnounced` (the three
properties of `stats_rates`) and `RatesTypes`.  The invariant `RatesInv` adds to the
properties that since the last snapshot the counter has gained no more than was carried,
restarts included (`TrafficInv`), and that the newest good payload has the uptime of the
newest tick, so that the next one cannot be taken for a repetition (`UptimeInv`).

### The limiters and the chain

`RequestChainProofs` proves, for any addresses, limits, windows and number of concurrent
requests, under `RateLimiterAssumption` and `ChainAssumption` (positive limits and
windows, finitely many addresses and goroutines): `SlidingCorrect`, `RefusalsJustified`,
`BlocksJustified`, `AttemptsCorrect`, `TablesCorrect` and `BlocksKept`, which are the
six properties of `request_chain`.  They follow from `ChainInvariant`, whose parts are

* `RateInv`: what the counters of a tracked address say of the history of its
  acceptances (`WindowInv`), and that an address that is not tracked had none for a
  window (`QuietInv`).  The counters bound the history from both sides: from above for
  `SlidingBound`, from below for `RefusedJustly`.  The bounds hold at the three ends
  that matter (the current window, with the one before, with the one before that), and
  each of rotation by one window, rotation by two, count, tick and eviction keeps them.
* `RateAges` and the conjunct on `lastAttempt` in `EntryInv`: the age of an entry is
  bounded by its window and the time since the last cleanup (`Elapsed`).
* `EntryInv`: an entry is blocked exactly when it has reached the limit, and by failures
  of its own address.
* `PendingInv`: attempts and the requests between check and record together stay below
  the limit plus the number of goroutines.  `AttemptsBounded` alone is not inductive,
  since the check of one request says nothing of those already past it.

Sums over the history are a recursive function of the model (`Since`); `SumsExist` shows
that it is defined, `SinceLess`, `SinceBump` and `SinceFalls` how it changes.

### The log readers

`LogTailProofs` proves, for any log that grows, any requests, limits and rings, under
`LogTailAssumption` (a default number of lines within the cap, a positive byte limit as
`ValidateConfig` demands, a ring for every reader): `TailsExact` and `SearchesCut`, the
two properties of `logs`, from `LogInvariant`.  For each request `ReaderOk` says where
it is:

* before a reader is chosen, the number of lines is legal and the search is cut (`Asked`);
* in a scan of the file the ring holds, in the order given by its position, the last lines
  to be kept of those scanned (`Scanned`, `RingHolds`), whatever it held before;
* in a walk through the journal, what is to be kept of the whole is what is to be kept of
  the entries not yet read, followed by the reversal of what was read (`Walked`);
* an answer is the `Fitted` tail of what is kept (`Answered`).

Scans have rings of their own, which are not in the pool; this is what makes the second
part hold when two requests interleave.  The log may grow in between: `KeptStays` says
that what is kept of a beginning does not change.  `TrimFits` shows that
`TrimLinesToBytes`, which adds up sizes from the end, is `Fitted`, which is defined by
the most lines that fit. `TruncateIsMax` shows that `truncateSearch`, which takes off
runes or single bytes from the end, stops at the longest prefix that is valid and fits:
a prefix that ends within a rune is not UTF-8 (`WithinRune`), so nothing is missed by
taking off a rune at a time.

### The page

`BrowserProofs` proves, for every list of outbounds, any statuses and any number of
calls that overlap, under `BrowserAssumption`, `XrayAssumption` (Xray has one outbound
per tag and observes those it has; the alphabetical order knows every tag that is shown)
and `FirstFoundAssumption`: `PageNeverStuck`, `PollingStopped`, `PromptsJustified` and
the types (`BrowserTypes`).

* `Alive` is inductive with the types: the page is ready, or a call is under way, or a
  timer or the user will start one.
* `PollInv`: of the pollings that have not escaped only the one of `postInit` is armed.
* `PromptInv` says what a call `Knows`: the cache of the server holds no statuses older
  than those the server has chosen from, and the node it has chosen is the best one of
  those.  So the statuses the page compares with are the same or newer ones; if they are
  the same, `Agreement` says that `findBestNode` of the page and `findBestAvailableNode`
  of the server choose the same node, unless two are equally good.  The two are
  different programs on different data (the page sorts its list and looks up statuses;
  the server scans the statuses and skips the excluded tags), which is why the
  statement is worth a proof.

### The process and its stream

`DeploymentProofs` proves, for any content of the configuration file and any number of
starts and retries, under `LifecycleAssumption`, `UserFilesAssumption` (a user's file is
one the decoder accepts or one it rejects) and `StatsClientAssumption`: `RestartsAgree`
and `StreamAlone`, from `SiteInvariant`.  `LifeInv` adds that what is loaded is the
`Outcome` of the file as long as nobody touched it, also while the default is being
saved.  That a write which stops half way keeps this is `WriteStoppedKeeps`: it rests on
`WholeLinesAreDefault`, that any whole lines of the saved defaults are read as the
defaults, as is no file at all.  `TakeAgrees` then makes every load an agreement with the
one before.  `StreamInv` adds that only a source that is gone leaves a timer behind.

### What is only model-checked

The liveness properties: `StopReturns`, `SubscribeEnds`, `IdleLoopEnds`, `Served`,
`ShutdownDrains`, `SlotReleased`, `PollingEnds`, `MainProgresses`, `RecoveryReported`
and `StreamResumes`.  They rest on fairness, and the prover has no rules for `ENABLED`.
The three runs that end in a violation (`NoCloseTwice`, `IdleGraceHonoured`,
`BytesBounded`) refute their property by an example.

Recursive functions are proved about, although the library's induction theorems, which
take a predicate as a parameter, cannot be used.  Induction here is over a *set* of
numbers: a set that is not empty has a least element (`LeastNumber`, from `WFMin` and
`NatLessThanWellFounded`), so a set that holds 0 and is closed under successor has every
number (`SetInduction`, `InductionUpTo`).  A recursive definition is first shown to have
a solution (`RecursionExists`, `SumsExist`, `StepsExist`), by building up the set of the
numbers up to which there is one.

## 6. What is not modelled, and why

* The static file server is pure I/O; the simple handlers encode values as JSON; the
  status of an answer is not represented.
* `CheckOrigin` and `Recovery` keep no state: which requests they refuse or answer for a
  handler that panics is left out.
* Security headers and log lines change no state of the system.
* The browser's `LogManager` and the rendering: what is drawn, except for the questions
  put to the user.
* The generated gRPC code: a call is its outcome.
  Of gRPC's connection the states are modelled as the code uses them; `Connect`
  acts only on an idle connection.

Of the modelled parts:

* Broadcaster: real time (an idle timer fires at some time after it is armed; that it
  is 10 s is not represented), the delay between `go b.loop` and the loop's first
  instruction, and the values `enrichFn` computes, which are in `StatsRates`.
* Handler: the check for `http.Flusher`, which fails before anything is acquired, and
  the headers; panics of the handler other than the one in `Subscribe`; partial writes.
  The HTTP server is represented by what `main` relies on: `Shutdown` returns when no
  handler is running or its context expires.
* Limiters: the rounding of the floating-point weight at equality; cleanup loops that
  are late; a second start of a cleanup loop, which only tests make.
* Configuration: what makes a single value invalid; its tests enumerate the cases.

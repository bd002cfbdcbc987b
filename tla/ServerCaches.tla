---------------------------- MODULE ServerCaches ----------------------------
(***************************************************************************)
(* The three caches of the server and the requests that use them:          *)
(* server/handlerhealth.go and the status, current-outbound and switch     *)
(* handlers of server/handleroutbound.go.                                  *)
(*                                                                         *)
(* Each cache has a mutex, a time to live and a singleflight group that    *)
(* coalesces the gRPC calls behind it.  A critical section is one action;  *)
(* between two of them other requests run, and the switch handler          *)
(* invalidates two of the caches.                                          *)
(*                                                                         *)
(* What a call returns is abstracted to whether it succeeded and to how    *)
(* many changes Xray had gone through when it answered (its epoch).        *)
(***************************************************************************)
EXTENDS Integers, FiniteSets

CONSTANTS
  Reqs,           \* the requests of a behaviour, each made once
  None,           \* no request
  ObsTTL,         \* observatoryCacheTTL, also used for the excluded tags
  HealthTTL,      \* healthCacheTTL
  HealthFailTTL,  \* healthCacheFailTTL
  MaxTime,        \* bound on the clock
  MaxDrift        \* bound on the epoch up to which Xray changes by itself

ASSUME CachesAssumption ==
  /\ None \notin Reqs
  /\ ObsTTL \in Nat \ {0}
  /\ HealthTTL \in Nat
  /\ HealthFailTTL \in Nat
  /\ MaxTime \in Nat
  /\ MaxDrift \in Nat

VARIABLES
  now,      \* the clock
  epoch,    \* changes of Xray's state, by an override or by itself
  settled,  \* per cache, the latest epoch it was invalidated for
  cache,    \* the three caches
  key,      \* per singleflight group, the request whose call is under its key
  flight,   \* per request, the call it makes for its group
  req,      \* the requests
  shown     \* the newest epoch a status answer has shown

vars == <<now, epoch, settled, cache, key, flight, req, shown>>

\* The caches, named after their singleflight groups.
Groups == {"health", "obs", "excluded"}
Kinds == {"health", "status", "current", "switch"}

\* What a call returned.  raced: the cache was invalidated between the answer
\* and the use of the result.
Result == [epoch : Nat, ok : BOOLEAN, raced : BOOLEAN]
NoResult == [epoch |-> 0, ok |-> FALSE, raced |-> FALSE]

\* valid is FALSE for the zero value of the struct and for stale = true.
Entry == [valid : BOOLEAN, res : Result, at : Nat, ttl : Nat]
NoEntry == [valid |-> FALSE, res |-> NoResult, at |-> 0, ttl |-> 0]

\* A call of a group.  It runs on a background context: it ends with its answer,
\* its timeout or the shutdown, not with the request that has started it.
\* at: when the result was stored in the cache; cut: the cache was invalidated
\* after that.
Flight == [pc : {"none", "recheck", "calling", "returned", "stored"},
           res : Result, at : Nat, cut : BOOLEAN]
NoFlight == [pc |-> "none", res |-> NoResult, at |-> 0, cut |-> FALSE]

\* since: when the call the request waited for stored its result; cut: the cache
\* was invalidated between that and the request's look at it; floor: what had
\* been shown when the request began.
Request ==
  [kind : Kinds,
   pc : {"new", "info", "read", "do", "wait", "back", "write", "override",
         "clearHealth", "clearObs", "done"},
   group : Groups, on : Reqs \cup {None}, res : Result, since : Nat,
   cut : BOOLEAN, floor : Nat,
   answer : {"none", "data", "failed", "cleared", "expired", "error"}]
NewReq == [kind |-> "status", pc |-> "new", group |-> "obs", on |-> None,
           res |-> NoResult, since |-> 0, cut |-> FALSE, floor |-> 0,
           answer |-> "none"]

TypeOK ==
  /\ now \in Nat
  /\ epoch \in Nat
  /\ settled \in [Groups -> Nat]
  /\ cache \in [Groups -> Entry]
  /\ key \in [Groups -> Reqs \cup {None}]
  /\ flight \in [Reqs -> Flight]
  /\ req \in [Reqs -> Request]
  /\ shown \in Nat
  /\ \A g \in Groups : key[g] # None => flight[key[g]].pc # "none"

Init ==
  /\ now = 0
  /\ epoch = 0
  /\ settled = [g \in Groups |-> 0]
  /\ cache = [g \in Groups |-> NoEntry]
  /\ key = [g \in Groups |-> None]
  /\ flight = [r \in Reqs |-> NoFlight]
  /\ req = [r \in Reqs |-> NewReq]
  /\ shown = 0

\* handleHealthCheck compares with >, the other two with <.
Fresh(g) ==
  /\ cache[g].valid
  /\ \/ now - cache[g].at < cache[g].ttl
     \/ g = "health" /\ now - cache[g].at = cache[g].ttl

At(r, pc) == req[r].pc = pc
Later(m, n) == IF m > n THEN m ELSE n

-----------------------------------------------------------------------------
(* Requests *)

\* A request enters its handler.  A body or a tag that handleSwitchOutbound
\* rejects changes nothing.
Begin(r, k) ==
  /\ At(r, "new")
  /\ req' = [req EXCEPT ![r].kind = k,
                        ![r].pc = CASE k = "switch" -> "override"
                                    [] k = "current" -> "info"
                                    [] OTHER -> "read",
                        ![r].group = IF k = "health" THEN "health" ELSE "obs",
                        ![r].floor = shown]
  /\ UNCHANGED <<now, epoch, settled, cache, key, flight, shown>>

\* handleGetCurrentOutbound: GetBalancerInfo fails, names an override, or
\* leaves the choice to findBestAvailableNode.
BalancerInfo(r) ==
  /\ At(r, "info")
  /\ \/ \E a \in {"error", "data"} :
          req' = [req EXCEPT ![r].pc = "done", ![r].answer = a]
     \/ req' = [req EXCEPT ![r].pc = "read"]
  /\ UNCHANGED <<now, epoch, settled, cache, key, flight, shown>>

\* The request has what it asked the cache for.  findBestAvailableNode goes
\* on to the excluded tags when the list of statuses is not empty.
Obtain(r, res, answer) ==
  /\ req' = [req EXCEPT ![r] =
       IF @.kind = "current" /\ @.group = "obs" /\ answer = "data"
       THEN [@ EXCEPT !.pc = "read", !.group = "excluded", !.res = res]
       ELSE [@ EXCEPT !.pc = "done", !.res = res, !.answer = answer]]
  /\ shown' = IF req[r].group = "obs" /\ answer = "data"
              THEN Later(res.epoch, shown) ELSE shown

Outcome(res) == IF res.ok THEN "data" ELSE "failed"

\* The first look at the cache.
Read(r) ==
  /\ At(r, "read")
  /\ LET g == req[r].group IN
     \/ /\ Fresh(g)
        /\ Obtain(r, cache[g].res, Outcome(cache[g].res))
     \/ /\ ~Fresh(g)
        /\ req' = [req EXCEPT ![r].pc = "do"]
        /\ UNCHANGED shown
  /\ UNCHANGED <<now, epoch, settled, cache, key, flight>>

\* A mistake that makes a property fail (see the README): callers are not
\* coalesced.
BugLeads(r) == TRUE
Leads(r) == key[req[r].group] = None

\* Group.Do: the first caller starts the call, the others join it.
Do(r) ==
  /\ At(r, "do")
  /\ LET g == req[r].group
         leader == IF Leads(r) THEN r ELSE key[g] IN
     /\ req' = [req EXCEPT ![r].pc = "wait", ![r].on = leader]
     /\ key' = [key EXCEPT ![g] = leader]
     /\ flight' = IF leader = r
                  THEN [flight EXCEPT ![r].pc = IF g = "health" THEN "recheck"
                                                ELSE "calling"]
                  ELSE flight
  /\ UNCHANGED <<now, epoch, settled, cache, shown>>

\* After Do, getAllOutboundStatuses and buildExcludedTags read the cache.
ReadBack(r) ==
  /\ At(r, "back")
  /\ LET g == req[r].group IN
     \/ /\ Fresh(g)
        /\ Obtain(r, cache[g].res, Outcome(cache[g].res))
     \/ /\ ~Fresh(g)
        /\ Obtain(r, NoResult, IF cache[g].valid THEN "expired" ELSE "cleared")
  /\ UNCHANGED <<now, epoch, settled, cache, key, flight>>

\* After Do, every caller of handleHealthCheck writes the cache.  err is not
\* nil only for the callers of a probe that failed.
WriteHealth(r) ==
  /\ At(r, "write")
  /\ cache' = [cache EXCEPT !["health"] =
                 [valid |-> TRUE, res |-> req[r].res, at |-> now,
                  ttl |-> IF req[r].answer = "error" THEN HealthFailTTL
                          ELSE HealthTTL]]
  /\ req' = [req EXCEPT ![r].pc = "done", ![r].answer = Outcome(req[r].res)]
  /\ UNCHANGED <<now, epoch, settled, key, flight, shown>>

-----------------------------------------------------------------------------
(* The function a singleflight group runs, in the goroutine of request r *)

Forget(r, g) == [key EXCEPT ![g] = IF @ = r THEN None ELSE @]

\* The function returns: Do forgets the call and releases its callers, which
\* go on to ReadBack, or to WriteHealth with the result.
Land(r, g, res, err) ==
  /\ key' = Forget(r, g)
  /\ flight' = [flight EXCEPT ![r] = NoFlight]
  /\ req' = [q \in Reqs |->
       IF ~(At(q, "wait") /\ req[q].on = r) THEN req[q]
       ELSE IF g = "health"
            THEN [req[q] EXCEPT !.pc = "write", !.on = None, !.res = res,
                                !.answer = IF err THEN "error" ELSE "none"]
            ELSE [req[q] EXCEPT !.pc = "back", !.on = None,
                                !.since = flight[r].at, !.cut = flight[r].cut]]
  /\ UNCHANGED <<now, epoch, settled, cache, shown>>

\* handleHealthCheck looks at the cache again before it probes, and returns
\* the status it finds, without an error.
Recheck(r) ==
  /\ flight[r].pc = "recheck"
  /\ \/ /\ Fresh("health")
        /\ Land(r, "health", cache["health"].res, FALSE)
     \/ /\ ~Fresh("health")
        /\ flight' = [flight EXCEPT ![r].pc = "calling"]
        /\ UNCHANGED <<now, epoch, settled, cache, key, req, shown>>

\* GetSysStats, GetOutboundStatus or ListOutbounds is answered, or fails: its
\* context expires, at the latest.
XrayAnswers(r) ==
  /\ flight[r].pc = "calling"
  /\ \E ok \in BOOLEAN :
       flight' = [flight EXCEPT ![r] =
         [@ EXCEPT !.pc = "returned",
                   !.res = [epoch |-> epoch, ok |-> ok, raced |-> FALSE]]]
  /\ UNCHANGED <<now, epoch, settled, cache, key, req, shown>>

\* updateObsCache, updateExcludedTagsCache: also when the call has failed.
Store(r) ==
  /\ flight[r].pc = "returned"
  /\ req[r].group # "health"
  /\ cache' = [cache EXCEPT ![req[r].group] =
                 [valid |-> TRUE, res |-> flight[r].res, at |-> now,
                  ttl |-> ObsTTL]]
  /\ flight' = [flight EXCEPT ![r].pc = "stored", ![r].at = now]
  /\ UNCHANGED <<now, epoch, settled, key, req, shown>>

\* A mistake: the callers may be released before the result is stored.
BugReturned(r) == flight[r].pc \in {"returned", "stored"}
Returned(r) ==
  flight[r].pc = IF req[r].group = "health" THEN "returned" ELSE "stored"

Return(r) ==
  /\ Returned(r)
  /\ Land(r, req[r].group, flight[r].res, ~flight[r].res.ok)

-----------------------------------------------------------------------------
(* handleSwitchOutbound *)

\* A mistake: the caches are cleared before the override is made.
BugOverride(r) ==
  /\ At(r, "override")
  /\ epoch' = epoch
  /\ req' = [req EXCEPT ![r].pc = "clearHealth", ![r].res.epoch = epoch + 1]
  /\ UNCHANGED <<now, settled, cache, key, flight, shown>>

\* OverrideBalancerTarget succeeds, fails, or takes effect although its answer
\* is lost; the last two look the same to the handler.
Override(r) ==
  /\ At(r, "override")
  /\ \/ /\ epoch' = epoch + 1
        /\ req' = [req EXCEPT ![r].pc = "clearHealth",
                              ![r].res.epoch = epoch + 1]
     \/ /\ epoch' \in {epoch, epoch + 1}
        /\ req' = [req EXCEPT ![r].pc = "done", ![r].answer = "error"]
  /\ UNCHANGED <<now, settled, cache, key, flight, shown>>

\* Cache g is invalidated by r, which goes on as next; the results on their
\* way into the cache are marked.
Invalidate(g, r, next) ==
  /\ cache' = [cache EXCEPT ![g] = NoEntry]
  /\ settled' = [settled EXCEPT ![g] = Later(req[r].res.epoch, @)]
  /\ flight' = [q \in Reqs |->
       IF req[q].group # g THEN flight[q]
       ELSE [flight[q] EXCEPT !.res.raced = @ \/ flight[q].pc = "returned",
                              !.cut = flight[q].pc = "stored"]]
  /\ req' = [q \in Reqs |->
       IF q = r THEN next
       ELSE IF req[q].group # g THEN req[q]
       ELSE [req[q] EXCEPT !.res.raced = @ \/ At(q, "write"),
                           !.cut = @ \/ At(q, "back")]]
  /\ UNCHANGED <<now, epoch, key, shown>>

ClearHealth(r) ==
  /\ At(r, "clearHealth")
  /\ Invalidate("health", r, [req[r] EXCEPT !.pc = "clearObs"])

ClearObs(r) ==
  /\ At(r, "clearObs")
  /\ Invalidate("obs", r, [req[r] EXCEPT !.pc = "done", !.answer = "data"])

-----------------------------------------------------------------------------

Tick ==
  /\ now < MaxTime
  /\ now' = now + 1
  /\ UNCHANGED <<epoch, settled, cache, key, flight, req, shown>>

\* A node is found dead or alive, without any request.
Drift ==
  /\ epoch < MaxDrift
  /\ epoch' = epoch + 1
  /\ UNCHANGED <<now, settled, cache, key, flight, req, shown>>

Step(r) ==
  \/ \E k \in Kinds : Begin(r, k)
  \/ BalancerInfo(r)
  \/ Read(r)
  \/ Do(r)
  \/ ReadBack(r)
  \/ WriteHealth(r)
  \/ Recheck(r)
  \/ XrayAnswers(r)
  \/ Store(r)
  \/ Return(r)
  \/ Override(r)
  \/ ClearHealth(r)
  \/ ClearObs(r)

AllAnswered == \A r \in Reqs : At(r, "done")
Finished == AllAnswered /\ UNCHANGED vars

Next == Tick \/ Drift \/ Finished \/ \E r \in Reqs : Step(r)

Spec == Init /\ [][Next]_vars

-----------------------------------------------------------------------------
(* Properties *)

\* What the health and observatory caches hold was read from Xray after the
\* latest override they were invalidated for, unless the result was on its way
\* into the cache when the cache was invalidated (handleroutbound.go:273-281).
SwitchReflected ==
  \A g \in {"health", "obs"} :
    cache[g].valid /\ ~cache[g].res.raced => cache[g].res.epoch >= settled[g]

\* The statuses never go back: a request that begins after another was answered
\* is not shown an older state of Xray, although answers come from a cache that
\* is filled by whoever leads the call (getAllOutboundStatuses).
StatusesNeverGoBack ==
  \A r \in Reqs :
    At(r, "done") /\ req[r].kind = "status" /\ req[r].answer = "data"
      => req[r].res.epoch >= req[r].floor

\* A caller of getAllOutboundStatuses or buildExcludedTags finds no data after
\* its call has returned only if a switch has cleared the cache since the result
\* of that call was stored, or the result has outlived its time to live
\* (handleroutbound.go:226-232, 381-387).
EmptyOnlyClearedOrExpired ==
  \A r \in Reqs :
    /\ req[r].answer = "cleared" => req[r].cut
    /\ req[r].answer = "expired" => now - req[r].since >= ObsTTL

=============================================================================

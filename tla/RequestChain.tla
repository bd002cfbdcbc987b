---------------------------- MODULE RequestChain ----------------------------
(***************************************************************************)
(* The way of a request through the middleware main.go puts around the     *)
(* handlers (126-131): Recovery, Logger, SecurityHeaders, BasicAuth,       *)
(* RateLimit, then the mux.  Requests run concurrently; each limiter has a *)
(* mutex, and what a request does between two of their critical sections   *)
(* interleaves with the others and with the two cleanup goroutines.  The   *)
(* statuses of the answers, and what the mux makes of an accepted request, *)
(* are left out.                                                           *)
(***************************************************************************)
EXTENDS RateLimiter

CONSTANTS
  Proxy,            \* the address of the reverse proxy
  Reqs,             \* concurrent requests (goroutines of the HTTP server)
  TrustProxy,       \* server.trust_proxy_headers
  FailLimit, BlockWindow,      \* authLimiter
  NoCredLimit, NoCredWindow,   \* noCredLimiter
  CleanupInterval,  \* interval of the cleanup loops (2 minutes)
  MaxRequests       \* bound on the requests of a behaviour

ASSUME ChainAssumption ==
  /\ Proxy \in Addrs
  /\ "" \notin Addrs
  /\ IsFiniteSet(Reqs)
  /\ TrustProxy \in BOOLEAN
  /\ FailLimit \in Nat \ {0}
  /\ NoCredLimit \in Nat \ {0}
  /\ BlockWindow \in Nat \ {0}
  /\ NoCredWindow \in Nat \ {0}
  /\ CleanupInterval \in Nat \ {0}
  /\ MaxRequests \in Nat

VARIABLES
  authStates,    \* authLimiter.states
  noCredStates,  \* noCredLimiter.states
  req,           \* per goroutine, the request it serves
  due,           \* the cleanup loops whose ticker has fired
  made,          \* requests made so far
  failures       \* history: failures of each client, up to FailLimit

vars == <<now, requests, accepted, authStates, noCredStates, req, due, made,
          failures>>

Auth == INSTANCE AuthLimiter WITH states <- authStates
NoCred == INSTANCE AuthLimiter WITH states <- noCredStates,
            FailLimit <- NoCredLimit, BlockWindow <- NoCredWindow

\* A request: who sends it, what the connection and X-Real-IP (or the first
\* address of X-Forwarded-For) say, its credentials, and where it is.
Request ==
  [client : Addrs, remote : Addrs, realIP : Addrs \cup {""},
   creds : {"good", "wrong", "none"},
   pc : {"idle", "noCred", "recordNoCred", "record", "rate"}]
Idle == [client |-> Proxy, remote |-> Proxy, realIP |-> "", creds |-> "none",
         pc |-> "idle"]

TypeOK ==
  /\ RateTypeOK
  /\ Auth!StatesOK
  /\ NoCred!StatesOK
  /\ req \in [Reqs -> Request]
  /\ due \subseteq {"rate", "auth"}
  /\ made \in 0..MaxRequests
  /\ failures \in [Addrs -> Nat]

Init ==
  /\ now = 0
  /\ RateInit
  /\ Auth!NoStates
  /\ NoCred!NoStates
  /\ req = [r \in Reqs |-> Idle]
  /\ due = {}
  /\ made = 0
  /\ failures = [a \in Addrs |-> 0]

\* clientIP: the headers count only when the proxy is trusted.
ClientIP(q, trust) == IF trust /\ q.realIP # "" THEN q.realIP ELSE q.remote

\* A mistake: BasicAuth wraps Logger, and ClientIPFromContext falls back to
\* clientIP(r, false).
BugAuthAddr(q) == ClientIP(q, FALSE)
\* ClientIPFromContext: Logger has put the address into the context.
AuthAddr(q) == ClientIP(q, TrustProxy)

\* The answer is written and logged, whatever it is and whether or not its body
\* can be encoded, and the goroutine serves another request.
Answer(r) == req' = [req EXCEPT ![r] = Idle]

-----------------------------------------------------------------------------
\* A request of client c, sent through the proxy if one is trusted; the proxy
\* sends requests of its own, without the headers.
Incoming(c, creds) ==
  [client |-> c, remote |-> IF TrustProxy THEN Proxy ELSE c,
   realIP |-> IF TrustProxy /\ c # Proxy THEN c ELSE "", creds |-> creds,
   pc |-> "idle"]

\* A request passes Recovery, Logger and SecurityHeaders, and BasicAuth up to
\* and including the comparison of the credentials.
Arrive(r, c, creds) ==
  LET q == Incoming(c, creds) IN
  /\ req[r].pc = "idle"
  /\ made < MaxRequests
  /\ made' = made + 1
  /\ \/ /\ Auth!IsAuthBlocked(AuthAddr(q))
        /\ Answer(r)
     \/ /\ Auth!NotBlocked(AuthAddr(q))
        /\ req' = [req EXCEPT ![r] = [q EXCEPT !.pc =
                     CASE creds = "none" -> "noCred"
                       [] creds = "wrong" -> "record"
                       [] creds = "good" -> "rate"]]
  /\ UNCHANGED <<now, requests, accepted, noCredStates, due, failures>>

CheckNoCred(r) ==
  /\ req[r].pc = "noCred"
  /\ \/ NoCred!IsAuthBlocked(AuthAddr(req[r])) /\ Answer(r)
     \/ NoCred!NotBlocked(AuthAddr(req[r])) /\ req' = [req EXCEPT ![r].pc = "recordNoCred"]
  /\ UNCHANGED <<now, requests, accepted, authStates, due, made, failures>>

RecordNoCred(r) ==
  /\ req[r].pc = "recordNoCred"
  /\ NoCred!RecordAuthFailure(AuthAddr(req[r]))
  /\ Answer(r)
  /\ UNCHANGED <<now, requests, accepted, authStates, due, made, failures>>

RecordFailure(r) ==
  /\ req[r].pc = "record"
  /\ Auth!RecordAuthFailure(AuthAddr(req[r]))
  /\ failures' = [failures EXCEPT ![req[r].client] = IF @ < FailLimit THEN @ + 1 ELSE @]
  /\ Answer(r)
  /\ UNCHANGED <<now, requests, accepted, noCredStates, due, made>>

\* What is accepted goes on to the mux: CheckOrigin, a handler or the files, and
\* Recovery if that panics; none of them touches the state of the limiters.
RateLimit(r) ==
  /\ req[r].pc = "rate"
  /\ LET a == ClientIP(req[r], TrustProxy) IN
     \/ Accept(a) /\ Answer(r)
     \/ Refuse(a) /\ Answer(r)
  /\ UNCHANGED <<now, authStates, noCredStates, due, made, failures>>

-----------------------------------------------------------------------------
\* The tickers of the cleanup loops; a loop runs before time moves on.
Tick ==
  /\ now < MaxTime
  /\ due = {}
  /\ now' = now + 1
  /\ Forget(now + 1)
  /\ due' = IF now' % CleanupInterval = 0 THEN {"rate", "auth"} ELSE {}
  /\ UNCHANGED <<authStates, noCredStates, req, made, failures>>

CleanRate ==
  /\ "rate" \in due
  /\ CleanupStaleKeys
  /\ due' = due \ {"rate"}
  /\ UNCHANGED <<now, authStates, noCredStates, req, made, failures>>

CleanAuth ==
  /\ "auth" \in due
  /\ Auth!CleanupRateLimiter
  /\ NoCred!CleanupRateLimiter
  /\ due' = due \ {"auth"}
  /\ UNCHANGED <<now, requests, accepted, req, made, failures>>

Over == now = MaxTime /\ due = {} /\ UNCHANGED vars

Next ==
  \/ \E r \in Reqs :
       \/ \E c \in Addrs, k \in {"good", "wrong", "none"} : Arrive(r, c, k)
       \/ CheckNoCred(r) \/ RecordNoCred(r) \/ RecordFailure(r) \/ RateLimit(r)
  \/ Tick \/ CleanRate \/ CleanAuth \/ Over

Spec == Init /\ [][Next]_vars

-----------------------------------------------------------------------------
(* Properties *)

\* A client is blocked only for its own failures, FailLimit of them, also when
\* all clients share the address of a trusted proxy (auth.go:25, logger.go:51).
BlockedJustly ==
  \A a \in Addrs : Auth!HasBlock(a) => failures[a] >= FailLimit

\* The check and the record of a failure are two critical sections: requests
\* that passed the check before the block are still counted, so the attempts
\* exceed the limit, but by less than the number of concurrent requests.
AttemptsBounded ==
  \A a \in DOMAIN authStates :
    authStates[a].attempts < FailLimit + Cardinality(Reqs)

\* A block lasts blockWindow from the failure that set it: late failures do not
\* prolong it, cleanup does not cut it short, only the first failure of another
\* address does, when the table is full.
BlockKept ==
  [][\A a \in Addrs : Auth!Blocked(a) =>
       \/ /\ a \in DOMAIN authStates'
          /\ authStates'[a].blockedAt = authStates[a].blockedAt
       \/ /\ a \notin DOMAIN authStates'
          /\ Cardinality(DOMAIN authStates) >= MaxTracked
          /\ ~(DOMAIN authStates' \subseteq DOMAIN authStates)]_vars

\* The three tables are well formed, none outgrows maxTrackedIPs, and the cleanup
\* loops bound the age of what they hold: failures further apart than blockWindow
\* and the interval are never added up.
TablesBounded ==
  /\ TypeOK
  /\ Cardinality(Tracked) <= MaxTracked
  /\ Cardinality(DOMAIN authStates) <= MaxTracked
  /\ Cardinality(DOMAIN noCredStates) <= MaxTracked
  /\ \A a \in Tracked : now - requests[a].windowStart <= 2 * Window + CleanupInterval
  /\ \A a \in DOMAIN authStates :
       now - authStates[a].lastAttempt < BlockWindow + CleanupInterval

=============================================================================

---------------------------- MODULE RateLimiter ----------------------------
(***************************************************************************)
(* middleware/ratelimit.go: a sliding-window counter per client address    *)
(* over integer time, in a table of bounded size.  checkAndRecord,         *)
(* cleanupStaleKeys and evictOldest run under the limiter's mutex.         *)
(***************************************************************************)
EXTENDS Integers, FiniteSets, Functions

CONSTANTS
  Addrs,       \* client addresses
  Limit,       \* rateLimiter.limit (100 in the code)
  Window,      \* rateLimiter.window (a minute)
  MaxTracked,  \* maxTrackedIPs (10000)
  MaxTime      \* bound on the clock

ASSUME RateLimiterAssumption ==
  /\ Limit \in Nat \ {0}
  /\ Window \in Nat \ {0}
  /\ MaxTracked \in Nat \ {0}
  /\ MaxTime \in Nat
  /\ IsFiniteSet(Addrs)

VARIABLES
  now,       \* the clock
  requests,  \* address -> slidingWindow, for the addresses tracked
  accepted   \* history: per address, the requests accepted at each time of
             \* the last three windows, since it was last evicted

rateVars == <<requests, accepted>>

SlidingWindow == [prevCount : Nat, currCount : Nat, windowStart : Nat]
Tracked == DOMAIN requests
NewWindow == [prevCount |-> 0, currCount |-> 1, windowStart |-> now]
Put(f, x, v) == [y \in DOMAIN f \cup {x} |-> IF y = x THEN v ELSE f[y]]

RateTypeOK ==
  /\ now \in Nat
  /\ Tracked \subseteq Addrs
  /\ requests \in [Tracked -> SlidingWindow]
  /\ accepted \in [Addrs -> [0..MaxTime -> Nat]]

RateInit ==
  /\ requests = [a \in {} |-> NewWindow]
  /\ accepted = [a \in Addrs |-> [t \in 0..MaxTime |-> 0]]

\* elapsed > window: the current count becomes the previous one and the window
\* advances by whole windows.
Rotate(sw) ==
  LET elapsed == now - sw.windowStart IN
  IF elapsed > Window
  THEN [prevCount |-> sw.currCount, currCount |-> 0,
        windowStart |-> sw.windowStart + Window * (elapsed \div Window)]
  ELSE sw

\* A mistake: nothing is refused.
BugAtLimit(sw) == FALSE
\* effective >= limit, with both sides multiplied by the window.
AtLimit(sw) ==
  sw.prevCount * (Window - (now - sw.windowStart)) + sw.currCount * Window
    >= Limit * Window

\* A mistake: an old window is carried over whatever its age.
BugStale(a) == FALSE
Stale(a) == now - requests[a].windowStart > 2 * Window

\* evictOldest: map iteration decides among equally old entries.
Oldest == {a \in Tracked : \A b \in Tracked :
             requests[a].windowStart <= requests[b].windowStart}

Record(a) == accepted' = [accepted EXCEPT ![a][now] = @ + 1]

\* checkAndRecord returns true.
TrackNew(a) ==
  /\ a \notin Tracked
  /\ \/ /\ Cardinality(Tracked) < MaxTracked
        /\ requests' = Put(requests, a, NewWindow)
        /\ Record(a)
     \/ /\ Cardinality(Tracked) >= MaxTracked
        /\ \E v \in Oldest :
             /\ requests' = Put(Restrict(requests, Tracked \ {v}), a, NewWindow)
             /\ accepted' = [accepted EXCEPT
                               ![v] = [t \in 0..MaxTime |-> 0], ![a][now] = @ + 1]

StartOver(a) ==
  /\ a \in Tracked
  /\ Stale(a)
  /\ requests' = [requests EXCEPT ![a] = NewWindow]
  /\ Record(a)

Count(a) ==
  /\ a \in Tracked
  /\ ~Stale(a)
  /\ LET sw == Rotate(requests[a]) IN
     /\ ~AtLimit(sw)
     /\ requests' = [requests EXCEPT ![a] =
                       [sw EXCEPT !.currCount = sw.currCount + 1]]
  /\ Record(a)

Accept(a) == TrackNew(a) \/ StartOver(a) \/ Count(a)

\* checkAndRecord returns false; the rotation stays.
Refuse(a) ==
  /\ a \in Tracked
  /\ ~Stale(a)
  /\ AtLimit(Rotate(requests[a]))
  /\ requests' = [requests EXCEPT ![a] = Rotate(requests[a])]
  /\ UNCHANGED accepted

\* Time passes.
Forget(t) ==
  /\ accepted' = [a \in Addrs |-> [u \in 0..MaxTime |->
                    IF u < t - 3 * Window THEN 0 ELSE accepted[a][u]]]
  /\ UNCHANGED requests

CleanupStaleKeys ==
  /\ requests' = Restrict(requests, {a \in Tracked : ~Stale(a)})
  /\ UNCHANGED accepted

-----------------------------------------------------------------------------
(* Properties *)

\* Per time, how much of f lies there or later.
Since(f) ==
  LET from[u \in 0..MaxTime + 1] == IF u > MaxTime THEN 0 ELSE f[u] + from[u + 1]
  IN  from

\* Requests of address a accepted at time t or later.
AcceptedSince(a, t) == Since(accepted[a])[IF t < 0 THEN 0 ELSE t]

\* Whatever the alignment of the windows, at most twice the limit is accepted in
\* any stretch of one window, both ends included.  (The weight of the previous
\* window makes this rare, but cannot exclude it: checkAndRecord, 110-116.)  The
\* history of an address is erased when evictOldest drops it: what a client gets
\* by starting afresh in a full table is not bounded here.
SlidingBound == \A a \in Addrs : AcceptedSince(a, now - Window) <= 2 * Limit

\* checkAndRecord refuses only an address with limit accepted requests in the
\* last three windows.  (Two are not enough: at exactly two windows the count of
\* the older one is carried over, ratelimit.go:96-107.)
RefusedJustly ==
  \A a \in Tracked :
    ~Stale(a) /\ AtLimit(Rotate(requests[a]))
      => AcceptedSince(a, now - 3 * Window) >= Limit

=============================================================================

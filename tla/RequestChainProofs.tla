------------------------- MODULE RequestChainProofs -------------------------
(***************************************************************************)
(* Theorems about RequestChain and its limiters.  The properties of the    *)
(* rate limiter speak of sums over its history; the lemmas about sums are  *)
(* proved by induction over sets of times.                                 *)
(***************************************************************************)
EXTENDS RequestChain, WellFoundedInduction, FiniteSetTheorems, TLAPS

-----------------------------------------------------------------------------
(* Induction over a set of numbers *)

\* A set of numbers that is not empty has a least one.
LEMMA LeastNumber ==
  ASSUME NEW T, T \subseteq Nat, T # {}
  PROVE  \E x \in T : \A y \in T : ~(y < x)
<1> DEFINE R == OpToRel(<, Nat)
<1>1. IsWellFoundedOn(R, Nat)
  BY NatLessThanWellFounded
<1>2. \A x, y \in Nat : x < y => <<x, y>> \in R
  BY DEF OpToRel
<1> HIDE DEF R
<1>3. PICK x \in T : \A y \in T : ~(<<y, x>> \in R)
  BY <1>1, WFMin
<1> QED
  BY <1>2, <1>3

\* A set of numbers that has 0 and is closed under successor has them all.  (The
\* library's NatInduction takes a predicate; a set serves as well.)
LEMMA SetInduction ==
  ASSUME NEW T, T \subseteq Nat, 0 \in T, \A n \in T : n + 1 \in T
  PROVE  \A n \in Nat : n \in T
<1> SUFFICES ASSUME Nat \ T # {} PROVE FALSE
  OBVIOUS
<1>1. PICK x \in Nat \ T : \A y \in Nat \ T : ~(y < x)
  BY LeastNumber
<1>2. x - 1 \in Nat /\ x - 1 \notin Nat \ T
  BY <1>1
<1> QED
  BY <1>1, <1>2

-----------------------------------------------------------------------------
(* Sums of what was accepted *)

Times == 0..MaxTime
Sums(f, g) == \A u \in 0..MaxTime + 1 : g[u] = IF u > MaxTime THEN 0 ELSE f[u] + g[u + 1]

\* Downwards from the end of time.
LEMMA DownInduction ==
  ASSUME NEW T, MaxTime + 1 \in T, \A u \in Times : u + 1 \in T => u \in T
  PROVE  \A u \in 0..MaxTime + 1 : u \in T
<1> DEFINE U == {k \in Nat : k <= MaxTime + 1 => MaxTime + 1 - k \in T}
<1>0. MaxTime \in Nat
  BY RateLimiterAssumption
<1>1. 0 \in U
  BY <1>0
<1>2. \A n \in U : n + 1 \in U
  <2> SUFFICES ASSUME NEW n \in U, n + 1 <= MaxTime + 1 PROVE MaxTime + 1 - (n + 1) \in T
    OBVIOUS
  <2>1. MaxTime + 1 - n \in T /\ MaxTime - n \in Times /\ (MaxTime - n) + 1 = MaxTime + 1 - n
    BY <1>0 DEF Times
  <2> QED
    BY <2>1, <1>0
<1> HIDE DEF U
<1>3. \A n \in Nat : n \in U
  BY <1>1, <1>2, SetInduction DEF U
<1>4. ASSUME NEW u \in 0..MaxTime + 1 PROVE u \in T
  <2>1. MaxTime + 1 - u \in U /\ MaxTime + 1 - u <= MaxTime + 1
        /\ MaxTime + 1 - (MaxTime + 1 - u) = u
    BY <1>0, <1>3
  <2> QED
    BY <2>1 DEF U
<1> QED
  BY <1>4

\* The recursive definition of Since has a solution: one for the times from k on
\* extends to k - 1.
LEMMA SumsExist ==
  ASSUME NEW f \in [Times -> Nat]
  PROVE  \E g \in [0..MaxTime + 1 -> Nat] : Sums(f, g)
<1> DEFINE Upto(g, k) == \A u \in 0..MaxTime + 1 : u >= k =>
                           g[u] = IF u > MaxTime THEN 0 ELSE f[u] + g[u + 1]
           T == {k \in 0..MaxTime + 1 : \E g \in [0..MaxTime + 1 -> Nat] : Upto(g, k)}
<1>0. MaxTime \in Nat
  BY RateLimiterAssumption
<1>1. MaxTime + 1 \in T
  <2> DEFINE g == [u \in 0..MaxTime + 1 |-> 0]
  <2>1. g \in [0..MaxTime + 1 -> Nat] /\ Upto(g, MaxTime + 1)
    BY <1>0
  <2> QED
    BY <2>1, <1>0
<1>2. ASSUME NEW k \in Times, k + 1 \in T PROVE k \in T
  <2>1. PICK g \in [0..MaxTime + 1 -> Nat] : Upto(g, k + 1)
    BY <1>2
  <2> DEFINE h == [g EXCEPT ![k] = f[k] + g[k + 1]]
  <2>2. h \in [0..MaxTime + 1 -> Nat] /\ k \in 0..MaxTime + 1
    BY <1>0 DEF Times
  <2>3. Upto(h, k)
    BY <2>1, <1>0 DEF Times
  <2> QED
    BY <2>2, <2>3
<1> HIDE DEF T
<1>3. \A u \in 0..MaxTime + 1 : u \in T
  BY <1>1, <1>2, DownInduction
<1>4. PICK g \in [0..MaxTime + 1 -> Nat] : Upto(g, 0)
  BY <1>0, <1>3 DEF T
<1> QED
  BY <1>0, <1>4 DEF Sums

\* So Since(f) satisfies its recursive equation.
LEMMA SinceSums ==
  ASSUME NEW f \in [Times -> Nat]
  PROVE  /\ Sums(f, Since(f))
         /\ Since(f) \in [0..MaxTime + 1 -> Nat]
<1>0. MaxTime \in Nat
  BY RateLimiterAssumption
<1>1. PICK g \in [0..MaxTime + 1 -> Nat] : Sums(f, g)
  BY SumsExist
<1>2. g = [u \in 0..MaxTime + 1 |-> IF u > MaxTime THEN 0 ELSE f[u] + g[u + 1]]
  BY <1>1 DEF Sums
<1>3. Since(f) = [u \in 0..MaxTime + 1 |-> IF u > MaxTime THEN 0 ELSE f[u] + Since(f)[u + 1]]
  BY <1>2 DEF Since
<1> DEFINE s == Since(f)
           T == {u \in 0..MaxTime + 1 : s[u] \in Nat}
<1>4. s = [u \in 0..MaxTime + 1 |-> IF u > MaxTime THEN 0 ELSE f[u] + s[u + 1]]
  BY <1>3
<1> HIDE DEF s
<1>5. MaxTime + 1 \in T
  BY <1>0, <1>4
<1>6. ASSUME NEW u \in Times, u + 1 \in T PROVE u \in T
  <2>1. u \in 0..MaxTime + 1 /\ ~(u > MaxTime) /\ f[u] \in Nat /\ s[u + 1] \in Nat
    BY <1>0, <1>6 DEF Times
  <2>2. s[u] = f[u] + s[u + 1]
    BY <2>1, <1>4
  <2> QED
    BY <2>1, <2>2
<1> HIDE DEF T
<1>7. \A u \in 0..MaxTime + 1 : u \in T
  BY <1>5, <1>6, DownInduction
<1>8. s \in [0..MaxTime + 1 -> Nat] /\ Sums(f, s)
  BY <1>4, <1>7 DEF T, Sums
<1> QED
  BY <1>8 DEF s

\* What SinceSums says, in the form the lemmas below use it.
LEMMA SinceFacts ==
  ASSUME NEW f \in [Times -> Nat]
  PROVE  /\ Since(f) \in [0..MaxTime + 1 -> Nat]
         /\ \A w \in Times : Since(f)[w] = f[w] + Since(f)[w + 1]
         /\ Since(f)[MaxTime + 1] = 0
<1> DEFINE s == Since(f)
<1>0. MaxTime \in Nat
  BY RateLimiterAssumption
<1>1. Sums(f, s) /\ s \in [0..MaxTime + 1 -> Nat]
  BY SinceSums
<1> HIDE DEF s
<1>2. ASSUME NEW w \in Times PROVE s[w] = f[w] + s[w + 1]
  <2>1. w \in 0..MaxTime + 1 /\ ~(w > MaxTime)
    BY <1>0 DEF Times
  <2> QED
    BY <1>1, <2>1 DEF Sums
<1>3. s[MaxTime + 1] = 0
  <2>1. MaxTime + 1 \in 0..MaxTime + 1 /\ MaxTime + 1 > MaxTime
    BY <1>0
  <2> QED
    BY <1>1, <2>1 DEF Sums
<1>4. /\ s \in [0..MaxTime + 1 -> Nat]
      /\ \A w \in Times : s[w] = f[w] + s[w + 1]
      /\ s[MaxTime + 1] = 0
  BY <1>1, <1>2, <1>3
<1> QED
  BY <1>4 DEF s

\* The later, the less.
LEMMA SinceFalls ==
  ASSUME NEW f \in [Times -> Nat], NEW u \in 0..MaxTime + 1, NEW v \in 0..MaxTime + 1,
         u <= v
  PROVE  Since(f)[v] <= Since(f)[u]
<1> DEFINE s == Since(f)
           T == {w \in 0..MaxTime + 1 : w <= v => s[v] <= s[w]}
<1>0. MaxTime \in Nat /\ s \in [0..MaxTime + 1 -> Nat]
      /\ \A w \in Times : s[w] = f[w] + s[w + 1]
  BY RateLimiterAssumption, SinceFacts
<1> HIDE DEF s
<1>1. MaxTime + 1 \in T
  BY <1>0
<1>2. ASSUME NEW w \in Times, w + 1 \in T PROVE w \in T
  <2>1. w \in 0..MaxTime + 1 /\ w + 1 \in 0..MaxTime + 1 /\ f[w] \in Nat
        /\ s[w] = f[w] + s[w + 1] /\ s[w] \in Nat /\ s[w + 1] \in Nat /\ s[v] \in Nat
    BY <1>0 DEF Times
  <2>2. w + 1 <= v => s[v] <= s[w + 1]
    BY <1>2
  <2> QED
    BY <2>1, <2>2
<1> HIDE DEF T
<1>3. u \in T
  BY <1>1, <1>2, DownInduction
<1> QED
  BY <1>3 DEF T, s

\* No more of g than of f from k on.
LEMMA SinceLess ==
  ASSUME NEW f \in [Times -> Nat], NEW g \in [Times -> Nat], NEW k \in 0..MaxTime + 1,
         \A u \in Times : u >= k => g[u] <= f[u]
  PROVE  Since(g)[k] <= Since(f)[k]
<1> DEFINE s == Since(f)
           r == Since(g)
           T == {w \in 0..MaxTime + 1 : w >= k => r[w] <= s[w]}
<1>0. /\ MaxTime \in Nat
      /\ s \in [0..MaxTime + 1 -> Nat]
      /\ \A w \in Times : s[w] = f[w] + s[w + 1]
      /\ s[MaxTime + 1] = 0
  BY RateLimiterAssumption, SinceFacts
<1>a. /\ r \in [0..MaxTime + 1 -> Nat]
      /\ \A w \in Times : r[w] = g[w] + r[w + 1]
      /\ r[MaxTime + 1] = 0
  BY SinceFacts
<1> HIDE DEF s, r
<1>1. MaxTime + 1 \in T
  BY <1>0, <1>a
<1>2. ASSUME NEW w \in Times, w + 1 \in T PROVE w \in T
  <2>1. w \in 0..MaxTime + 1 /\ w + 1 \in 0..MaxTime + 1 /\ f[w] \in Nat /\ g[w] \in Nat
        /\ s[w] = f[w] + s[w + 1] /\ s[w + 1] \in Nat
        /\ r[w] = g[w] + r[w + 1] /\ r[w + 1] \in Nat
    BY <1>0, <1>a DEF Times
  <2>2. w >= k => g[w] <= f[w] /\ r[w + 1] <= s[w + 1]
    BY <1>2, <1>0 DEF Times
  <2> QED
    BY <2>1, <2>2
<1> HIDE DEF T
<1>3. k \in T
  BY <1>1, <1>2, DownInduction
<1> QED
  BY <1>3, <1>0 DEF T, s, r

\* One more at time n counts from n on backwards.
LEMMA SinceBump ==
  ASSUME NEW f \in [Times -> Nat], NEW g \in [Times -> Nat], NEW n \in Times,
         \A u \in Times : g[u] = IF u = n THEN f[u] + 1 ELSE f[u],
         NEW k \in 0..MaxTime + 1
  PROVE  Since(g)[k] = IF k <= n THEN Since(f)[k] + 1 ELSE Since(f)[k]
<1> DEFINE s == Since(f)
           r == Since(g)
           T == {w \in 0..MaxTime + 1 : r[w] = IF w <= n THEN s[w] + 1 ELSE s[w]}
<1>0. /\ MaxTime \in Nat
      /\ s \in [0..MaxTime + 1 -> Nat]
      /\ \A w \in Times : s[w] = f[w] + s[w + 1]
      /\ s[MaxTime + 1] = 0
  BY RateLimiterAssumption, SinceFacts
<1>a. /\ r \in [0..MaxTime + 1 -> Nat]
      /\ \A w \in Times : r[w] = g[w] + r[w + 1]
      /\ r[MaxTime + 1] = 0
  BY SinceFacts
<1> HIDE DEF s, r
<1>1. MaxTime + 1 \in T
  BY <1>0, <1>a DEF Times
<1>2. ASSUME NEW w \in Times, w + 1 \in T PROVE w \in T
  <2>1. w \in 0..MaxTime + 1 /\ w + 1 \in 0..MaxTime + 1 /\ f[w] \in Nat
        /\ s[w] = f[w] + s[w + 1] /\ s[w + 1] \in Nat
        /\ r[w] = g[w] + r[w + 1] /\ r[w + 1] \in Nat
    BY <1>0, <1>a, SMTT(30) DEF Times
  <2>2. g[w] = IF w = n THEN f[w] + 1 ELSE f[w]
    OBVIOUS
  <2>3. r[w + 1] = IF w + 1 <= n THEN s[w + 1] + 1 ELSE s[w + 1]
    BY <1>2
  <2>4. n \in Int /\ w \in Int
    BY <1>0 DEF Times
  <2> QED
    BY <2>1, <2>2, <2>3, <2>4
<1> HIDE DEF T
<1>3. k \in T
  BY <1>1, <1>2, DownInduction
<1> QED
  BY <1>3 DEF T, s, r

-----------------------------------------------------------------------------
(* How much of f lies at t or later, for any t up to the end of time *)

At(f, t) == Since(f)[IF t < 0 THEN 0 ELSE t]
Ends == {t \in Int : t <= MaxTime + 1}

\* At(f, t) is a number and falls with t.
LEMMA AtFacts ==
  ASSUME NEW f \in [Times -> Nat], NEW t \in Ends, NEW u \in Ends, t <= u
  PROVE  At(f, t) \in Nat /\ At(f, u) \in Nat /\ At(f, u) <= At(f, t)
<1> DEFINE i == IF t < 0 THEN 0 ELSE t
           j == IF u < 0 THEN 0 ELSE u
<1>1. i \in 0..MaxTime + 1 /\ j \in 0..MaxTime + 1 /\ i <= j
  BY RateLimiterAssumption DEF Ends
<1>2. At(f, t) = Since(f)[i] /\ At(f, u) = Since(f)[j]
  BY DEF At
<1>3. Since(f) \in [0..MaxTime + 1 -> Nat]
  BY SinceFacts
<1> HIDE DEF i, j
<1>4. Since(f)[j] <= Since(f)[i]
  BY <1>1, SinceFalls
<1> QED
  BY <1>1, <1>2, <1>3, <1>4

\* SinceLess for At.
LEMMA AtLess ==
  ASSUME NEW f \in [Times -> Nat], NEW g \in [Times -> Nat], NEW t \in Ends,
         \A u \in Times : u >= t => g[u] <= f[u]
  PROVE  At(g, t) <= At(f, t)
<1> DEFINE i == IF t < 0 THEN 0 ELSE t
<1>1. i \in 0..MaxTime + 1 /\ \A u \in Times : u >= i => u >= t
  BY RateLimiterAssumption DEF Ends, Times
<1>2. At(f, t) = Since(f)[i] /\ At(g, t) = Since(g)[i]
  BY DEF At
<1> HIDE DEF i
<1>3. Since(g)[i] <= Since(f)[i]
  BY <1>1, SinceLess
<1> QED
  BY <1>2, <1>3

\* SinceBump for At.
LEMMA AtBump ==
  ASSUME NEW f \in [Times -> Nat], NEW g \in [Times -> Nat], NEW n \in Times,
         \A u \in Times : g[u] = IF u = n THEN f[u] + 1 ELSE f[u],
         NEW t \in Ends
  PROVE  At(g, t) = IF t <= n THEN At(f, t) + 1 ELSE At(f, t)
<1> DEFINE i == IF t < 0 THEN 0 ELSE t
<1>1. i \in 0..MaxTime + 1 /\ (i <= n <=> t <= n)
  BY RateLimiterAssumption DEF Ends, Times
<1>2. At(f, t) = Since(f)[i] /\ At(g, t) = Since(g)[i]
  BY DEF At
<1> HIDE DEF i
<1>3. Since(g)[i] = IF i <= n THEN Since(f)[i] + 1 ELSE Since(f)[i]
  BY <1>1, SinceBump
<1> QED
  BY <1>1, <1>2, <1>3

\* Nothing from k on sums up to 0.
LEMMA SinceNothing ==
  ASSUME NEW f \in [Times -> Nat], NEW k \in 0..MaxTime + 1,
         \A u \in Times : u >= k => f[u] = 0
  PROVE  Since(f)[k] = 0
<1> DEFINE s == Since(f)
           T == {w \in 0..MaxTime + 1 : w >= k => s[w] = 0}
<1>0. /\ MaxTime \in Nat
      /\ s \in [0..MaxTime + 1 -> Nat]
      /\ \A w \in Times : s[w] = f[w] + s[w + 1]
      /\ s[MaxTime + 1] = 0
  BY RateLimiterAssumption, SinceFacts
<1> HIDE DEF s
<1>1. MaxTime + 1 \in T
  BY <1>0
<1>2. ASSUME NEW w \in Times, w + 1 \in T PROVE w \in T
  <2>1. w \in 0..MaxTime + 1 /\ s[w] = f[w] + s[w + 1] /\ s[w + 1] \in Nat
    BY <1>0 DEF Times
  <2>2. w >= k => f[w] = 0 /\ s[w + 1] = 0
    BY <1>2, <1>0 DEF Times
  <2> QED
    BY <2>1, <2>2
<1> HIDE DEF T
<1>3. k \in T
  BY <1>1, <1>2, DownInduction
<1> QED
  BY <1>3, <1>0 DEF T, s

\* SinceNothing for At.
LEMMA AtNothing ==
  ASSUME NEW f \in [Times -> Nat], NEW t \in Ends,
         \A u \in Times : u >= t => f[u] = 0
  PROVE  At(f, t) = 0
<1> DEFINE i == IF t < 0 THEN 0 ELSE t
<1>1. i \in 0..MaxTime + 1 /\ \A u \in Times : u >= i => u >= t
  BY RateLimiterAssumption DEF Ends, Times
<1>2. At(f, t) = Since(f)[i]
  BY DEF At
<1> HIDE DEF i
<1>3. Since(f)[i] = 0
  BY <1>1, SinceNothing
<1> QED
  BY <1>2, <1>3

\* At(f, t) depends only on what f is from t on.
LEMMA AtSame ==
  ASSUME NEW f \in [Times -> Nat], NEW g \in [Times -> Nat], NEW t \in Ends,
         \A u \in Times : u >= t => g[u] = f[u]
  PROVE  At(g, t) = At(f, t)
<1>1. \A u \in Times : u >= t => g[u] <= f[u] /\ f[u] <= g[u]
  OBVIOUS
<1>2. At(g, t) <= At(f, t) /\ At(f, t) <= At(g, t)
  BY <1>1, AtLess
<1>3. At(f, t) \in Nat /\ At(g, t) \in Nat
  BY AtFacts DEF Ends
<1> QED
  BY <1>2, <1>3

-----------------------------------------------------------------------------
(* The two counters of a window against what was accepted *)

\* What the counters of window sw say of the acceptances f, at time n.
WindowInv(f, sw, n) ==
  /\ sw.windowStart <= n
  /\ sw.prevCount <= Limit
  /\ sw.currCount <= Limit
  /\ At(f, sw.windowStart + 1) <= sw.currCount
  /\ At(f, sw.windowStart - Window + 1) <= sw.prevCount + sw.currCount
  /\ n = sw.windowStart =>
       At(f, sw.windowStart - Window) <= sw.prevCount + sw.currCount
  /\ \A u \in Times : u > sw.windowStart + Window => f[u] = 0
  /\ n <= sw.windowStart + Window =>
       At(f, sw.windowStart - 2 * Window) >= sw.prevCount + sw.currCount
  /\ n <= sw.windowStart + 3 * Window => At(f, sw.windowStart) >= sw.currCount

\* An address that is not tracked had nothing accepted for a window.
QuietInv(f, n) == \A u \in Times : u >= n - Window => f[u] = 0

\* The numbers of a window, and its beginning lies in the past.
LEMMA WindowNumbers ==
  ASSUME NEW f, NEW sw \in SlidingWindow, NEW n \in Times, WindowInv(f, sw, n)
  PROVE  /\ Window \in Nat \ {0} /\ MaxTime \in Nat /\ Limit \in Nat
         /\ n \in Nat /\ n <= MaxTime
         /\ sw.windowStart \in Nat /\ sw.windowStart <= n
         /\ sw.prevCount \in Nat /\ sw.currCount \in Nat
<1>1. /\ Window \in Nat \ {0} /\ MaxTime \in Nat /\ Limit \in Nat
  BY RateLimiterAssumption
<1>2. n \in Nat /\ n <= MaxTime
  BY <1>1 DEF Times
<1>3. /\ sw.windowStart \in Nat /\ sw.prevCount \in Nat /\ sw.currCount \in Nat
  BY DEF SlidingWindow
<1>4. sw.windowStart <= n
  BY DEF WindowInv
<1> QED
  BY <1>1, <1>2, <1>3, <1>4

\* Rotate advances by one window, or by two after exactly two windows.
LEMMA Quotient ==
  ASSUME NEW w \in Nat \ {0}, NEW e \in Nat, w < e, e <= 2 * w
  PROVE  w * (e \div w) = IF e = 2 * w THEN 2 * w ELSE w
<1> DEFINE q == e \div w
           r == e % w
<1>1. q \in Nat /\ r \in Nat /\ r < w /\ e = w * q + r
  OBVIOUS
<1> HIDE DEF q, r
<1>2. CASE q = 0
  BY <1>1, <1>2
<1>3. CASE q = 1
  BY <1>1, <1>3 DEF q
<1>4. CASE q = 2
  BY <1>1, <1>4 DEF q
<1>5. CASE q >= 3
  <2>1. w * q >= w * 3
    BY <1>1, <1>5
  <2> QED
    BY <1>1, <2>1
<1> QED
  BY <1>1, <1>2, <1>3, <1>4, <1>5

\* ratelimit.go:103-108: rotating a window that is not stale.
LEMMA RotateKeeps ==
  ASSUME NEW f \in [Times -> Nat], NEW sw \in SlidingWindow, now \in Times,
         WindowInv(f, sw, now), now - sw.windowStart <= 2 * Window
  PROVE  /\ Rotate(sw) \in SlidingWindow
         /\ WindowInv(f, Rotate(sw), now)
         /\ now - Rotate(sw).windowStart <= Window
<1> DEFINE ws == sw.windowStart
           e == now - ws
<1>0. /\ Window \in Nat \ {0} /\ MaxTime \in Nat /\ now \in Nat /\ now <= MaxTime
      /\ ws \in Nat /\ ws <= now
      /\ sw.prevCount \in Nat /\ sw.currCount \in Nat /\ Limit \in Nat
  BY WindowNumbers
<1>1. CASE e <= Window
  <2>1. Rotate(sw) = sw
    BY <1>0, <1>1 DEF Rotate
  <2> QED
    BY <2>1, <1>1
<1>2. CASE e > Window
  <2> DEFINE d == IF e = 2 * Window THEN 2 * Window ELSE Window
             sv == [prevCount |-> sw.currCount, currCount |-> 0, windowStart |-> ws + d]
             v == ws + d
  <2>1. Window * (e \div Window) = d
    <3>1. e \in Nat /\ Window < e /\ e <= 2 * Window
      BY <1>0, <1>2
    <3> HIDE DEF e
    <3> QED
      BY <1>0, <3>1, Quotient
  <2>2. Rotate(sw) = sv
    BY <2>1, <1>2 DEF Rotate
  <2>3. /\ v \in Nat /\ v <= now /\ now - v <= Window /\ v >= ws + Window
        /\ (now = v => v = ws + 2 * Window) /\ (now # v => v = ws + Window)
        /\ v <= ws + 2 * Window
    BY <1>0, <1>2
  <2>4. sv \in SlidingWindow
    BY <2>3, <1>0 DEF SlidingWindow
  <2>a. \A u \in Times : u > ws + Window => f[u] = 0
    BY DEF WindowInv
  <2>5. \A t \in Ends : t > ws + Window => At(f, t) = 0
    <3> TAKE t \in Ends
    <3> HAVE t > ws + Window
    <3>1. ASSUME NEW u \in Times, u >= t PROVE f[u] = 0
      <4>1. u > ws + Window
        BY <1>0, <3>1 DEF Times, Ends
      <4> QED
        BY <4>1, <2>a
    <3> QED
      BY <3>1, AtNothing
  <2>6. \A t, u \in Ends : t <= u => At(f, t) \in Nat /\ At(f, u) \in Nat /\ At(f, u) <= At(f, t)
    BY AtFacts
  <2> HIDE DEF v, d
  <2>7. /\ ws \in Ends /\ ws + 1 \in Ends /\ ws + Window \in Ends
        /\ v + 1 \in Ends /\ v - Window + 1 \in Ends /\ v - Window \in Ends
        /\ v - 2 * Window \in Ends /\ v \in Ends
    BY <1>0, <2>3 DEF Ends
  <2>8. At(f, v + 1) = 0
    BY <2>5, <2>7, <2>3, <1>0
  <2>9. At(f, v - Window + 1) <= sw.currCount
    <3>1. ws + 1 <= v - Window + 1
      BY <2>3, <1>0
    <3>2. At(f, ws + 1) <= sw.currCount
      BY DEF WindowInv
    <3>3. At(f, v - Window + 1) <= At(f, ws + 1) /\ At(f, v - Window + 1) \in Nat
          /\ At(f, ws + 1) \in Nat
      BY <3>1, <2>6, <2>7
    <3> QED
      BY <3>2, <3>3, <1>0
  <2>10. now = v => At(f, v - Window) <= sw.currCount
    <3>0. HAVE now = v
    <3>1. ws + 1 <= v - Window
      BY <2>3, <1>0, <3>0
    <3>2. At(f, ws + 1) <= sw.currCount
      BY DEF WindowInv
    <3>3. At(f, v - Window) <= At(f, ws + 1) /\ At(f, v - Window) \in Nat
          /\ At(f, ws + 1) \in Nat
      BY <3>1, <2>6, <2>7
    <3> QED
      BY <3>2, <3>3, <1>0
  <2>11. ASSUME NEW u \in Times, u > v + Window PROVE f[u] = 0
    <3>1. u > ws + Window
      BY <2>3, <2>11, <1>0, SMTT(30) DEF Times
    <3> QED
      BY <3>1, <2>a
  <2>12. At(f, v - 2 * Window) >= sw.currCount
    <3>1. v - 2 * Window <= ws
      BY <2>3, <1>0
    <3>2. At(f, ws) >= sw.currCount
      BY <1>0, <2>3 DEF WindowInv
    <3>3. At(f, ws) <= At(f, v - 2 * Window) /\ At(f, ws) \in Nat
          /\ At(f, v - 2 * Window) \in Nat
      BY <3>1, <2>6, <2>7
    <3> QED
      BY <3>2, <3>3, <1>0
  <2>13. At(f, v) >= 0
    <3>1. At(f, v) \in Nat
      BY <2>6, <2>7 DEF Ends
    <3> QED
      BY <3>1
  <2>14. sw.currCount <= Limit /\ 0 <= Limit /\ sw.currCount + 0 = sw.currCount
    BY <1>0 DEF WindowInv
  <2>15. sv.windowStart = v /\ sv.prevCount = sw.currCount /\ sv.currCount = 0
    BY DEF v
  <2> HIDE DEF sv
  <2>16. WindowInv(f, sv, now)
    BY <2>3, <2>8, <2>9, <2>10, <2>11, <2>12, <2>13, <2>14, <2>15 DEF WindowInv
  <2> QED
    BY <2>2, <2>3, <2>4, <2>15, <2>16
<1> QED
  BY <1>0, <1>1, <1>2

\* g is f with one more acceptance at time n.
Bumped(f, g, n) == \A u \in Times : g[u] = IF u = n THEN f[u] + 1 ELSE f[u]

\* A window that is stale leaves nothing accepted within the last window.
LEMMA StaleQuiet ==
  ASSUME NEW f \in [Times -> Nat], NEW sw \in SlidingWindow, NEW n \in Times,
         WindowInv(f, sw, n), n - sw.windowStart > 2 * Window
  PROVE  QuietInv(f, n)
<1>1. \A u \in Times : u > sw.windowStart + Window => f[u] = 0
  BY DEF WindowInv
<1>2. ASSUME NEW u \in Times, u >= n - Window PROVE f[u] = 0
  <2>1. sw.windowStart \in Nat /\ u \in Int /\ n \in Int /\ Window \in Int
    BY RateLimiterAssumption DEF SlidingWindow, Times
  <2>2. u > sw.windowStart + Window
    BY <1>2, <2>1
  <2> QED
    BY <1>1, <2>2
<1> QED
  BY <1>2 DEF QuietInv

\* ratelimit.go:86-101: a window that starts now, with its first request.
LEMMA FreshKeeps ==
  ASSUME NEW f \in [Times -> Nat], NEW g \in [Times -> Nat], NEW n \in Times,
         QuietInv(f, n), Bumped(f, g, n)
  PROVE  WindowInv(g, [prevCount |-> 0, currCount |-> 1, windowStart |-> n], n)
<1>0. /\ Window \in Nat \ {0} /\ MaxTime \in Nat /\ n \in Nat /\ n <= MaxTime
      /\ Limit \in Nat \ {0}
  BY RateLimiterAssumption DEF Times
<1>1. /\ n + 1 \in Ends /\ n - Window + 1 \in Ends /\ n - Window \in Ends
      /\ n - 2 * Window \in Ends /\ n \in Ends
  BY <1>0 DEF Ends
<1>2. ASSUME NEW t \in Ends, t >= n - Window PROVE At(f, t) = 0
  <2>1. ASSUME NEW u \in Times, u >= t PROVE f[u] = 0
    <3>1. u >= n - Window
      BY <1>0, <1>2, <2>1 DEF Ends, Times
    <3> QED
      BY <3>1 DEF QuietInv
  <2> QED
    BY <2>1, AtNothing
<1>3. ASSUME NEW t \in Ends PROVE At(g, t) = IF t <= n THEN At(f, t) + 1 ELSE At(f, t)
  BY AtBump DEF Bumped
<1>4. At(g, n + 1) <= 1
  BY <1>0, <1>1, <1>2, <1>3
<1>5. At(g, n - Window + 1) <= 0 + 1
  BY <1>0, <1>1, <1>2, <1>3
<1>6. At(g, n - Window) <= 0 + 1
  BY <1>0, <1>1, <1>2, <1>3
<1>7. ASSUME NEW u \in Times, u > n + Window PROVE g[u] = 0
  <2>1. u >= n - Window /\ u # n
    BY <1>0, <1>7 DEF Times
  <2> QED
    BY <2>1 DEF QuietInv, Bumped
<1>8. At(g, n) >= 1
  BY <1>0, <1>1, <1>2, <1>3
<1>9. At(g, n - 2 * Window) >= 0 + 1
  <2>1. At(g, n) <= At(g, n - 2 * Window) /\ At(g, n) \in Nat /\ At(g, n - 2 * Window) \in Nat
    <3>1. n - 2 * Window <= n
      BY <1>0
    <3> QED
      BY <1>1, <3>1, AtFacts
  <2> QED
    BY <1>8, <2>1
<1>10. n <= n /\ 0 <= Limit /\ 1 <= Limit
  BY <1>0
<1> QED
  BY <1>4, <1>5, <1>6, <1>7, <1>8, <1>9, <1>10 DEF WindowInv

\* ratelimit.go:110-117: the effective count is below the limit.
LEMMA BelowLimit ==
  ASSUME NEW p \in Nat, NEW c \in Nat, NEW w \in Nat \ {0}, NEW e \in Nat, NEW l \in Nat,
         e <= w, ~(p * (w - e) + c * w >= l * w)
  PROVE  c < l
<1>1. p * (w - e) \in Nat
  BY SMT
<1>2. c * w < l * w
  BY <1>1
<1> SUFFICES ASSUME c >= l PROVE FALSE
  OBVIOUS
<1>3. c * w >= l * w
  <2>1. PICK k \in Nat : c = l + k
    <3>1. c - l \in Nat /\ c = l + (c - l)
      OBVIOUS
    <3> QED
      BY <3>1
  <2>2. c * w = l * w + k * w /\ k * w \in Nat /\ l * w \in Nat
    BY <2>1
  <2> QED
    BY <2>2
<1> QED
  BY <1>2, <1>3

\* ratelimit.go:110-115: a request is refused only when the two counts
\* together have reached the limit.
LEMMA ReachedLimit ==
  ASSUME NEW p \in Nat, NEW c \in Nat, NEW w \in Nat \ {0}, NEW e \in Nat, NEW l \in Nat,
         e <= w, p * (w - e) + c * w >= l * w
  PROVE  p + c >= l
<1>1. p * (w - e) = p * w - p * e /\ p * e \in Nat /\ p * w \in Nat
  BY SMT
<1>2. (p + c) * w = p * w + c * w
  BY SMT
<1>3. (p + c) * w >= l * w
  BY <1>1, <1>2
<1> SUFFICES ASSUME p + c < l PROVE FALSE
  OBVIOUS
<1>4. PICK k \in Nat : l = (p + c) + 1 + k
  <2>1. l - (p + c) - 1 \in Nat /\ l = (p + c) + 1 + (l - (p + c) - 1)
    OBVIOUS
  <2> QED
    BY <2>1
<1>5. l * w = (p + c) * w + w + k * w /\ k * w \in Nat /\ (p + c) * w \in Nat
  BY <1>4
<1> QED
  BY <1>3, <1>5

\* ratelimit.go:116: one more request in a window that has room.
LEMMA CountKeeps ==
  ASSUME NEW f \in [Times -> Nat], NEW g \in [Times -> Nat], now \in Times,
         NEW sw \in SlidingWindow, WindowInv(f, sw, now), Bumped(f, g, now),
         now - sw.windowStart <= Window, ~AtLimit(sw)
  PROVE  LET sv == [sw EXCEPT !.currCount = sw.currCount + 1] IN
         sv \in SlidingWindow /\ WindowInv(g, sv, now)
<1> DEFINE ws == sw.windowStart
           sv == [sw EXCEPT !.currCount = sw.currCount + 1]
<1>0. /\ Window \in Nat \ {0} /\ MaxTime \in Nat /\ now \in Nat /\ now <= MaxTime
      /\ ws \in Nat /\ ws <= now /\ now <= ws + Window
      /\ sw.prevCount \in Nat /\ sw.currCount \in Nat /\ Limit \in Nat
  <2>1. /\ Window \in Nat \ {0} /\ MaxTime \in Nat /\ now \in Nat /\ now <= MaxTime
        /\ ws \in Nat /\ ws <= now
        /\ sw.prevCount \in Nat /\ sw.currCount \in Nat /\ Limit \in Nat
    BY WindowNumbers
  <2>2. now <= ws + Window
    BY <2>1
  <2> QED
    BY <2>1, <2>2
<1>1. sv \in SlidingWindow /\ sv.windowStart = ws /\ sv.prevCount = sw.prevCount
      /\ sv.currCount = sw.currCount + 1
  BY DEF SlidingWindow
<1>2. sw.currCount + 1 <= Limit
  <2>1. now - ws \in Nat /\ now - ws <= Window
    BY <1>0
  <2>2. sw.currCount < Limit
    BY <1>0, <2>1, BelowLimit DEF AtLimit
  <2> QED
    BY <2>2, <1>0
<1>3. /\ ws + 1 \in Ends /\ ws - Window + 1 \in Ends /\ ws - Window \in Ends
      /\ ws - 2 * Window \in Ends /\ ws \in Ends
  BY <1>0 DEF Ends
<1>4. ASSUME NEW t \in Ends
      PROVE  /\ At(f, t) \in Nat
             /\ At(g, t) = IF t <= now THEN At(f, t) + 1 ELSE At(f, t)
  BY AtBump, AtFacts DEF Bumped, Ends
<1>5. ws <= now /\ sw.prevCount <= Limit
  BY <1>0 DEF WindowInv
<1>6. At(g, ws + 1) <= sw.currCount + 1
  <2>1. At(f, ws + 1) <= sw.currCount
    BY DEF WindowInv
  <2> QED
    BY <2>1, <1>0, <1>3, <1>4
<1>7. At(g, ws - Window + 1) <= sw.prevCount + (sw.currCount + 1)
  <2>1. At(f, ws - Window + 1) <= sw.prevCount + sw.currCount
    BY DEF WindowInv
  <2> QED
    BY <2>1, <1>0, <1>3, <1>4
<1>8. now = ws => At(g, ws - Window) <= sw.prevCount + (sw.currCount + 1)
  <2>1. now = ws => At(f, ws - Window) <= sw.prevCount + sw.currCount
    BY DEF WindowInv
  <2> QED
    BY <2>1, <1>0, <1>3, <1>4
<1>9. ASSUME NEW u \in Times, u > ws + Window PROVE g[u] = 0
  <2>1. u # now
    BY <1>0, <1>9 DEF Times
  <2> QED
    BY <2>1, <1>9 DEF Bumped, WindowInv
<1>10. At(g, ws - 2 * Window) >= sw.prevCount + (sw.currCount + 1)
  <2>1. At(f, ws - 2 * Window) >= sw.prevCount + sw.currCount
    BY <1>0 DEF WindowInv
  <2>2. ws - 2 * Window <= now
    BY <1>0
  <2> QED
    BY <2>1, <2>2, <1>0, <1>3, <1>4
<1>11. At(g, ws) >= sw.currCount + 1
  <2>1. now <= ws + 3 * Window
    BY <1>0
  <2>2. At(f, ws) >= sw.currCount
    BY <2>1 DEF WindowInv
  <2> QED
    BY <2>2, <1>0, <1>3, <1>4
<1> HIDE DEF sv
<1>12. WindowInv(g, sv, now)
  BY <1>1, <1>2, <1>5, <1>6, <1>7, <1>8, <1>9, <1>10, <1>11 DEF WindowInv
<1> QED
  BY <1>1, <1>12 DEF sv

\* Time passes, and what is older than three windows is forgotten.
LEMMA TickKeeps ==
  ASSUME NEW f \in [Times -> Nat], NEW g \in [Times -> Nat], NEW n \in Times,
         n + 1 \in Times, NEW sw \in SlidingWindow, WindowInv(f, sw, n),
         \A u \in Times : g[u] = IF u < n + 1 - 3 * Window THEN 0 ELSE f[u]
  PROVE  WindowInv(g, sw, n + 1)
<1> DEFINE ws == sw.windowStart
<1>0. /\ Window \in Nat \ {0} /\ MaxTime \in Nat /\ n \in Nat /\ n + 1 <= MaxTime
      /\ ws \in Nat /\ ws <= n
      /\ sw.prevCount \in Nat /\ sw.currCount \in Nat /\ Limit \in Nat
  <2>1. n + 1 <= MaxTime
    BY RateLimiterAssumption DEF Times
  <2> QED
    BY <2>1, WindowNumbers
<1>1. /\ ws + 1 \in Ends /\ ws - Window + 1 \in Ends /\ ws - Window \in Ends
      /\ ws - 2 * Window \in Ends /\ ws \in Ends
  BY <1>0 DEF Ends
<1>2. ASSUME NEW t \in Ends PROVE At(g, t) \in Nat /\ At(f, t) \in Nat /\ At(g, t) <= At(f, t)
  <2>1. \A u \in Times : u >= t => g[u] <= f[u]
    OBVIOUS
  <2>2. At(g, t) <= At(f, t)
    BY <2>1, AtLess
  <2> QED
    BY <2>2, AtFacts DEF Ends
<1>3. ASSUME NEW t \in Ends, t >= n + 1 - 3 * Window PROVE At(g, t) = At(f, t)
  <2>1. ASSUME NEW u \in Times, u >= t PROVE g[u] = f[u]
    <3>1. ~(u < n + 1 - 3 * Window)
      BY <1>0, <1>3, <2>1 DEF Times, Ends
    <3> QED
      BY <3>1
  <2> QED
    BY <2>1, AtSame
<1>4. ws <= n + 1 /\ n + 1 # ws /\ sw.prevCount <= Limit /\ sw.currCount <= Limit
  BY <1>0 DEF WindowInv
<1>5. At(g, ws + 1) <= sw.currCount
  <2>1. At(f, ws + 1) <= sw.currCount
    BY DEF WindowInv
  <2> QED
    BY <2>1, <1>0, <1>1, <1>2
<1>6. At(g, ws - Window + 1) <= sw.prevCount + sw.currCount
  <2>1. At(f, ws - Window + 1) <= sw.prevCount + sw.currCount
    BY DEF WindowInv
  <2> QED
    BY <2>1, <1>0, <1>1, <1>2
<1>7. ASSUME NEW u \in Times, u > ws + Window PROVE g[u] = 0
  BY <1>7 DEF WindowInv
<1>8. n + 1 <= ws + Window => At(g, ws - 2 * Window) >= sw.prevCount + sw.currCount
  <2> HAVE n + 1 <= ws + Window
  <2>1. n <= ws + Window /\ ws - 2 * Window >= n + 1 - 3 * Window
    BY <1>0
  <2>2. At(f, ws - 2 * Window) >= sw.prevCount + sw.currCount
    BY <2>1 DEF WindowInv
  <2> QED
    BY <2>1, <2>2, <1>1, <1>3
<1>9. n + 1 <= ws + 3 * Window => At(g, ws) >= sw.currCount
  <2> HAVE n + 1 <= ws + 3 * Window
  <2>1. n <= ws + 3 * Window /\ ws >= n + 1 - 3 * Window
    BY <1>0
  <2>2. At(f, ws) >= sw.currCount
    BY <2>1 DEF WindowInv
  <2> QED
    BY <2>1, <2>2, <1>1, <1>3
<1> QED
  BY <1>4, <1>5, <1>6, <1>7, <1>8, <1>9 DEF WindowInv

-----------------------------------------------------------------------------
(* The rate limiter *)

RateInv ==
  /\ RateTypeOK
  /\ now \in Times
  /\ \A a \in Tracked : WindowInv(accepted[a], requests[a], now)
  /\ \A a \in Addrs \ Tracked : QuietInv(accepted[a], now)

Nothing == [t \in Times |-> 0]

\* checkAndRecord changes the window of one address, and what it evicts leaves
\* no history.
LEMMA OneWindow ==
  ASSUME RateInv, now' = now, NEW a \in Addrs,
         NEW D, NEW sv \in SlidingWindow, NEW g \in [Times -> Nat],
         D \subseteq Tracked \cup {a}, a \in D,
         DOMAIN requests' = D,
         requests' = [b \in D |-> IF b = a THEN sv ELSE requests[b]],
         accepted' = [b \in Addrs |-> IF b = a THEN g
                                      ELSE IF b \in Tracked \ D THEN Nothing
                                      ELSE accepted[b]],
         WindowInv(g, sv, now)
  PROVE  RateInv'
<1>1. /\ now \in Nat /\ Tracked \subseteq Addrs /\ D \subseteq Addrs
      /\ requests \in [Tracked -> SlidingWindow]
      /\ accepted \in [Addrs -> [Times -> Nat]]
      /\ Nothing \in [Times -> Nat]
  BY DEF RateInv, RateTypeOK, Times, Nothing
<1>2. Tracked' = D
  BY DEF Tracked
<1>3. requests' \in [D -> SlidingWindow]
  <2>1. ASSUME NEW b \in D PROVE (IF b = a THEN sv ELSE requests[b]) \in SlidingWindow
    BY <1>1
  <2> QED
    BY <2>1
<1>4. accepted' \in [Addrs -> [Times -> Nat]]
  <2>1. ASSUME NEW b \in Addrs
        PROVE (IF b = a THEN g ELSE IF b \in Tracked \ D THEN Nothing ELSE accepted[b])
                \in [Times -> Nat]
    BY <1>1
  <2> QED
    BY <2>1
<1>5. RateTypeOK'
  BY <1>1, <1>2, <1>3, <1>4 DEF RateTypeOK, Times
<1>6. ASSUME NEW b \in D PROVE WindowInv(accepted'[b], requests'[b], now)
  <2>1. CASE b = a
    <3>1. accepted'[b] = g /\ requests'[b] = sv
      BY <2>1, <1>1
    <3> QED
      BY <3>1
  <2>2. CASE b # a
    <3>1. b \in Tracked /\ b \in Addrs
      BY <2>2, <1>1, <1>6
    <3>2. accepted'[b] = accepted[b] /\ requests'[b] = requests[b]
      BY <3>1, <2>2, <1>6
    <3> QED
      BY <3>1, <3>2 DEF RateInv
  <2> QED
    BY <2>1, <2>2
<1>7. ASSUME NEW b \in Addrs \ D PROVE QuietInv(accepted'[b], now)
  <2>1. CASE b \in Tracked
    <3>1. accepted'[b] = Nothing
      BY <2>1, <1>7
    <3> QED
      BY <3>1 DEF QuietInv, Nothing
  <2>2. CASE b \notin Tracked
    <3>1. accepted'[b] = accepted[b]
      BY <2>2, <1>7
    <3> QED
      BY <3>1, <2>2 DEF RateInv
  <2> QED
    BY <2>1, <2>2
<1>8. (\A b \in Tracked : WindowInv(accepted[b], requests[b], now))'
  BY <1>2, <1>6
<1>9. (\A b \in Addrs \ Tracked : QuietInv(accepted[b], now))'
  BY <1>2, <1>7
<1>10. (now \in Times)'
  BY DEF RateInv, Times
<1> QED
  BY <1>5, <1>8, <1>9, <1>10 DEF RateInv

\* One more acceptance of an address, now.
LEMMA BumpedHistory ==
  ASSUME RateInv, NEW a \in Addrs
  PROVE  LET g == [accepted[a] EXCEPT ![now] = @ + 1] IN
         g \in [Times -> Nat] /\ Bumped(accepted[a], g, now)
<1>1. accepted[a] \in [Times -> Nat] /\ now \in Times
  BY DEF RateInv, RateTypeOK, Times
<1> QED
  BY <1>1 DEF Bumped

\* A new window is a window.
LEMMA NewWindowType ==
  ASSUME RateInv
  PROVE  NewWindow \in SlidingWindow
BY DEF RateInv, RateTypeOK, NewWindow, SlidingWindow

\* FreshKeeps, for an address of the table.
LEMMA NewWindowKeeps ==
  ASSUME RateInv, NEW a \in Addrs, QuietInv(accepted[a], now)
  PROVE  WindowInv([accepted[a] EXCEPT ![now] = @ + 1], NewWindow, now)
<1> DEFINE f == accepted[a]
           g == [accepted[a] EXCEPT ![now] = @ + 1]
<1>1. f \in [Times -> Nat] /\ now \in Times
  BY DEF RateInv, RateTypeOK, Times
<1>2. g \in [Times -> Nat] /\ Bumped(f, g, now)
  BY BumpedHistory
<1>3. QuietInv(f, now)
  OBVIOUS
<1> HIDE DEF f, g
<1>4. WindowInv(g, NewWindow, now)
  BY <1>1, <1>2, <1>3, FreshKeeps DEF NewWindow
<1> QED
  BY <1>4 DEF g

\* An address that is not in the table, with or without an eviction.
LEMMA TrackNewKeeps ==
  ASSUME RateInv, now' = now, NEW a \in Addrs, TrackNew(a)
  PROVE  RateInv'
<1> DEFINE g == [accepted[a] EXCEPT ![now] = @ + 1]
<1>0. /\ accepted \in [Addrs -> [Times -> Nat]] /\ now \in Times /\ a \notin Tracked
      /\ Tracked \subseteq Addrs
  BY DEF RateInv, RateTypeOK, Times, TrackNew
<1>1. QuietInv(accepted[a], now)
  BY <1>0 DEF RateInv
<1>2. /\ WindowInv(g, NewWindow, now)
      /\ NewWindow \in SlidingWindow
      /\ g \in [Times -> Nat]
  BY <1>1, NewWindowKeeps, NewWindowType, BumpedHistory
<1>3. CASE requests' = Put(requests, a, NewWindow) /\ Record(a)
  <2> DEFINE D == Tracked \cup {a}
  <2>1. requests' = [b \in D |-> IF b = a THEN NewWindow ELSE requests[b]]
    BY <1>3 DEF Put, Tracked
  <2>2. DOMAIN requests' = D
    BY <2>1
  <2>3. accepted' = [b \in Addrs |-> IF b = a THEN g
                                     ELSE IF b \in Tracked \ D THEN Nothing
                                     ELSE accepted[b]]
    BY <1>0, <1>3 DEF Record
  <2>4. D \subseteq Tracked \cup {a} /\ a \in D
    OBVIOUS
  <2> HIDE DEF D, g
  <2> QED
    BY <1>2, <2>1, <2>2, <2>3, <2>4, OneWindow
<1>4. ASSUME NEW v \in Oldest,
             requests' = Put(Restrict(requests, Tracked \ {v}), a, NewWindow),
             accepted' = [accepted EXCEPT
                            ![v] = [t \in 0..MaxTime |-> 0], ![a][now] = @ + 1]
      PROVE  RateInv'
  <2> DEFINE D == (Tracked \ {v}) \cup {a}
             h == Restrict(requests, Tracked \ {v})
  <2>0. v \in Tracked /\ v # a /\ v \in Addrs
    BY <1>0 DEF Oldest
  <2>a. h = [b \in Tracked \ {v} |-> requests[b]]
    BY DEF Restrict
  <2>1. requests' = [b \in D |-> IF b = a THEN NewWindow ELSE requests[b]]
    <3>1. requests' = [y \in DOMAIN h \cup {a} |-> IF y = a THEN NewWindow ELSE h[y]]
      BY <1>4 DEF Put
    <3> HIDE DEF h
    <3>2. DOMAIN h = Tracked \ {v}
      BY <2>a
    <3>3. ASSUME NEW y \in D
          PROVE (IF y = a THEN NewWindow ELSE h[y]) = IF y = a THEN NewWindow ELSE requests[y]
      BY <2>a
    <3> QED
      BY <3>1, <3>2, <3>3
  <2>2. DOMAIN requests' = D
    BY <2>1
  <2>3. accepted' = [b \in Addrs |-> IF b = a THEN g
                                     ELSE IF b \in Tracked \ D THEN Nothing
                                     ELSE accepted[b]]
    <3>1. accepted' = [b \in Addrs |-> IF b = a THEN g
                                       ELSE IF b = v THEN Nothing ELSE accepted[b]]
      BY <1>0, <1>4, <2>0 DEF Nothing, Times
    <3>2. \A b \in Addrs : b # a => (b = v <=> b \in Tracked \ D)
      BY <2>0
    <3> HIDE DEF g, D
    <3> QED
      BY <3>1, <3>2
  <2>4. D \subseteq Tracked \cup {a} /\ a \in D
    OBVIOUS
  <2> HIDE DEF D, g
  <2> QED
    BY <1>2, <2>1, <2>2, <2>3, <2>4, OneWindow
<1> QED
  BY <1>3, <1>4 DEF TrackNew

\* The window of an address in the table is replaced.
LEMMA TrackedChange ==
  ASSUME RateInv, now' = now, NEW a \in Tracked, NEW sv \in SlidingWindow,
         NEW g \in [Times -> Nat], WindowInv(g, sv, now),
         requests' = [b \in Tracked |-> IF b = a THEN sv ELSE requests[b]],
         accepted' = [b \in Addrs |-> IF b = a THEN g ELSE accepted[b]]
  PROVE  RateInv'
<1> DEFINE D == Tracked
<1>0. /\ accepted \in [Addrs -> [Times -> Nat]] /\ Tracked \subseteq Addrs /\ a \in Addrs
      /\ requests \in [Tracked -> SlidingWindow]
  BY DEF RateInv, RateTypeOK, Times
<1>1. requests' = [b \in D |-> IF b = a THEN sv ELSE requests[b]] /\ DOMAIN requests' = D
  BY <1>0
<1>2. accepted' = [b \in Addrs |-> IF b = a THEN g
                                   ELSE IF b \in Tracked \ D THEN Nothing
                                   ELSE accepted[b]]
  BY <1>0
<1>3. D \subseteq Tracked \cup {a} /\ a \in D
  OBVIOUS
<1> HIDE DEF D
<1> QED
  BY <1>0, <1>1, <1>2, <1>3, OneWindow

\* A stale window starts over.
LEMMA StartOverKeeps ==
  ASSUME RateInv, now' = now, NEW a \in Addrs, StartOver(a)
  PROVE  RateInv'
<1> DEFINE g == [accepted[a] EXCEPT ![now] = @ + 1]
<1>0. /\ accepted \in [Addrs -> [Times -> Nat]] /\ now \in Times /\ a \in Tracked
      /\ requests[a] \in SlidingWindow /\ WindowInv(accepted[a], requests[a], now)
      /\ now - requests[a].windowStart > 2 * Window
  BY DEF RateInv, RateTypeOK, Times, StartOver, Stale
<1>1. QuietInv(accepted[a], now)
  BY <1>0, StaleQuiet
<1>2. /\ WindowInv(g, NewWindow, now)
      /\ NewWindow \in SlidingWindow
      /\ g \in [Times -> Nat]
  BY <1>1, NewWindowKeeps, NewWindowType, BumpedHistory
<1>3. /\ requests' = [b \in Tracked |-> IF b = a THEN NewWindow ELSE requests[b]]
      /\ accepted' = [b \in Addrs |-> IF b = a THEN g ELSE accepted[b]]
  BY <1>0 DEF StartOver, Record, Tracked
<1> HIDE DEF g
<1> QED
  BY <1>0, <1>2, <1>3, TrackedChange

\* A request is counted in the rotated window.
LEMMA CountStepKeeps ==
  ASSUME RateInv, now' = now, NEW a \in Addrs, Count(a)
  PROVE  RateInv'
<1> DEFINE f == accepted[a]
           g == [accepted[a] EXCEPT ![now] = @ + 1]
           sw == Rotate(requests[a])
           sv == [sw EXCEPT !.currCount = sw.currCount + 1]
<1>0. /\ f \in [Times -> Nat] /\ now \in Times /\ a \in Tracked
      /\ requests[a] \in SlidingWindow /\ WindowInv(f, requests[a], now)
  BY DEF RateInv, RateTypeOK, Times, Count
<1>a. now - requests[a].windowStart <= 2 * Window
  <2>1. ~(now - requests[a].windowStart > 2 * Window)
    BY DEF Count, Stale
  <2>2. now \in Int /\ requests[a].windowStart \in Int /\ Window \in Int
    BY <1>0, RateLimiterAssumption DEF Times, SlidingWindow
  <2> QED
    BY <2>1, <2>2
<1>1. sw \in SlidingWindow /\ WindowInv(f, sw, now) /\ now - sw.windowStart <= Window
  BY <1>0, <1>a, RotateKeeps
<1>2. g \in [Times -> Nat] /\ Bumped(f, g, now)
  BY BumpedHistory
<1>b. accepted \in [Addrs -> [Times -> Nat]] /\ requests \in [Tracked -> SlidingWindow]
  BY DEF RateInv, RateTypeOK, Times
<1>3. /\ ~AtLimit(sw)
      /\ requests' = [b \in Tracked |-> IF b = a THEN sv ELSE requests[b]]
      /\ accepted' = [b \in Addrs |-> IF b = a THEN g ELSE accepted[b]]
  BY <1>b DEF Count, Record
<1> HIDE DEF f, g, sw
<1>4. sv \in SlidingWindow /\ WindowInv(g, sv, now)
  BY <1>0, <1>1, <1>2, <1>3, CountKeeps
<1> HIDE DEF sv
<1> QED
  BY <1>0, <1>2, <1>3, <1>4, TrackedChange

\* A request is refused; the rotation stays.
LEMMA RefuseKeeps ==
  ASSUME RateInv, now' = now, NEW a \in Addrs, Refuse(a)
  PROVE  RateInv'
<1> DEFINE f == accepted[a]
           sw == Rotate(requests[a])
<1>0. /\ f \in [Times -> Nat] /\ now \in Times /\ a \in Tracked
      /\ requests[a] \in SlidingWindow /\ WindowInv(f, requests[a], now)
      /\ accepted \in [Addrs -> [Times -> Nat]]
  BY DEF RateInv, RateTypeOK, Times, Refuse
<1>a. now - requests[a].windowStart <= 2 * Window
  <2>1. ~(now - requests[a].windowStart > 2 * Window)
    BY DEF Refuse, Stale
  <2>2. now \in Int /\ requests[a].windowStart \in Int /\ Window \in Int
    BY <1>0, RateLimiterAssumption DEF Times, SlidingWindow
  <2> QED
    BY <2>1, <2>2
<1>1. sw \in SlidingWindow /\ WindowInv(f, sw, now)
  BY <1>0, <1>a, RotateKeeps
<1>b. requests \in [Tracked -> SlidingWindow]
  BY DEF RateInv, RateTypeOK
<1>2. /\ requests' = [b \in Tracked |-> IF b = a THEN sw ELSE requests[b]]
      /\ accepted' = [b \in Addrs |-> IF b = a THEN f ELSE accepted[b]]
  BY <1>0, <1>b DEF Refuse
<1> HIDE DEF f, sw
<1> QED
  BY <1>0, <1>1, <1>2, TrackedChange

\* cleanupStaleKeys drops stale windows only.
LEMMA CleanupKeeps ==
  ASSUME RateInv, now' = now, CleanupStaleKeys
  PROVE  RateInv'
<1> DEFINE D == {a \in Tracked : ~Stale(a)}
<1>0. /\ accepted \in [Addrs -> [Times -> Nat]] /\ now \in Times
      /\ requests \in [Tracked -> SlidingWindow] /\ Tracked \subseteq Addrs
  BY DEF RateInv, RateTypeOK, Times
<1>1. requests' = [b \in D |-> requests[b]] /\ accepted' = accepted
  BY DEF CleanupStaleKeys, Restrict
<1>2. Tracked' = D
  BY <1>1 DEF Tracked
<1>3. D \subseteq Tracked
  OBVIOUS
<1>4. ASSUME NEW b \in Addrs \ D PROVE QuietInv(accepted[b], now)
  <2>1. CASE b \in Tracked
    <3>1. now - requests[b].windowStart > 2 * Window
      BY <2>1, <1>4 DEF Stale
    <3>2. WindowInv(accepted[b], requests[b], now)
      BY <2>1 DEF RateInv
    <3> QED
      BY <1>0, <2>1, <3>1, <3>2, StaleQuiet
  <2>2. CASE b \notin Tracked
    BY <1>4, <2>2 DEF RateInv
  <2> QED
    BY <2>1, <2>2
<1> HIDE DEF D
<1>5. RateTypeOK' /\ (now \in Times)'
  BY <1>0, <1>1, <1>2, <1>3 DEF RateInv, RateTypeOK, Times
<1>6. (\A b \in Tracked : WindowInv(accepted[b], requests[b], now))'
  BY <1>1, <1>2, <1>3 DEF RateInv
<1>7. (\A b \in Addrs \ Tracked : QuietInv(accepted[b], now))'
  BY <1>1, <1>2, <1>4
<1> QED
  BY <1>5, <1>6, <1>7 DEF RateInv

\* TickKeeps, for the table.
LEMMA ForgetKeeps ==
  ASSUME RateInv, NEW n \in Times, n = now + 1, now' = n, Forget(n)
  PROVE  RateInv'
<1>0. /\ accepted \in [Addrs -> [Times -> Nat]] /\ now \in Times
      /\ requests \in [Tracked -> SlidingWindow] /\ Tracked \subseteq Addrs
      /\ now \in Nat /\ Window \in Nat
  BY RateLimiterAssumption DEF RateInv, RateTypeOK, Times
<1>1. requests' = requests /\ Tracked' = Tracked
  BY DEF Forget, Tracked
<1>2. accepted' = [a \in Addrs |-> [u \in Times |->
                    IF u < n - 3 * Window THEN 0 ELSE accepted[a][u]]]
  BY DEF Forget, Times
<1>3. ASSUME NEW a \in Addrs
      PROVE  /\ accepted'[a] \in [Times -> Nat]
             /\ \A u \in Times : accepted'[a][u] =
                  IF u < n - 3 * Window THEN 0 ELSE accepted[a][u]
  <2>1. accepted'[a] = [u \in Times |->
                         IF u < n - 3 * Window THEN 0 ELSE accepted[a][u]]
    BY <1>2
  <2>2. accepted[a] \in [Times -> Nat]
    BY <1>0
  <2> QED
    BY <2>1, <2>2
<1>4. accepted' \in [Addrs -> [Times -> Nat]]
  <2>1. accepted' = [a \in Addrs |-> accepted'[a]]
    BY <1>2
  <2> QED
    BY <2>1, <1>3
<1>5. RateTypeOK' /\ (now \in Times)'
  BY <1>0, <1>1, <1>4 DEF RateTypeOK, Times
<1>6. ASSUME NEW a \in Tracked PROVE WindowInv(accepted'[a], requests'[a], n)
  <2> DEFINE f == accepted[a]
             g == accepted'[a]
             sw == requests[a]
  <2>1. /\ f \in [Times -> Nat] /\ sw \in SlidingWindow /\ WindowInv(f, sw, now)
        /\ a \in Addrs
    BY <1>0 DEF RateInv
  <2>2. g \in [Times -> Nat]
        /\ \A u \in Times : g[u] = IF u < n - 3 * Window THEN 0 ELSE f[u]
    BY <1>3, <2>1
  <2> HIDE DEF f, g, sw
  <2>3. WindowInv(g, sw, n)
    BY <1>0, <2>1, <2>2, TickKeeps
  <2> QED
    BY <2>3, <1>1 DEF g, sw
<1>7. ASSUME NEW a \in Addrs \ Tracked PROVE QuietInv(accepted'[a], n)
  <2>1. QuietInv(accepted[a], now)
    BY DEF RateInv
  <2>2. ASSUME NEW u \in Times, u >= n - Window PROVE accepted'[a][u] = 0
    <3>1. u >= now - Window
      BY <1>0, <2>2 DEF Times
    <3>2. accepted[a][u] = 0
      BY <2>1, <3>1 DEF QuietInv
    <3> QED
      BY <1>3, <3>2
  <2> QED
    BY <2>2 DEF QuietInv
<1>8. (\A a \in Tracked : WindowInv(accepted[a], requests[a], now))'
  BY <1>1, <1>6
<1>9. (\A a \in Addrs \ Tracked : QuietInv(accepted[a], now))'
  BY <1>1, <1>7
<1> QED
  BY <1>5, <1>8, <1>9 DEF RateInv

-----------------------------------------------------------------------------
(* The tables *)

\* The time since a cleanup loop last ran, or an interval when it is due.
Elapsed(loop) == IF loop \in due THEN CleanupInterval ELSE now % CleanupInterval

\* The tickers: the remainder grows by one until the interval is full.
LEMMA TickerStep ==
  ASSUME NEW n \in Nat, NEW c \in Nat \ {0}
  PROVE  /\ n % c \in 0..c - 1
         /\ (n + 1) % c = 0 => n % c = c - 1
         /\ (n + 1) % c # 0 => (n + 1) % c = (n % c) + 1
<1> DEFINE q == n \div c
           r == n % c
           p == (n + 1) \div c
           s == (n + 1) % c
<1>1. q \in Int /\ r \in Nat /\ r < c /\ n = c * q + r
  OBVIOUS
<1>2. p \in Int /\ s \in Nat /\ s < c /\ n + 1 = c * p + s
  OBVIOUS
<1> HIDE DEF q, r, p, s
<1> DEFINE d == p - q
<1>3. d \in Int /\ c * d = r + 1 - s
  <2>1. c * p - c * q = r + 1 - s
    BY <1>1, <1>2
  <2>2. c * (p - q) = c * p - c * q
    BY <1>1, <1>2
  <2> QED
    BY <2>1, <2>2, <1>1, <1>2
<1> HIDE DEF d
<1>4. d >= 0
  <2> SUFFICES ASSUME d <= -1 PROVE FALSE
    BY <1>3
  <2>1. c * d <= c * (-1)
    BY <1>3
  <2> QED
    BY <2>1, <1>1, <1>2, <1>3
<1>5. d <= 1
  <2> SUFFICES ASSUME d >= 2 PROVE FALSE
    BY <1>3
  <2>1. c * d >= c * 2
    BY <1>3
  <2> QED
    BY <2>1, <1>1, <1>2, <1>3
<1>6. CASE d = 0
  BY <1>1, <1>2, <1>3, <1>6 DEF r, s
<1>7. CASE d = 1
  BY <1>1, <1>2, <1>3, <1>7 DEF r, s
<1> QED
  BY <1>3, <1>4, <1>5, <1>6, <1>7

\* An age within a bound of the elapsed time stays within it when time passes.
LEMMA ElapsedTick ==
  ASSUME now \in Nat, NEW loop \in {"rate", "auth"}, Tick
  PROVE  /\ Elapsed(loop) \in Nat
         /\ Elapsed(loop)' = Elapsed(loop) + 1
<1>1. CleanupInterval \in Nat \ {0}
  BY ChainAssumption
<1>2. /\ due = {} /\ now' = now + 1
      /\ due' = IF now' % CleanupInterval = 0 THEN {"rate", "auth"} ELSE {}
  BY DEF Tick
<1>3. Elapsed(loop) = now % CleanupInterval
  BY <1>2 DEF Elapsed
<1>4. /\ now % CleanupInterval \in 0..CleanupInterval - 1
      /\ now' % CleanupInterval = 0 => now % CleanupInterval = CleanupInterval - 1
      /\ now' % CleanupInterval # 0 => now' % CleanupInterval = (now % CleanupInterval) + 1
  BY <1>1, <1>2, TickerStep
<1>5. CASE now' % CleanupInterval = 0
  <2>1. Elapsed(loop)' = CleanupInterval
    BY <1>2, <1>5 DEF Elapsed
  <2> QED
    BY <2>1, <1>1, <1>3, <1>4, <1>5
<1>6. CASE now' % CleanupInterval # 0
  <2>1. Elapsed(loop)' = now' % CleanupInterval
    BY <1>2, <1>6 DEF Elapsed
  <2> QED
    BY <2>1, <1>1, <1>3, <1>4, <1>6
<1> QED
  BY <1>5, <1>6

\* At most an interval has elapsed.
LEMMA ElapsedBound ==
  ASSUME now \in Nat, NEW loop
  PROVE  Elapsed(loop) \in 0..CleanupInterval
<1>1. CleanupInterval \in Nat \ {0}
  BY ChainAssumption
<1>2. now % CleanupInterval \in 0..CleanupInterval - 1
  BY <1>1, TickerStep
<1> QED
  BY <1>1, <1>2 DEF Elapsed

Entry == [attempts : Nat, lastAttempt : Int, blockedAt : Int]

\* A table of a failure limiter.
AuthTable(st) ==
  /\ DOMAIN st \subseteq Addrs
  /\ st \in [DOMAIN st -> Entry]
  /\ Cardinality(DOMAIN st) <= MaxTracked

\* Some entries are dropped from st.
Dropped(st, next) == \E K \in SUBSET DOMAIN st : next = [b \in K |-> st[b]]
\* The entry of a is written, and others may be dropped to make room.
Written(st, next, a, e) ==
  \E K \in SUBSET DOMAIN st :
    /\ next = [b \in K \cup {a} |-> IF b = a THEN e ELSE st[b]]
    /\ a \in K \/ Cardinality(K) < MaxTracked

\* Tables are finite, and a part of one is not larger.
LEMMA SubsetSize ==
  ASSUME NEW S \in SUBSET Addrs, NEW K \in SUBSET S
  PROVE  /\ IsFiniteSet(S) /\ IsFiniteSet(K)
         /\ Cardinality(S) \in Nat /\ Cardinality(K) \in Nat
         /\ Cardinality(K) <= Cardinality(S)
<1>1. IsFiniteSet(Addrs)
  BY RateLimiterAssumption
<1>2. IsFiniteSet(S)
  BY <1>1, FS_Subset
<1> QED
  BY <1>2, FS_Subset, FS_CardinalityType

\* Dropping entries leaves a table.
LEMMA DroppedTable ==
  ASSUME NEW st, NEW next, AuthTable(st), Dropped(st, next)
  PROVE  AuthTable(next)
<1>1. PICK K \in SUBSET DOMAIN st : next = [b \in K |-> st[b]]
  BY DEF Dropped
<1>2. Cardinality(K) <= Cardinality(DOMAIN st) /\ Cardinality(K) \in Nat
      /\ Cardinality(DOMAIN st) \in Nat
  BY SubsetSize DEF AuthTable
<1>3. MaxTracked \in Nat
  BY RateLimiterAssumption
<1>4. DOMAIN next = K
  BY <1>1
<1>5. Cardinality(K) <= MaxTracked
  BY <1>2, <1>3 DEF AuthTable
<1>6. next \in [K -> Entry]
  BY <1>1 DEF AuthTable
<1> QED
  BY <1>4, <1>5, <1>6 DEF AuthTable

\* So does writing one, when there is room.
LEMMA WrittenTable ==
  ASSUME NEW st, NEW next, NEW a \in Addrs, NEW e \in Entry, AuthTable(st),
         Written(st, next, a, e)
  PROVE  AuthTable(next)
<1>1. PICK K \in SUBSET DOMAIN st :
        /\ next = [b \in K \cup {a} |-> IF b = a THEN e ELSE st[b]]
        /\ a \in K \/ Cardinality(K) < MaxTracked
  BY DEF Written
<1>2. /\ Cardinality(K) <= Cardinality(DOMAIN st) /\ Cardinality(K) \in Nat
      /\ Cardinality(DOMAIN st) \in Nat /\ IsFiniteSet(K)
  BY SubsetSize DEF AuthTable
<1>3. MaxTracked \in Nat
  BY RateLimiterAssumption
<1>4. DOMAIN next = K \cup {a}
  BY <1>1
<1>5. Cardinality(K \cup {a}) <= MaxTracked
  <2>1. CASE a \in K
    <3>1. K \cup {a} = K
      BY <2>1
    <3> QED
      BY <3>1, <1>2, <1>3 DEF AuthTable
  <2>2. CASE a \notin K
    <3>1. Cardinality(K \cup {a}) = Cardinality(K) + 1
      BY <1>2, <2>2, FS_AddElement
    <3> QED
      BY <3>1, <2>2, <1>1, <1>2, <1>3
  <2> QED
    BY <2>1, <2>2
<1>6. ASSUME NEW b \in K \cup {a} PROVE (IF b = a THEN e ELSE st[b]) \in Entry
  BY DEF AuthTable
<1>7. next \in [K \cup {a} -> Entry]
  BY <1>1, <1>6
<1> QED
  BY <1>4, <1>5, <1>7 DEF AuthTable

Fresh == [attempts |-> 0, lastAttempt |-> -1, blockedAt |-> -1]
\* The entry recordAuthFailure counts on.
Before(st, a) == IF a \in DOMAIN st THEN st[a] ELSE Fresh

\* isAuthBlocked and cleanupRateLimiter only drop entries.
LEMMA AuthDrops ==
  ASSUME AuthTable(authStates), NEW a,
         Auth!NotBlocked(a) \/ Auth!CleanupRateLimiter
  PROVE  Dropped(authStates, authStates')
<1>1. CASE Auth!NotBlocked(a) /\ ~Auth!HasBlock(a)
  <2>1. authStates' = [b \in DOMAIN authStates |-> authStates[b]]
    BY <1>1 DEF Auth!NotBlocked, AuthTable
  <2> QED
    BY <2>1 DEF Dropped
<1>2. CASE Auth!NotBlocked(a) /\ Auth!HasBlock(a)
  <2>1. authStates' = [b \in DOMAIN authStates \ {a} |-> authStates[b]]
    BY <1>2 DEF Auth!NotBlocked, Auth!Known, Auth!Restrict
  <2> QED
    BY <2>1 DEF Dropped
<1>3. CASE Auth!CleanupRateLimiter
  <2> DEFINE K == {b \in DOMAIN authStates : ~Auth!Forgettable(b)}
  <2>1. authStates' = [b \in K |-> authStates[b]]
    BY <1>3 DEF Auth!CleanupRateLimiter, Auth!Known, Auth!Restrict
  <2>2. K \in SUBSET DOMAIN authStates
    OBVIOUS
  <2> HIDE DEF K
  <2> QED
    BY <2>1, <2>2 DEF Dropped
<1> QED
  BY <1>1, <1>2, <1>3

\* recordAuthFailure writes one entry, and makes room for it first.
LEMMA AuthWrites ==
  ASSUME AuthTable(authStates), NEW a \in Addrs, Auth!RecordAuthFailure(a)
  PROVE  Written(authStates, authStates', a, Auth!Fail(Before(authStates, a)))
<1> DEFINE e == Auth!Fail(Before(authStates, a))
           Known == DOMAIN authStates
<1>1. CASE a \in Known
  <2>1. authStates' = [authStates EXCEPT ![a] = Auth!Fail(authStates[a])]
    BY <1>1 DEF Auth!RecordAuthFailure, Auth!Known
  <2>2. e = Auth!Fail(authStates[a])
    BY <1>1 DEF Before
  <2> HIDE DEF e
  <2>3. authStates' = [b \in Known \cup {a} |-> IF b = a THEN e ELSE authStates[b]]
    BY <1>1, <2>1, <2>2 DEF AuthTable
  <2> QED
    BY <1>1, <2>3 DEF Written, e
<1>2. CASE a \notin Known
  <2>1. e = Auth!Fail([attempts |-> 0, lastAttempt |-> Auth!Zero, blockedAt |-> Auth!Zero])
    BY <1>2 DEF Before, Fresh, Auth!Zero
  <2> HIDE DEF e
  <2>2. PICK K \in Auth!Room :
          authStates' = [b \in K \cup {a} |-> IF b = a THEN e ELSE authStates[b]]
    BY <1>2, <2>1 DEF Auth!RecordAuthFailure, Auth!Known
  <2>3. K \in SUBSET Known /\ Cardinality(K) < MaxTracked
    <3>1. MaxTracked \in Nat /\ IsFiniteSet(Known) /\ Cardinality(Known) \in Nat
          /\ Cardinality(Known) <= MaxTracked
      BY RateLimiterAssumption, SubsetSize DEF AuthTable
    <3>2. CASE K = Known /\ Cardinality(Known) < MaxTracked
      BY <3>2
    <3>3. ASSUME NEW v \in Known, K = Known \ {v} PROVE K \in SUBSET Known /\ Cardinality(K) < MaxTracked
      <4>1. Cardinality(K) = Cardinality(Known) - 1
        BY <3>1, <3>3, FS_RemoveElement
      <4> QED
        BY <3>1, <3>3, <4>1
    <3>4. (Cardinality(Known) < MaxTracked /\ K = Known) \/ \E v \in Known : K = Known \ {v}
      <4>0. Auth!Cardinality(Known) = Cardinality(Known)
        BY DEF Auth!Cardinality, Cardinality
      <4>1. Cardinality(Known) < MaxTracked => Auth!Room = {Known}
        BY <4>0 DEF Auth!Room, Auth!Known
      <4>2. ~(Cardinality(Known) < MaxTracked) => Auth!Room = {Known \ {v} : v \in Known}
        BY <4>0 DEF Auth!Room, Auth!Known
      <4> QED
        BY <2>2, <4>1, <4>2
    <3> QED
      BY <3>2, <3>3, <3>4
  <2> QED
    BY <2>2, <2>3 DEF Written, e
<1> QED
  BY <1>1, <1>2

\* The same for the limiter of missing credentials.
LEMMA NoCredDrops ==
  ASSUME AuthTable(noCredStates), NEW a,
         NoCred!NotBlocked(a) \/ NoCred!CleanupRateLimiter
  PROVE  Dropped(noCredStates, noCredStates')
<1>1. CASE NoCred!NotBlocked(a) /\ ~NoCred!HasBlock(a)
  <2>1. noCredStates' = [b \in DOMAIN noCredStates |-> noCredStates[b]]
    BY <1>1 DEF NoCred!NotBlocked, AuthTable
  <2> QED
    BY <2>1 DEF Dropped
<1>2. CASE NoCred!NotBlocked(a) /\ NoCred!HasBlock(a)
  <2>1. noCredStates' = [b \in DOMAIN noCredStates \ {a} |-> noCredStates[b]]
    BY <1>2 DEF NoCred!NotBlocked, NoCred!Known, NoCred!Restrict
  <2> QED
    BY <2>1 DEF Dropped
<1>3. CASE NoCred!CleanupRateLimiter
  <2> DEFINE K == {b \in DOMAIN noCredStates : ~NoCred!Forgettable(b)}
  <2>1. noCredStates' = [b \in K |-> noCredStates[b]]
    BY <1>3 DEF NoCred!CleanupRateLimiter, NoCred!Known, NoCred!Restrict
  <2>2. K \in SUBSET DOMAIN noCredStates
    OBVIOUS
  <2> HIDE DEF K
  <2> QED
    BY <2>1, <2>2 DEF Dropped
<1> QED
  BY <1>1, <1>2, <1>3

\* recordAuthFailure of the limiter of missing credentials.
LEMMA NoCredWrites ==
  ASSUME AuthTable(noCredStates), NEW a \in Addrs, NoCred!RecordAuthFailure(a)
  PROVE  Written(noCredStates, noCredStates', a, NoCred!Fail(Before(noCredStates, a)))
<1> DEFINE e == NoCred!Fail(Before(noCredStates, a))
           Known == DOMAIN noCredStates
<1>1. CASE a \in Known
  <2>1. noCredStates' = [noCredStates EXCEPT ![a] = NoCred!Fail(noCredStates[a])]
    BY <1>1 DEF NoCred!RecordAuthFailure, NoCred!Known
  <2>2. e = NoCred!Fail(noCredStates[a])
    BY <1>1 DEF Before
  <2> HIDE DEF e
  <2>3. noCredStates' = [b \in Known \cup {a} |-> IF b = a THEN e ELSE noCredStates[b]]
    BY <1>1, <2>1, <2>2 DEF AuthTable
  <2> QED
    BY <1>1, <2>3 DEF Written, e
<1>2. CASE a \notin Known
  <2>1. e = NoCred!Fail([attempts |-> 0, lastAttempt |-> NoCred!Zero, blockedAt |-> NoCred!Zero])
    BY <1>2 DEF Before, Fresh, NoCred!Zero
  <2> HIDE DEF e
  <2>2. PICK K \in NoCred!Room :
          noCredStates' = [b \in K \cup {a} |-> IF b = a THEN e ELSE noCredStates[b]]
    BY <1>2, <2>1 DEF NoCred!RecordAuthFailure, NoCred!Known
  <2>3. K \in SUBSET Known /\ Cardinality(K) < MaxTracked
    <3>1. MaxTracked \in Nat /\ IsFiniteSet(Known) /\ Cardinality(Known) \in Nat
          /\ Cardinality(Known) <= MaxTracked
      BY RateLimiterAssumption, SubsetSize DEF AuthTable
    <3>2. CASE K = Known /\ Cardinality(Known) < MaxTracked
      BY <3>2
    <3>3. ASSUME NEW v \in Known, K = Known \ {v} PROVE K \in SUBSET Known /\ Cardinality(K) < MaxTracked
      <4>1. Cardinality(K) = Cardinality(Known) - 1
        BY <3>1, <3>3, FS_RemoveElement
      <4> QED
        BY <3>1, <3>3, <4>1
    <3>4. (Cardinality(Known) < MaxTracked /\ K = Known) \/ \E v \in Known : K = Known \ {v}
      <4>0. NoCred!Cardinality(Known) = Cardinality(Known)
        BY DEF NoCred!Cardinality, Cardinality
      <4>1. Cardinality(Known) < MaxTracked => NoCred!Room = {Known}
        BY <4>0 DEF NoCred!Room, NoCred!Known
      <4>2. ~(Cardinality(Known) < MaxTracked) => NoCred!Room = {Known \ {v} : v \in Known}
        BY <4>0 DEF NoCred!Room, NoCred!Known
      <4> QED
        BY <2>2, <4>1, <4>2
    <3> QED
      BY <3>2, <3>3, <3>4
  <2> QED
    BY <2>2, <2>3 DEF Written, e
<1> QED
  BY <1>1, <1>2

-----------------------------------------------------------------------------
(* The invariant of the chain *)

\* A request in the chain is counted under the address of its own client.
ReqInv ==
  /\ req \in [Reqs -> Request]
  /\ due \subseteq {"rate", "auth"}
  /\ made \in 0..MaxRequests
  /\ failures \in [Addrs -> Nat]
  /\ \A r \in Reqs : req[r].pc # "idle" => AuthAddr(req[r]) = req[r].client

RateAges ==
  /\ Cardinality(Tracked) <= MaxTracked
  /\ \A a \in Tracked :
       now - requests[a].windowStart <= 2 * Window + Elapsed("rate")

\* An entry of authLimiter: it is blocked exactly when it has reached the limit,
\* by failures of its own address, and cleanup has seen to its age.
EntryInv(e, fails, n, elapsed) ==
  /\ e.lastAttempt <= n
  /\ e.blockedAt # -1 => e.blockedAt <= e.lastAttempt
  /\ e.blockedAt = -1 <=> e.attempts < FailLimit
  /\ n - e.lastAttempt < BlockWindow + elapsed
  /\ fails >= e.attempts \/ fails >= FailLimit

Entries ==
  \A a \in DOMAIN authStates : EntryInv(authStates[a], failures[a], now, Elapsed("auth"))

\* The requests past the check of the block and before the record of the failure.
Pending(a) == {r \in Reqs : req[r].pc = "record" /\ AuthAddr(req[r]) = a}

PendingInv ==
  \A a \in DOMAIN authStates :
    authStates[a].attempts + Cardinality(Pending(a)) <= FailLimit - 1 + Cardinality(Reqs)

ChainInv ==
  /\ RateInv
  /\ RateAges
  /\ AuthTable(authStates)
  /\ AuthTable(noCredStates)
  /\ ReqInv
  /\ Entries
  /\ PendingInv

\* The address a request is counted under is an address.
LEMMA AddrType ==
  ASSUME NEW q \in Request
  PROVE  AuthAddr(q) \in Addrs /\ ClientIP(q, TrustProxy) \in Addrs
BY DEF AuthAddr, ClientIP, Request

\* Through a trusted proxy or without one, a request is attributed to who sent it.
LEMMA IncomingAddr ==
  ASSUME NEW c \in Addrs, NEW k \in {"good", "wrong", "none"}
  PROVE  AuthAddr(Incoming(c, k)) = c
<1>1. Proxy \in Addrs /\ "" \notin Addrs /\ c # ""
  BY ChainAssumption
<1> QED
  BY <1>1 DEF Incoming, AuthAddr, ClientIP

\* The idle goroutine.
LEMMA IdleFacts == Idle \in Request /\ Idle.pc = "idle"
BY ChainAssumption DEF Idle, Request

\* The pc of a request that passes the check of the block.
Passed(k) == CASE k = "none" -> "noCred" [] k = "wrong" -> "record" [] k = "good" -> "rate"

\* A request that arrives is refused, or passes under its client's address.
LEMMA ArriveFacts ==
  ASSUME NEW r \in Reqs, NEW c \in Addrs, NEW k \in {"good", "wrong", "none"}, Arrive(r, c, k)
  PROVE  \/ /\ req' = [req EXCEPT ![r] = Idle]
            /\ authStates' = authStates
         \/ /\ Auth!NotBlocked(c)
            /\ \E q \in Request :
                 /\ req' = [req EXCEPT ![r] = q]
                 /\ q.pc = Passed(k) /\ q.client = c /\ AuthAddr(q) = c
<1> DEFINE q == [client |-> c, remote |-> IF TrustProxy THEN Proxy ELSE c,
                 realIP |-> IF TrustProxy /\ c # Proxy THEN c ELSE "", creds |-> k,
                 pc |-> Passed(k)]
<1>1. AuthAddr(Incoming(c, k)) = c
  BY IncomingAddr
<1>2. Passed(k) \in {"noCred", "record", "rate"}
  BY DEF Passed
<1>3. q = [Incoming(c, k) EXCEPT !.pc = Passed(k)]
  <2> DEFINE p == Passed(k)
             i == IF TrustProxy THEN Proxy ELSE c
             j == IF TrustProxy /\ c # Proxy THEN c ELSE ""
  <2>1. Incoming(c, k) = [client |-> c, remote |-> i, realIP |-> j, creds |-> k, pc |-> "idle"]
    BY DEF Incoming
  <2>2. q = [client |-> c, remote |-> i, realIP |-> j, creds |-> k, pc |-> p]
    OBVIOUS
  <2> HIDE DEF p, i, j, q
  <2>3. q = [Incoming(c, k) EXCEPT !.pc = p]
    BY <2>1, <2>2
  <2> QED
    BY <2>3 DEF p
<1>4. \/ Auth!IsAuthBlocked(c) /\ Answer(r)
      \/ Auth!NotBlocked(c) /\ req' = [req EXCEPT ![r] = q]
  BY <1>1, <1>3 DEF Arrive, Passed
<1>5. q \in Request /\ q.pc = Passed(k) /\ q.client = c
  BY <1>2, ChainAssumption DEF Request
<1>6. AuthAddr(q) = c
  BY ChainAssumption DEF AuthAddr, ClientIP
<1> HIDE DEF q
<1> QED
  BY <1>4, <1>5, <1>6 DEF Auth!IsAuthBlocked, Answer

\* Every step keeps RateInv.
LEMMA StepRate ==
  ASSUME ChainInv, [Next]_vars
  PROVE  RateInv'
<1>0. RateInv /\ ReqInv /\ now \in Times
  BY DEF ChainInv, RateInv
<1>1. CASE UNCHANGED <<now, requests, accepted>>
  BY <1>0, <1>1 DEF RateInv, RateTypeOK, Tracked
<1>2. ASSUME NEW r \in Reqs, RateLimit(r) PROVE RateInv'
  <2> DEFINE a == ClientIP(req[r], TrustProxy)
  <2>1. a \in Addrs
    BY <1>0, AddrType DEF ReqInv
  <2>2. now' = now /\ (Accept(a) \/ Refuse(a))
    BY <1>2 DEF RateLimit
  <2> HIDE DEF a
  <2> QED
    BY <1>0, <2>1, <2>2, TrackNewKeeps, StartOverKeeps, CountStepKeeps, RefuseKeeps DEF Accept
<1>3. CASE Tick
  <2>1. now < MaxTime /\ now' = now + 1 /\ Forget(now + 1)
    BY <1>3 DEF Tick
  <2> DEFINE n == now + 1
  <2>2. n \in Times
    BY <1>0, <2>1, RateLimiterAssumption DEF Times
  <2>3. n = now + 1 /\ now' = n /\ Forget(n)
    BY <2>1
  <2> HIDE DEF n
  <2> QED
    BY <1>0, <2>2, <2>3, ForgetKeeps
<1>4. CASE CleanRate
  BY <1>0, <1>4, CleanupKeeps DEF CleanRate
<1>5. ASSUME NEW r \in Reqs, CheckNoCred(r) \/ RecordNoCred(r) \/ RecordFailure(r)
      PROVE UNCHANGED <<now, requests, accepted>>
  BY <1>5 DEF CheckNoCred, RecordNoCred, RecordFailure
<1>6. ASSUME NEW r \in Reqs, NEW c \in Addrs, NEW k \in {"good", "wrong", "none"}, Arrive(r, c, k)
      PROVE UNCHANGED <<now, requests, accepted>>
  BY <1>6 DEF Arrive
<1>7. CleanAuth \/ Over \/ UNCHANGED vars => UNCHANGED <<now, requests, accepted>>
  BY DEF CleanAuth, Over, vars
<1> QED
  BY <1>1, <1>2, <1>3, <1>4, <1>5, <1>6, <1>7 DEF Next

\* Every step keeps ReqInv.
LEMMA StepReq ==
  ASSUME ChainInv, [Next]_vars
  PROVE  ReqInv'
<1>0. ReqInv /\ MaxRequests \in Nat
  BY ChainAssumption DEF ChainInv
<1>1. ASSUME NEW r \in Reqs, NEW q \in Request, req' = [req EXCEPT ![r] = q],
             q.pc # "idle" => AuthAddr(q) = q.client
      PROVE  /\ req' \in [Reqs -> Request]
             /\ \A s \in Reqs : req'[s].pc # "idle" => AuthAddr(req'[s]) = req'[s].client
  <2>1. req' \in [Reqs -> Request] /\ \A s \in Reqs : req'[s] = IF s = r THEN q ELSE req[s]
    BY <1>0, <1>1 DEF ReqInv
  <2>2. ASSUME NEW s \in Reqs, req'[s].pc # "idle" PROVE AuthAddr(req'[s]) = req'[s].client
    <3>1. CASE s = r
      BY <1>1, <2>1, <2>2, <3>1
    <3>2. CASE s # r
      BY <1>0, <2>1, <2>2, <3>2 DEF ReqInv
    <3> QED
      BY <3>1, <3>2
  <2> QED
    BY <2>1, <2>2
<1>a. ASSUME req' \in [Reqs -> Request],
             \A s \in Reqs : req'[s].pc # "idle" => AuthAddr(req'[s]) = req'[s].client,
             due' \subseteq {"rate", "auth"}, made' \in 0..MaxRequests,
             failures' \in [Addrs -> Nat]
      PROVE  ReqInv'
  BY <1>a DEF ReqInv, AuthAddr, ClientIP
<1>2. ASSUME NEW r \in Reqs, NEW c \in Addrs, NEW k \in {"good", "wrong", "none"}, Arrive(r, c, k)
      PROVE ReqInv'
  <2>1. made' = made + 1 /\ made < MaxRequests /\ due' = due /\ failures' = failures
    BY <1>2 DEF Arrive
  <2>2. \E q \in Request : req' = [req EXCEPT ![r] = q] /\ (q.pc # "idle" => AuthAddr(q) = q.client)
    <3>1. CASE req' = [req EXCEPT ![r] = Idle]
      BY <3>1, IdleFacts
    <3> QED
      BY <1>2, <3>1, ArriveFacts
  <2>3. made' \in 0..MaxRequests
    BY <1>0, <2>1 DEF ReqInv
  <2> QED
    BY <1>0, <1>1, <1>a, <2>1, <2>2, <2>3 DEF ReqInv
<1>3. ASSUME NEW r \in Reqs, CheckNoCred(r) PROVE ReqInv'
  <2>1. made' = made /\ due' = due /\ failures' = failures /\ req[r].pc = "noCred"
    BY <1>3 DEF CheckNoCred
  <2>2. \E q \in Request : req' = [req EXCEPT ![r] = q] /\ (q.pc # "idle" => AuthAddr(q) = q.client)
    <3>1. CASE req' = [req EXCEPT ![r] = Idle]
      BY <3>1, IdleFacts
    <3>2. CASE req' = [req EXCEPT ![r].pc = "recordNoCred"]
      <4> DEFINE q == [req[r] EXCEPT !.pc = "recordNoCred"]
      <4>1. req[r] \in Request /\ AuthAddr(req[r]) = req[r].client
        BY <1>0, <2>1 DEF ReqInv
      <4>2. q \in Request /\ AuthAddr(q) = q.client
        BY <4>1 DEF Request, AuthAddr, ClientIP
      <4>3. req' = [req EXCEPT ![r] = q]
        BY <3>2
      <4> HIDE DEF q
      <4> QED
        BY <4>2, <4>3
    <3> QED
      BY <1>3, <3>1, <3>2 DEF CheckNoCred, Answer
  <2> QED
    BY <1>0, <1>1, <1>a, <2>1, <2>2 DEF ReqInv
<1>4. ASSUME NEW r \in Reqs, RecordNoCred(r) \/ RecordFailure(r) \/ RateLimit(r) PROVE ReqInv'
  <2>1. made' = made /\ due' = due /\ req' = [req EXCEPT ![r] = Idle]
    BY <1>4 DEF RecordNoCred, RecordFailure, RateLimit, Answer
  <2>2. /\ req' \in [Reqs -> Request]
        /\ \A s \in Reqs : req'[s].pc # "idle" => AuthAddr(req'[s]) = req'[s].client
    BY <1>1, <2>1, IdleFacts
  <2>3. failures' \in [Addrs -> Nat]
    <3>1. CASE failures' = failures
      BY <1>0, <3>1 DEF ReqInv
    <3>2. CASE RecordFailure(r)
      <4>1. failures' = [failures EXCEPT ![req[r].client] = IF @ < FailLimit THEN @ + 1 ELSE @]
        BY <3>2 DEF RecordFailure
      <4>2. failures \in [Addrs -> Nat] /\ req[r].client \in Addrs
        BY <1>0 DEF ReqInv, Request
      <4> QED
        BY <4>1, <4>2
    <3> QED
      BY <1>4, <3>1, <3>2 DEF RecordNoCred, RateLimit
  <2> QED
    BY <1>0, <1>a, <2>1, <2>2, <2>3 DEF ReqInv
<1>5. CASE Tick \/ CleanRate \/ CleanAuth \/ Over \/ UNCHANGED vars
  <2>1. req' = req /\ made' = made /\ failures' = failures /\ due' \subseteq {"rate", "auth"}
    BY <1>0, <1>5 DEF Tick, CleanRate, CleanAuth, Over, vars, ReqInv
  <2> QED
    BY <1>0, <1>a, <2>1 DEF ReqInv
<1> QED
  BY <1>2, <1>3, <1>4, <1>5 DEF Next

\* Every step leaves two tables of failures within maxTrackedIPs.
LEMMA StepTables ==
  ASSUME ChainInv, [Next]_vars
  PROVE  AuthTable(authStates') /\ AuthTable(noCredStates')
<1>0. AuthTable(authStates) /\ AuthTable(noCredStates) /\ ReqInv /\ now \in Nat
  BY DEF ChainInv, RateInv, RateTypeOK
<1>1. ASSUME NEW r \in Reqs, NEW c \in Addrs, NEW k \in {"good", "wrong", "none"}, Arrive(r, c, k)
      PROVE  AuthTable(authStates') /\ noCredStates' = noCredStates
  <2>1. noCredStates' = noCredStates
    BY <1>1 DEF Arrive
  <2>2. authStates' = authStates \/ Auth!NotBlocked(c)
    BY <1>1, ArriveFacts
  <2> QED
    BY <1>0, <2>1, <2>2, AuthDrops, DroppedTable
<1>2. ASSUME NEW r \in Reqs, CheckNoCred(r)
      PROVE  AuthTable(noCredStates') /\ authStates' = authStates
  <2>1. authStates' = authStates
    BY <1>2 DEF CheckNoCred
  <2>2. noCredStates' = noCredStates \/ NoCred!NotBlocked(AuthAddr(req[r]))
    BY <1>2 DEF CheckNoCred, NoCred!IsAuthBlocked
  <2> QED
    BY <1>0, <2>1, <2>2, NoCredDrops, DroppedTable
<1>3. ASSUME NEW r \in Reqs, RecordNoCred(r)
      PROVE  AuthTable(noCredStates') /\ authStates' = authStates
  <2> DEFINE a == AuthAddr(req[r])
             b == Before(noCredStates, a)
             e == NoCred!Fail(b)
  <2>1. authStates' = authStates /\ NoCred!RecordAuthFailure(a)
    BY <1>3 DEF RecordNoCred
  <2>2. a \in Addrs
    BY <1>0, AddrType DEF ReqInv
  <2>3. b \in Entry
    BY <1>0 DEF Before, Fresh, Entry, AuthTable
  <2>4. e \in Entry
    BY <1>0, <2>3 DEF NoCred!Fail, Entry
  <2> HIDE DEF a
  <2>5. Written(noCredStates, noCredStates', a, e)
    BY <1>0, <2>1, <2>2, NoCredWrites
  <2> HIDE DEF e
  <2> QED
    BY <1>0, <2>1, <2>2, <2>4, <2>5, WrittenTable
<1>4. ASSUME NEW r \in Reqs, RecordFailure(r)
      PROVE  AuthTable(authStates') /\ noCredStates' = noCredStates
  <2> DEFINE a == AuthAddr(req[r])
             b == Before(authStates, a)
             e == Auth!Fail(b)
  <2>1. noCredStates' = noCredStates /\ Auth!RecordAuthFailure(a)
    BY <1>4 DEF RecordFailure
  <2>2. a \in Addrs
    BY <1>0, AddrType DEF ReqInv
  <2>3. b \in Entry
    BY <1>0 DEF Before, Fresh, Entry, AuthTable
  <2>4. e \in Entry
    BY <1>0, <2>3 DEF Auth!Fail, Entry
  <2> HIDE DEF a
  <2>5. Written(authStates, authStates', a, e)
    BY <1>0, <2>1, <2>2, AuthWrites
  <2> HIDE DEF e
  <2> QED
    BY <1>0, <2>1, <2>2, <2>4, <2>5, WrittenTable
<1>5. CASE CleanAuth
  BY <1>0, <1>5, AuthDrops, NoCredDrops, DroppedTable DEF CleanAuth
<1>6. ASSUME NEW r \in Reqs, RateLimit(r)
      PROVE  authStates' = authStates /\ noCredStates' = noCredStates
  BY <1>6 DEF RateLimit
<1>7. Tick \/ CleanRate \/ Over \/ UNCHANGED vars
        => authStates' = authStates /\ noCredStates' = noCredStates
  BY DEF Tick, CleanRate, Over, vars
<1> QED
  BY <1>0, <1>1, <1>2, <1>3, <1>4, <1>5, <1>6, <1>7 DEF Next

-----------------------------------------------------------------------------
(* Sizes and ages of the rate limiter's table *)

\* Every step keeps RateAges: windows only move forward, and cleanup runs in time.
LEMMA StepAges ==
  ASSUME ChainInv, [Next]_vars
  PROVE  RateAges'
<1>0. /\ RateInv /\ RateAges /\ ReqInv /\ now \in Nat /\ Tracked \subseteq Addrs
      /\ requests \in [Tracked -> SlidingWindow]
      /\ Window \in Nat \ {0} /\ MaxTracked \in Nat \ {0} /\ CleanupInterval \in Nat \ {0}
  BY RateLimiterAssumption, ChainAssumption DEF ChainInv, RateInv, RateTypeOK
<1>1. Elapsed("rate") \in 0..CleanupInterval
  BY <1>0, ElapsedBound
<1>2. ASSUME UNCHANGED <<now, due>>, NEW D, Tracked' = D, Cardinality(D) <= MaxTracked,
             \A b \in D : requests'[b] = NewWindow \/
                          /\ b \in Tracked
                          /\ requests'[b].windowStart \in Nat
                          /\ requests'[b].windowStart >= requests[b].windowStart
      PROVE  RateAges'
  <2>1. Elapsed("rate")' = Elapsed("rate")
    BY <1>2 DEF Elapsed
  <2>2. ASSUME NEW b \in D PROVE now - requests'[b].windowStart <= 2 * Window + Elapsed("rate")
    <3>1. CASE requests'[b] = NewWindow
      <4>1. requests'[b].windowStart = now
        BY <3>1 DEF NewWindow
      <4> QED
        BY <4>1, <1>0, <1>1
    <3>2. CASE /\ b \in Tracked
               /\ requests'[b].windowStart \in Nat
               /\ requests'[b].windowStart >= requests[b].windowStart
      <4>1. requests[b].windowStart \in Nat
        BY <3>2, <1>0 DEF SlidingWindow
      <4>2. now - requests[b].windowStart <= 2 * Window + Elapsed("rate")
        BY <3>2, <1>0 DEF RateAges
      <4> QED
        BY <3>2, <4>1, <4>2, <1>0, <1>1
    <3> QED
      BY <1>2, <3>1, <3>2
  <2> QED
    BY <1>2, <2>1, <2>2 DEF RateAges
<1>3. ASSUME NEW a \in Addrs, UNCHANGED <<now, due>>, TrackNew(a) PROVE RateAges'
  <2>1. CASE Cardinality(Tracked) < MaxTracked /\ requests' = Put(requests, a, NewWindow)
    <3> DEFINE D == Tracked \cup {a}
    <3>1. requests' = [b \in D |-> IF b = a THEN NewWindow ELSE requests[b]]
      BY <2>1 DEF Put, Tracked
    <3>2. Tracked' = D
      BY <3>1 DEF Tracked
    <3>3. IsFiniteSet(Tracked) /\ Cardinality(Tracked) \in Nat
      BY <1>0, SubsetSize
    <3>4. Cardinality(D) = Cardinality(Tracked) + 1
      BY <1>3, <3>3, FS_AddElement DEF TrackNew
    <3>5. Cardinality(D) <= MaxTracked
      BY <1>0, <2>1, <3>3, <3>4
    <3>6. ASSUME NEW b \in D
          PROVE  requests'[b] = NewWindow \/
                          /\ b \in Tracked
                          /\ requests'[b].windowStart \in Nat
                          /\ requests'[b].windowStart >= requests[b].windowStart
      <4>1. CASE b = a
        BY <3>1, <4>1
      <4>2. CASE b # a
        <5>1. b \in Tracked /\ requests'[b] = requests[b] /\ requests[b].windowStart \in Nat
          BY <1>0, <3>1, <4>2 DEF SlidingWindow
        <5> QED
          BY <5>1
      <4> QED
        BY <4>1, <4>2
    <3> HIDE DEF D
    <3> QED
      BY <1>2, <1>3, <3>2, <3>5, <3>6
  <2>2. ASSUME NEW v \in Oldest, requests' = Put(Restrict(requests, Tracked \ {v}), a, NewWindow)
        PROVE  RateAges'
    <3> DEFINE K == Tracked \ {v}
               D == K \cup {a}
               h == Restrict(requests, K)
    <3>0. h = [b \in K |-> requests[b]] /\ v \in Tracked
      BY DEF Restrict, Oldest
    <3>1. requests' = [b \in D |-> IF b = a THEN NewWindow ELSE requests[b]]
      <4>1. requests' = [y \in DOMAIN h \cup {a} |-> IF y = a THEN NewWindow ELSE h[y]]
        BY <2>2 DEF Put
      <4> HIDE DEF h
      <4>2. DOMAIN h = K
        BY <3>0
      <4>3. ASSUME NEW y \in D
            PROVE (IF y = a THEN NewWindow ELSE h[y]) = IF y = a THEN NewWindow ELSE requests[y]
        BY <3>0
      <4> QED
        BY <4>1, <4>2, <4>3
    <3>2. Tracked' = D
      BY <3>1 DEF Tracked
    <3>3. IsFiniteSet(Tracked) /\ Cardinality(Tracked) \in Nat /\ Cardinality(Tracked) <= MaxTracked
      BY <1>0, SubsetSize DEF RateAges
    <3>4. Cardinality(K) = Cardinality(Tracked) - 1 /\ IsFiniteSet(K)
      BY <3>0, <3>3, FS_RemoveElement
    <3>5. Cardinality(D) = Cardinality(K) + 1
      BY <1>3, <3>4, FS_AddElement DEF TrackNew
    <3>6. Cardinality(D) <= MaxTracked
      BY <1>0, <3>3, <3>4, <3>5
    <3>7. ASSUME NEW b \in D
          PROVE  requests'[b] = NewWindow \/
                          /\ b \in Tracked
                          /\ requests'[b].windowStart \in Nat
                          /\ requests'[b].windowStart >= requests[b].windowStart
      <4>1. CASE b = a
        BY <3>1, <4>1
      <4>2. CASE b # a
        <5>1. b \in Tracked /\ requests'[b] = requests[b] /\ requests[b].windowStart \in Nat
          BY <1>0, <3>1, <4>2 DEF SlidingWindow
        <5> QED
          BY <5>1
      <4> QED
        BY <4>1, <4>2
    <3> HIDE DEF D, K
    <3> QED
      BY <1>2, <1>3, <3>2, <3>6, <3>7
  <2> QED
    BY <1>3, <2>1, <2>2 DEF TrackNew
<1>4. ASSUME NEW a \in Addrs, UNCHANGED <<now, due>>, StartOver(a) \/ Count(a) \/ Refuse(a)
      PROVE  RateAges'
  <2>1. a \in Tracked
    BY <1>4 DEF StartOver, Count, Refuse
  <2>2. ASSUME NEW sv, requests' = [requests EXCEPT ![a] = sv],
               \/ sv = NewWindow
               \/ sv.windowStart \in Nat /\ sv.windowStart >= requests[a].windowStart
        PROVE  RateAges'
    <3>1. requests' = [b \in Tracked |-> IF b = a THEN sv ELSE requests[b]]
      BY <1>0, <2>2
    <3>2. Tracked' = Tracked
      BY <3>1 DEF Tracked
    <3>3. ASSUME NEW b \in Tracked
          PROVE  requests'[b] = NewWindow \/
                          /\ b \in Tracked
                          /\ requests'[b].windowStart \in Nat
                          /\ requests'[b].windowStart >= requests[b].windowStart
      <4>1. CASE b = a
        BY <2>2, <3>1, <4>1
      <4>2. CASE b # a
        <5>1. requests'[b] = requests[b] /\ requests[b].windowStart \in Nat
          BY <1>0, <3>1, <4>2 DEF SlidingWindow
        <5> QED
          BY <5>1
      <4> QED
        BY <4>1, <4>2
    <3>4. Cardinality(Tracked) <= MaxTracked
      BY <1>0 DEF RateAges
    <3> QED
      BY <1>2, <1>4, <3>2, <3>3, <3>4
  <2>3. CASE StartOver(a)
    BY <2>2, <2>3 DEF StartOver
  <2>4. ASSUME ~Stale(a) PROVE LET sw == Rotate(requests[a]) IN
                 /\ sw \in SlidingWindow
                 /\ sw.windowStart \in Nat /\ sw.windowStart >= requests[a].windowStart
    <3> DEFINE rw == requests[a]
               e == now - rw.windowStart
    <3>1. /\ rw \in SlidingWindow /\ rw.windowStart \in Nat /\ rw.windowStart <= now
          /\ accepted[a] \in [Times -> Nat] /\ now \in Times
          /\ WindowInv(accepted[a], rw, now)
      BY <1>0, <2>1 DEF RateInv, RateTypeOK, Times, WindowInv, SlidingWindow
    <3>2. now - rw.windowStart <= 2 * Window
      BY <2>4, <3>1, <1>0 DEF Stale
    <3>3. Rotate(rw) \in SlidingWindow
      BY <3>1, <3>2, RotateKeeps
    <3>4. Rotate(rw).windowStart \in Nat
      BY <3>3 DEF SlidingWindow
    <3>5. CASE e <= Window
      <4>1. Rotate(rw) = rw
        BY <1>0, <3>1, <3>5 DEF Rotate
      <4> QED
        BY <3>1, <3>3, <4>1
    <3>6. CASE e > Window
      <4>1. Rotate(rw).windowStart = rw.windowStart + Window * (e \div Window)
        BY <3>6 DEF Rotate
      <4>2. e \in Nat /\ Window < e /\ e <= 2 * Window
        BY <1>0, <3>1, <3>2, <3>6
      <4> HIDE DEF e
      <4>3. Window * (e \div Window) = IF e = 2 * Window THEN 2 * Window ELSE Window
        BY <1>0, <4>2, Quotient
      <4>4. Rotate(rw).windowStart >= rw.windowStart
        BY <1>0, <3>1, <4>1, <4>3
      <4> QED
        BY <3>3, <3>4, <4>4
    <3> QED
      BY <1>0, <3>1, <3>5, <3>6
  <2>5. CASE Count(a)
    <3> DEFINE sw == Rotate(requests[a])
               sv == [sw EXCEPT !.currCount = sw.currCount + 1]
    <3>1. ~Stale(a) /\ requests' = [requests EXCEPT ![a] = sv]
      BY <2>5 DEF Count
    <3>2. /\ sw \in SlidingWindow
          /\ sw.windowStart \in Nat /\ sw.windowStart >= requests[a].windowStart
      BY <2>4, <3>1
    <3> HIDE DEF sw
    <3>3. sv.windowStart = sw.windowStart
      BY <3>2 DEF SlidingWindow
    <3> HIDE DEF sv
    <3> QED
      BY <2>2, <3>1, <3>2, <3>3
  <2>6. CASE Refuse(a)
    <3>1. ~Stale(a) /\ requests' = [requests EXCEPT ![a] = Rotate(requests[a])]
      BY <2>6 DEF Refuse
    <3> QED
      BY <2>2, <2>4, <3>1
  <2> QED
    BY <1>4, <2>3, <2>5, <2>6
<1>5. CASE CleanRate
  <2> DEFINE D == {a \in Tracked : ~Stale(a)}
  <2>1. requests' = [b \in D |-> requests[b]] /\ now' = now
    BY <1>5 DEF CleanRate, CleanupStaleKeys, Restrict
  <2>2. Tracked' = D
    BY <2>1 DEF Tracked
  <2>3. Cardinality(D) <= MaxTracked
    <3>1. Cardinality(D) <= Cardinality(Tracked) /\ Cardinality(D) \in Nat /\ Cardinality(Tracked) \in Nat
      BY <1>0, SubsetSize
    <3> QED
      BY <1>0, <3>1 DEF RateAges
  <2>4. Elapsed("rate")' \in Nat
    <3>1. (now \in Nat)'
      BY <1>0, <2>1
    <3>2. now % CleanupInterval \in Nat
      BY <1>0
    <3> QED
      BY <1>0, <2>1, <3>2 DEF Elapsed
  <2>5. ASSUME NEW b \in D PROVE now - requests'[b].windowStart <= 2 * Window + Elapsed("rate")'
    <3>1. requests'[b] = requests[b] /\ requests[b].windowStart \in Nat
      BY <1>0, <2>1 DEF SlidingWindow
    <3>2. ~(now - requests[b].windowStart > 2 * Window)
      BY DEF Stale
    <3> QED
      BY <1>0, <2>4, <3>1, <3>2
  <2> HIDE DEF D
  <2> QED
    BY <2>1, <2>2, <2>3, <2>5 DEF RateAges
<1>6. CASE Tick
  <2>1. Elapsed("rate") \in Nat /\ Elapsed("rate")' = Elapsed("rate") + 1
    BY <1>0, <1>6, ElapsedTick
  <2>2. now' = now + 1 /\ requests' = requests /\ Tracked' = Tracked
    BY <1>6 DEF Tick, Forget, Tracked
  <2>3. ASSUME NEW b \in Tracked
        PROVE  now + 1 - requests[b].windowStart <= 2 * Window + (Elapsed("rate") + 1)
    <3>1. now - requests[b].windowStart <= 2 * Window + Elapsed("rate")
      BY <1>0 DEF RateAges
    <3>2. requests[b].windowStart \in Nat
      BY <1>0 DEF SlidingWindow
    <3> QED
      BY <1>0, <2>1, <3>1, <3>2
  <2>4. ASSUME NEW b \in Tracked
        PROVE  now' - requests'[b].windowStart <= 2 * Window + Elapsed("rate")'
    <3>1. now' - requests'[b].windowStart = now + 1 - requests[b].windowStart
      <4>1. requests[b].windowStart \in Nat
        BY <1>0 DEF SlidingWindow
      <4> QED
        BY <1>0, <2>2, <4>1
    <3>2. 2 * Window + Elapsed("rate")' = 2 * Window + (Elapsed("rate") + 1)
      BY <2>1
    <3> QED
      BY <2>3, <3>1, <3>2
  <2>5. Cardinality(Tracked') <= MaxTracked
    BY <1>0, <2>2 DEF RateAges
  <2> QED
    BY <2>2, <2>4, <2>5 DEF RateAges
<1>7. ASSUME UNCHANGED <<now, requests>>, "rate" \in due <=> "rate" \in due' PROVE RateAges'
  <2>1. Elapsed("rate")' = Elapsed("rate") /\ Tracked' = Tracked
    BY <1>7 DEF Elapsed, Tracked
  <2> QED
    BY <1>0, <1>7, <2>1 DEF RateAges
<1>8. ASSUME NEW r \in Reqs, RateLimit(r) PROVE RateAges'
  <2> DEFINE a == ClientIP(req[r], TrustProxy)
  <2>1. a \in Addrs
    BY <1>0, AddrType DEF ReqInv
  <2>2. UNCHANGED <<now, due>> /\ (Accept(a) \/ Refuse(a))
    BY <1>8 DEF RateLimit
  <2> HIDE DEF a
  <2> QED
    BY <1>3, <1>4, <2>1, <2>2 DEF Accept
<1>9. ASSUME NEW r \in Reqs, CheckNoCred(r) \/ RecordNoCred(r) \/ RecordFailure(r)
      PROVE  UNCHANGED <<now, requests, due>>
  BY <1>9 DEF CheckNoCred, RecordNoCred, RecordFailure
<1>10. ASSUME NEW r \in Reqs, NEW c \in Addrs, NEW k \in {"good", "wrong", "none"}, Arrive(r, c, k)
       PROVE  UNCHANGED <<now, requests, due>>
  BY <1>10 DEF Arrive
<1>11. CleanAuth \/ Over \/ UNCHANGED vars
         => UNCHANGED <<now, requests>> /\ ("rate" \in due <=> "rate" \in due')
  BY DEF CleanAuth, Over, vars
<1> QED
  BY <1>5, <1>6, <1>7, <1>8, <1>9, <1>10, <1>11 DEF Next

-----------------------------------------------------------------------------
(* The entries of authLimiter *)

\* recordAuthFailure, on an entry or on a fresh one.
LEMMA FailKeeps ==
  ASSUME now \in Nat, NEW e \in Entry, NEW fails \in Nat, NEW more \in Nat,
         NEW elapsed \in Nat,
         e.blockedAt = -1 <=> e.attempts < FailLimit,
         e.blockedAt # -1 => e.blockedAt <= now,
         fails >= e.attempts \/ fails >= FailLimit,
         more = IF fails < FailLimit THEN fails + 1 ELSE fails
  PROVE  EntryInv(Auth!Fail(e), more, now, elapsed)
<1> DEFINE f == Auth!Fail(e)
<1>0. /\ FailLimit \in Nat \ {0} /\ BlockWindow \in Nat \ {0}
      /\ e.attempts \in Nat /\ e.lastAttempt \in Int /\ e.blockedAt \in Int
  BY ChainAssumption DEF Entry
<1>1. /\ f.attempts = e.attempts + 1 /\ f.lastAttempt = now
      /\ f.blockedAt = IF e.attempts + 1 >= FailLimit /\ e.blockedAt = -1
                       THEN now ELSE e.blockedAt
  BY DEF Auth!Fail, Auth!Zero
<1> HIDE DEF f
<1>2. f.lastAttempt <= now /\ now - f.lastAttempt < BlockWindow + elapsed
  BY <1>0, <1>1
<1>3. f.blockedAt # -1 => f.blockedAt <= f.lastAttempt
  BY <1>0, <1>1
<1>4. f.blockedAt = -1 <=> f.attempts < FailLimit
  BY <1>0, <1>1
<1>5. more >= f.attempts \/ more >= FailLimit
  BY <1>0, <1>1
<1> QED
  BY <1>2, <1>3, <1>4, <1>5 DEF EntryInv, f

\* Every step keeps Entries.
LEMMA StepEntries ==
  ASSUME ChainInv, [Next]_vars
  PROVE  Entries'
<1> DEFINE el == Elapsed("auth")
<1>0. /\ AuthTable(authStates) /\ ReqInv /\ now \in Nat /\ Entries
      /\ failures \in [Addrs -> Nat] /\ el \in Nat
      /\ FailLimit \in Nat \ {0} /\ BlockWindow \in Nat \ {0}
  <2>1. now \in Nat
    BY DEF ChainInv, RateInv, RateTypeOK
  <2>2. el \in 0..CleanupInterval
    BY <2>1, ElapsedBound
  <2> HIDE DEF el
  <2>a. CleanupInterval \in Nat
    BY ChainAssumption
  <2>3. el \in Nat
    BY <2>2, <2>a
  <2> QED
    BY <2>1, <2>3, ChainAssumption DEF ChainInv, ReqInv
<1>1. ASSUME Dropped(authStates, authStates'),
             UNCHANGED <<now, failures>>, "auth" \in due <=> "auth" \in due'
      PROVE  Entries'
  <2>1. el' = el
    BY <1>1 DEF Elapsed
  <2>2. PICK K \in SUBSET DOMAIN authStates : authStates' = [b \in K |-> authStates[b]]
    BY <1>1 DEF Dropped
  <2>3. DOMAIN authStates' = K /\ \A b \in K : authStates'[b] = authStates[b]
    BY <2>2
  <2> HIDE DEF el
  <2>4. ASSUME NEW b \in K PROVE EntryInv(authStates'[b], failures'[b], now', el')
    <3>1. EntryInv(authStates[b], failures[b], now, el)
      BY <1>0 DEF Entries, el
    <3> QED
      BY <3>1, <2>1, <2>3, <1>1
  <2> QED
    BY <2>3, <2>4 DEF Entries, el
<1>2. ASSUME authStates' = authStates, UNCHANGED <<now, failures>>,
             "auth" \in due <=> "auth" \in due'
      PROVE  Entries'
  <2>1. authStates' = [b \in DOMAIN authStates |-> authStates[b]]
    BY <1>0, <1>2 DEF AuthTable
  <2>2. Dropped(authStates, authStates')
    BY <2>1 DEF Dropped
  <2> QED
    BY <1>1, <1>2, <2>2
<1>3. ASSUME NEW r \in Reqs, NEW c \in Addrs, NEW k \in {"good", "wrong", "none"}, Arrive(r, c, k)
      PROVE  Entries'
  <2>1. UNCHANGED <<now, failures, due>>
    BY <1>3 DEF Arrive
  <2>2. authStates' = authStates \/ Auth!NotBlocked(c)
    BY <1>3, ArriveFacts
  <2> QED
    BY <1>0, <1>1, <1>2, <2>1, <2>2, AuthDrops
<1>4. ASSUME NEW r \in Reqs, RecordFailure(r) PROVE Entries'
  <2> DEFINE a == AuthAddr(req[r])
             b == Before(authStates, a)
             e == Auth!Fail(b)
  <2>1. /\ Auth!RecordAuthFailure(a) /\ req[r].pc = "record" /\ UNCHANGED <<now, due>>
        /\ failures' = [failures EXCEPT ![req[r].client] = IF @ < FailLimit THEN @ + 1 ELSE @]
    BY <1>4 DEF RecordFailure
  <2>2. a \in Addrs /\ req[r].client = a
    BY <1>0, <2>1, AddrType DEF ReqInv
  <2> HIDE DEF a
  <2>3. b \in Entry
    BY <1>0 DEF Before, Fresh, Entry, AuthTable
  <2>4. Written(authStates, authStates', a, e)
    BY <1>0, <2>1, <2>2, AuthWrites
  <2>5. /\ b.blockedAt = -1 <=> b.attempts < FailLimit
        /\ b.blockedAt # -1 => b.blockedAt <= now
        /\ failures[a] >= b.attempts \/ failures[a] >= FailLimit
    <3>1. CASE a \in DOMAIN authStates
      <4>1. b = authStates[a]
        BY <3>1 DEF Before
      <4>2. EntryInv(b, failures[a], now, el)
        BY <1>0, <3>1, <4>1 DEF Entries
      <4>3. b.blockedAt \in Int /\ b.lastAttempt \in Int
        BY <2>3 DEF Entry
      <4> QED
        BY <1>0, <4>2, <4>3 DEF EntryInv
    <3>2. CASE a \notin DOMAIN authStates
      <4>1. b.blockedAt = -1 /\ b.attempts = 0
        BY <3>2 DEF Before, Fresh
      <4>2. failures[a] \in Nat
        BY <1>0, <2>2
      <4> QED
        BY <1>0, <4>1, <4>2
    <3> QED
      BY <3>1, <3>2
  <2> HIDE DEF b
  <2>6. /\ failures[a] \in Nat /\ failures'[a] \in Nat
        /\ failures'[a] = IF failures[a] < FailLimit THEN failures[a] + 1 ELSE failures[a]
        /\ \A c \in Addrs : c # a => failures'[c] = failures[c]
    <3>1. failures' = [failures EXCEPT ![a] = IF failures[a] < FailLimit THEN failures[a] + 1
                                              ELSE failures[a]]
      BY <2>1, <2>2
    <3>2. failures[a] \in Nat
      BY <1>0, <2>2
    <3> QED
      BY <1>0, <2>2, <3>1, <3>2
  <2>7. EntryInv(e, failures'[a], now, el)
    BY <1>0, <2>3, <2>5, <2>6, FailKeeps
  <2>8. PICK K \in SUBSET DOMAIN authStates :
          authStates' = [c \in K \cup {a} |-> IF c = a THEN e ELSE authStates[c]]
    BY <2>4 DEF Written
  <2> HIDE DEF e
  <2>9. el' = el /\ now' = now
    BY <2>1 DEF Elapsed
  <2> HIDE DEF el
  <2>10. DOMAIN authStates' = K \cup {a}
    BY <2>8
  <2>11. ASSUME NEW c \in K \cup {a} PROVE EntryInv(authStates'[c], failures'[c], now', el')
    <3>1. CASE c = a
      <4>1. authStates'[c] = e
        BY <2>8, <3>1
      <4> QED
        BY <2>7, <2>9, <3>1, <4>1
    <3>2. CASE c # a
      <4>1. c \in DOMAIN authStates /\ authStates'[c] = authStates[c]
        BY <2>8, <3>2
      <4>2. failures'[c] = failures[c]
        BY <1>0, <2>6, <3>2, <4>1 DEF AuthTable
      <4>3. EntryInv(authStates[c], failures[c], now, el)
        BY <1>0, <4>1 DEF Entries, el
      <4> QED
        BY <2>9, <4>1, <4>2, <4>3
    <3> QED
      BY <3>1, <3>2
  <2> QED
    BY <2>10, <2>11 DEF Entries, el
<1>5. CASE Tick
  <2>1. el' = el + 1
    BY <1>0, <1>5, ElapsedTick
  <2>2. now' = now + 1 /\ authStates' = authStates /\ failures' = failures
    BY <1>5 DEF Tick
  <2> HIDE DEF el
  <2>3. ASSUME NEW a \in DOMAIN authStates
        PROVE  EntryInv(authStates[a], failures[a], now + 1, el + 1)
    <3>1. EntryInv(authStates[a], failures[a], now, el)
      BY <1>0 DEF Entries, el
    <3>2. authStates[a].lastAttempt \in Int
      BY <1>0 DEF AuthTable, Entry
    <3> QED
      BY <1>0, <3>1, <3>2 DEF EntryInv
  <2>4. ASSUME NEW a \in DOMAIN authStates'
        PROVE  EntryInv(authStates'[a], failures'[a], now', el')
    <3> DEFINE n == now + 1
               m == el + 1
    <3>1. EntryInv(authStates[a], failures[a], n, m) /\ now' = n /\ el' = m
      BY <2>1, <2>2, <2>3
    <3> HIDE DEF n, m
    <3> QED
      BY <2>2, <3>1
  <2> QED
    BY <2>4 DEF Entries, el
<1>6. CASE CleanAuth
  <2> DEFINE K == {b \in DOMAIN authStates : ~Auth!Forgettable(b)}
  <2>1. authStates' = [b \in K |-> authStates[b]] /\ now' = now /\ failures' = failures
    BY <1>6 DEF CleanAuth, Auth!CleanupRateLimiter, Auth!Known, Auth!Restrict
  <2>2. el' \in Nat
    <3>1. CleanupInterval \in Nat \ {0}
      BY ChainAssumption
    <3>2. now % CleanupInterval \in Nat
      BY <1>0, <3>1
    <3> QED
      BY <2>1, <3>1, <3>2 DEF Elapsed
  <2>3. ASSUME NEW b \in K PROVE EntryInv(authStates[b], failures[b], now, el')
    <3> DEFINE e == authStates[b]
    <3>1. EntryInv(e, failures[b], now, el)
      BY <1>0 DEF Entries
    <3>2. e.lastAttempt \in Int /\ e.blockedAt \in Int
      BY <1>0 DEF AuthTable, Entry
    <3>3. now - e.lastAttempt < BlockWindow
      <4>1. CASE e.blockedAt # -1
        <5>1. ~(now - e.blockedAt >= BlockWindow)
          BY <4>1 DEF Auth!Forgettable, Auth!HasBlock, Auth!Expired, Auth!Known, Auth!Zero
        <5>2. e.blockedAt <= e.lastAttempt
          BY <3>1, <4>1 DEF EntryInv
        <5> HIDE DEF e
        <5> QED
          BY <1>0, <3>2, <5>1, <5>2
      <4>2. CASE e.blockedAt = -1
        <5>1. ~(now - e.lastAttempt >= BlockWindow)
          BY <4>2 DEF Auth!Forgettable, Auth!HasBlock, Auth!Expired, Auth!Known, Auth!Zero
        <5> HIDE DEF e
        <5> QED
          BY <1>0, <3>2, <5>1
      <4> QED
        BY <4>1, <4>2
    <3> HIDE DEF e, el
    <3>4. now - e.lastAttempt < BlockWindow + el'
      BY <1>0, <2>2, <3>2, <3>3
    <3>5. EntryInv(e, failures[b], now, el')
      BY <3>1, <3>4 DEF EntryInv
    <3> QED
      BY <3>5 DEF e
  <2> HIDE DEF K, el
  <2>4. DOMAIN authStates' = K /\ \A b \in K : authStates'[b] = authStates[b]
    BY <2>1
  <2>5. ASSUME NEW b \in K PROVE EntryInv(authStates'[b], failures'[b], now', el')
    BY <2>1, <2>3, <2>4
  <2> QED
    BY <2>4, <2>5 DEF Entries, el
<1>7. ASSUME NEW r \in Reqs, CheckNoCred(r) \/ RecordNoCred(r) \/ RateLimit(r)
      PROVE  UNCHANGED <<authStates, now, failures, due>>
  BY <1>7 DEF CheckNoCred, RecordNoCred, RateLimit
<1>8. CleanRate \/ Over \/ UNCHANGED vars
        => UNCHANGED <<authStates, now, failures>> /\ ("auth" \in due <=> "auth" \in due')
  BY DEF CleanRate, Over, vars
<1> HIDE DEF el
<1> QED
  BY <1>2, <1>3, <1>4, <1>5, <1>6, <1>7, <1>8 DEF Next

-----------------------------------------------------------------------------
(* Attempts and the requests still to be counted *)

\* The pending requests are some of the finitely many requests.
LEMMA PendingSize ==
  ASSUME NEW a
  PROVE  /\ IsFiniteSet(Pending(a)) /\ Cardinality(Pending(a)) \in Nat
         /\ Cardinality(Reqs) \in Nat /\ Cardinality(Pending(a)) <= Cardinality(Reqs)
         /\ \A r \in Pending(a) :
              Cardinality(Pending(a) \ {r}) = Cardinality(Pending(a)) - 1
<1>1. IsFiniteSet(Reqs) /\ Pending(a) \subseteq Reqs
  BY ChainAssumption DEF Pending
<1> QED
  BY <1>1, FS_Subset, FS_CardinalityType, FS_RemoveElement

\* When nothing new is pending for an address, its pending requests are no more.
LEMMA PendingShrinks ==
  ASSUME NEW a, (\A r \in Reqs : r \in Pending(a)' => r \in Pending(a))
  PROVE  /\ Cardinality(Pending(a)') \in Nat
         /\ Cardinality(Pending(a)') <= Cardinality(Pending(a))
<1>1. Pending(a)' \subseteq Pending(a)
  BY DEF Pending
<1>2. IsFiniteSet(Pending(a))
  BY PendingSize
<1> QED
  BY <1>1, <1>2, FS_Subset, FS_CardinalityType

\* Every step keeps PendingInv: a request becomes pending only while its address
\* has no block, and each record takes one pending request away.
LEMMA StepPending ==
  ASSUME ChainInv, [Next]_vars
  PROVE  PendingInv'
<1>0. /\ AuthTable(authStates) /\ ReqInv /\ Entries /\ PendingInv /\ now \in Nat
      /\ req \in [Reqs -> Request]
      /\ FailLimit \in Nat \ {0} /\ Cardinality(Reqs) \in Nat
  BY ChainAssumption, PendingSize DEF ChainInv, ReqInv, RateInv, RateTypeOK
<1>1. ASSUME NEW a, a \in DOMAIN authStates,
             \A r \in Reqs : r \in Pending(a)' => r \in Pending(a)
      PROVE  authStates[a].attempts + Cardinality(Pending(a)') <= FailLimit - 1 + Cardinality(Reqs)
  <2>1. authStates[a].attempts \in Nat
    BY <1>0, <1>1 DEF AuthTable, Entry
  <2>2. authStates[a].attempts + Cardinality(Pending(a)) <= FailLimit - 1 + Cardinality(Reqs)
    BY <1>0, <1>1 DEF PendingInv
  <2>3. Cardinality(Pending(a)') \in Nat /\ Cardinality(Pending(a)) \in Nat
        /\ Cardinality(Pending(a)') <= Cardinality(Pending(a))
    BY <1>1, PendingShrinks, PendingSize
  <2> QED
    BY <1>0, <2>1, <2>2, <2>3
<1>2. ASSUME authStates' = authStates \/ Dropped(authStates, authStates'),
             \A a, r : r \in Pending(a)' => r \in Pending(a)
      PROVE  PendingInv'
  <2>1. ASSUME NEW a \in DOMAIN authStates'
        PROVE  a \in DOMAIN authStates /\ authStates'[a] = authStates[a]
    BY <1>2, <2>1 DEF Dropped
  <2>2. ASSUME NEW a \in DOMAIN authStates'
        PROVE  authStates'[a].attempts + Cardinality(Pending(a)')
                 <= FailLimit - 1 + Cardinality(Reqs)
    BY <1>1, <1>2, <2>1
  <2> QED
    BY <2>2 DEF PendingInv
<1>3. ASSUME NEW r \in Reqs, NEW q \in Request, req' = [req EXCEPT ![r] = q], q.pc # "record"
      PROVE  \A a, s : s \in Pending(a)' => s \in Pending(a) /\ s # r
  <2>1. \A s \in Reqs : req'[s] = IF s = r THEN q ELSE req[s]
    BY <1>0, <1>3
  <2> QED
    BY <1>3, <2>1 DEF Pending, AuthAddr, ClientIP
<1>4. ASSUME NEW r \in Reqs, NEW c \in Addrs, NEW k \in {"good", "wrong", "none"}, Arrive(r, c, k)
      PROVE  PendingInv'
  <2>1. CASE req' = [req EXCEPT ![r] = Idle] /\ authStates' = authStates
    BY <1>2, <1>3, <2>1, IdleFacts
  <2>2. CASE Auth!NotBlocked(c) /\ \E q \in Request :
                 /\ req' = [req EXCEPT ![r] = q]
                 /\ q.pc = Passed(k) /\ q.client = c /\ AuthAddr(q) = c
    <3>1. PICK q \in Request : req' = [req EXCEPT ![r] = q] /\ AuthAddr(q) = c
      BY <2>2
    <3>2. Dropped(authStates, authStates')
      BY <1>0, <2>2, AuthDrops
    <3>3. PICK K \in SUBSET DOMAIN authStates : authStates' = [b \in K |-> authStates[b]]
      BY <3>2 DEF Dropped
    <3>4. \A s \in Reqs : req'[s] = IF s = r THEN q ELSE req[s]
      BY <1>0, <3>1
    <3>5. ASSUME NEW a \in K
          PROVE  authStates[a].attempts + Cardinality(Pending(a)')
                   <= FailLimit - 1 + Cardinality(Reqs)
      <4>1. CASE a # c
        <5>1. \A s \in Reqs : s \in Pending(a)' => s \in Pending(a)
          BY <3>1, <3>4, <4>1 DEF Pending, AuthAddr, ClientIP
        <5> QED
          BY <1>1, <5>1
      <4>2. CASE a = c
        <5>1. authStates[c].blockedAt = -1
          <6>1. c \in DOMAIN authStates' /\ c \in DOMAIN authStates
            BY <3>3, <4>2
          <6>2. CASE Auth!HasBlock(c)
            <7>1. authStates' = [b \in DOMAIN authStates \ {c} |-> authStates[b]]
              BY <2>2, <6>2 DEF Auth!NotBlocked, Auth!Known, Auth!Restrict
            <7> QED
              BY <6>1, <7>1
          <6>3. CASE ~Auth!HasBlock(c)
            BY <6>1, <6>3 DEF Auth!HasBlock, Auth!Known, Auth!Zero
          <6> QED
            BY <6>2, <6>3
        <5>2. authStates[a].attempts \in Nat /\ authStates[a].attempts < FailLimit
          BY <1>0, <4>2, <5>1 DEF Entries, EntryInv, AuthTable, Entry
        <5>3. Cardinality(Pending(a)') \in Nat /\ Cardinality(Pending(a)') <= Cardinality(Reqs)
          <6>1. Pending(a)' \subseteq Reqs /\ IsFiniteSet(Reqs)
            BY ChainAssumption DEF Pending
          <6> QED
            BY <6>1, FS_Subset, FS_CardinalityType
        <5> QED
          BY <1>0, <5>2, <5>3
      <4> QED
        BY <4>1, <4>2
    <3>6. DOMAIN authStates' = K /\ \A a \in K : authStates'[a] = authStates[a]
      BY <3>3
    <3> QED
      BY <3>5, <3>6 DEF PendingInv
  <2> QED
    BY <1>4, <2>1, <2>2, ArriveFacts
<1>5. ASSUME NEW r \in Reqs, CheckNoCred(r) PROVE PendingInv'
  <2>1. authStates' = authStates
    BY <1>5 DEF CheckNoCred
  <2>2. CASE req' = [req EXCEPT ![r] = Idle]
    BY <1>2, <1>3, <2>1, <2>2, IdleFacts
  <2>3. CASE req' = [req EXCEPT ![r].pc = "recordNoCred"]
    <3> DEFINE q == [req[r] EXCEPT !.pc = "recordNoCred"]
    <3>1. q \in Request /\ q.pc # "record"
      BY <1>0 DEF Request
    <3>2. req' = [req EXCEPT ![r] = q]
      BY <2>3
    <3> HIDE DEF q
    <3> QED
      BY <1>2, <1>3, <2>1, <3>1, <3>2
  <2> QED
    BY <1>5, <2>2, <2>3 DEF CheckNoCred, Answer
<1>6. ASSUME NEW r \in Reqs, RecordNoCred(r) \/ RateLimit(r) PROVE PendingInv'
  <2>1. authStates' = authStates /\ req' = [req EXCEPT ![r] = Idle]
    BY <1>6 DEF RecordNoCred, RateLimit, Answer
  <2> QED
    BY <1>2, <1>3, <2>1, IdleFacts
<1>7. ASSUME NEW r \in Reqs, RecordFailure(r) PROVE PendingInv'
  <2>a. PICK a : a = AuthAddr(req[r])
    OBVIOUS
  <2> DEFINE b == Before(authStates, a)
             e == Auth!Fail(b)
  <2>1. /\ Auth!RecordAuthFailure(a) /\ req[r].pc = "record"
        /\ req' = [req EXCEPT ![r] = Idle]
    BY <1>7, <2>a DEF RecordFailure, Answer
  <2>2. a \in Addrs /\ r \in Pending(a)
    BY <1>0, <2>1, <2>a, AddrType DEF Pending
  <2>3. Written(authStates, authStates', a, e)
    BY <1>0, <2>1, <2>2, AuthWrites
  <2>4. \A c, s : s \in Pending(c)' => s \in Pending(c) /\ s # r
    BY <1>3, <2>1, IdleFacts
  <2>5. PICK K \in SUBSET DOMAIN authStates :
          authStates' = [c \in K \cup {a} |-> IF c = a THEN e ELSE authStates[c]]
    BY <2>3 DEF Written
  <2>6. b.attempts \in Nat /\ e.attempts = b.attempts + 1
    BY <1>0 DEF Before, Fresh, AuthTable, Entry, Auth!Fail
  <2>7. e.attempts + Cardinality(Pending(a)') <= FailLimit - 1 + Cardinality(Reqs)
    <3>1. /\ Cardinality(Pending(a)') \in Nat
          /\ Cardinality(Pending(a)') <= Cardinality(Pending(a)) - 1
      <4>1. Pending(a)' \subseteq Pending(a) \ {r} /\ IsFiniteSet(Pending(a))
        BY <2>4, PendingSize
      <4>2. IsFiniteSet(Pending(a) \ {r})
        BY <4>1, FS_Subset
      <4>3. Cardinality(Pending(a)') \in Nat
            /\ Cardinality(Pending(a)') <= Cardinality(Pending(a) \ {r})
        BY <4>1, <4>2, FS_Subset, FS_CardinalityType
      <4>4. Cardinality(Pending(a) \ {r}) = Cardinality(Pending(a)) - 1
        BY <2>2, PendingSize
      <4> QED
        BY <4>3, <4>4
    <3>2. Cardinality(Pending(a)) \in Nat /\ Cardinality(Pending(a)) <= Cardinality(Reqs)
      BY PendingSize
    <3>3. CASE a \in DOMAIN authStates
      <4>1. b.attempts + Cardinality(Pending(a)) <= FailLimit - 1 + Cardinality(Reqs)
        BY <1>0, <3>3 DEF PendingInv, Before
      <4> HIDE DEF b, e
      <4> QED
        BY <1>0, <2>6, <3>1, <3>2, <4>1
    <3>4. CASE a \notin DOMAIN authStates
      <4>1. b.attempts = 0
        BY <3>4 DEF Before, Fresh
      <4> HIDE DEF b, e
      <4> QED
        BY <1>0, <2>6, <3>1, <3>2, <4>1
    <3> QED
      BY <3>3, <3>4
  <2> HIDE DEF b, e
  <2>8. DOMAIN authStates' = K \cup {a}
    BY <2>5
  <2>9. ASSUME NEW c \in K \cup {a}
        PROVE  authStates'[c].attempts + Cardinality(Pending(c)')
                 <= FailLimit - 1 + Cardinality(Reqs)
    <3>1. CASE c = a
      <4>1. authStates'[c] = e
        BY <2>5, <3>1
      <4> QED
        BY <2>7, <3>1, <4>1
    <3>2. CASE c # a
      <4>1. c \in DOMAIN authStates /\ authStates'[c] = authStates[c]
        BY <2>5, <3>2
      <4>2. authStates[c].attempts + Cardinality(Pending(c)') <= FailLimit - 1 + Cardinality(Reqs)
        BY <1>1, <2>4, <4>1
      <4> QED
        BY <4>1, <4>2
    <3> QED
      BY <3>1, <3>2
  <2> QED
    BY <2>8, <2>9 DEF PendingInv
<1>8. ASSUME req' = req PROVE \A a, s : s \in Pending(a)' => s \in Pending(a)
  BY <1>8 DEF Pending, AuthAddr, ClientIP
<1>9. CASE CleanAuth
  <2>1. Dropped(authStates, authStates') /\ req' = req
    BY <1>0, <1>9, AuthDrops DEF CleanAuth
  <2> QED
    BY <1>2, <1>8, <2>1
<1>10. CASE Tick \/ CleanRate \/ Over \/ UNCHANGED vars
  <2>1. authStates' = authStates /\ req' = req
    BY <1>10 DEF Tick, CleanRate, Over, vars
  <2> QED
    BY <1>2, <1>8, <2>1
<1> QED
  BY <1>4, <1>5, <1>6, <1>7, <1>9, <1>10 DEF Next

-----------------------------------------------------------------------------
(* Theorems *)

\* ChainInv holds initially ...
LEMMA InitInv == Init => ChainInv
<1> SUFFICES ASSUME Init PROVE ChainInv
  OBVIOUS
<1>0. /\ MaxTime \in Nat /\ MaxTracked \in Nat /\ MaxRequests \in Nat
      /\ Cardinality({}) = 0 /\ Proxy \in Addrs
  BY RateLimiterAssumption, ChainAssumption, FS_EmptySet
<1>1. /\ now = 0 /\ requests = [a \in {} |-> NewWindow] /\ Tracked = {}
      /\ accepted = [a \in Addrs |-> [t \in Times |-> 0]]
  BY DEF Init, RateInit, Tracked, Times
<1>2. RateInv
  BY <1>0, <1>1 DEF RateInv, RateTypeOK, QuietInv, Times
<1>3. RateAges
  BY <1>0, <1>1 DEF RateAges
<1>4. DOMAIN authStates = {} /\ AuthTable(authStates)
  BY <1>0 DEF Init, Auth!NoStates, AuthTable
<1>5. DOMAIN noCredStates = {} /\ AuthTable(noCredStates)
  BY <1>0 DEF Init, NoCred!NoStates, AuthTable
<1>6. ReqInv
  BY <1>0, IdleFacts DEF Init, ReqInv
<1> QED
  BY <1>2, <1>3, <1>4, <1>5, <1>6 DEF ChainInv, Entries, PendingInv

\* ... and every step keeps it.
LEMMA StepInv == ChainInv /\ [Next]_vars => ChainInv'
<1> SUFFICES ASSUME ChainInv, [Next]_vars PROVE ChainInv'
  OBVIOUS
<1>1. RateInv' /\ RateAges' /\ ReqInv' /\ Entries' /\ PendingInv'
  BY StepRate, StepAges, StepReq, StepEntries, StepPending
<1>2. AuthTable(authStates') /\ AuthTable(noCredStates')
  BY StepTables
<1>3. AuthTable(authStates)' /\ AuthTable(noCredStates)'
  BY <1>2 DEF AuthTable
<1> QED
  BY <1>1, <1>3 DEF ChainInv

\* The inductive invariant holds throughout.
THEOREM ChainInvariant == Spec => []ChainInv
BY InitInv, StepInv, PTL DEF Spec

\* checkAndRecord (ratelimit.go:79-118): in any stretch of one window at most
\* twice the limit is accepted from an address, for every limit, window and
\* number of addresses and whatever is evicted in between.
THEOREM SlidingCorrect == Spec => []SlidingBound
<1>1. ChainInv => SlidingBound
  <2> SUFFICES ASSUME ChainInv, NEW a \in Addrs
               PROVE  AcceptedSince(a, now - Window) <= 2 * Limit
    BY DEF SlidingBound
  <2> DEFINE f == accepted[a]
             L == At(f, now - Window)
  <2>0. /\ f \in [Times -> Nat] /\ now \in Nat /\ now <= MaxTime /\ MaxTime \in Nat
        /\ Window \in Nat \ {0} /\ Limit \in Nat \ {0} /\ now \in Times
    BY RateLimiterAssumption DEF ChainInv, RateInv, RateTypeOK, Times
  <2>1. AcceptedSince(a, now - Window) = L
    BY DEF AcceptedSince, At
  <2>2. CASE a \notin Tracked
    <3>1. QuietInv(f, now)
      BY <2>2 DEF ChainInv, RateInv
    <3>2. now - Window \in Ends
      BY <2>0 DEF Ends
    <3> HIDE DEF f
    <3>3. L = 0
      BY <2>0, <3>1, <3>2, AtNothing DEF QuietInv
    <3> QED
      BY <2>0, <2>1, <3>3
  <2>3. CASE a \in Tracked
    <3> DEFINE sw == requests[a]
               ws == sw.windowStart
    <3>0. sw \in SlidingWindow /\ WindowInv(f, sw, now)
      BY <2>3 DEF ChainInv, RateInv, RateTypeOK
    <3> HIDE DEF f, sw
    <3>1. /\ ws \in Nat /\ ws <= now /\ sw.prevCount \in Nat /\ sw.currCount \in Nat
          /\ sw.prevCount <= Limit /\ sw.currCount <= Limit
      BY <3>0 DEF SlidingWindow, WindowInv
    <3>2. now - Window \in Ends /\ ws - Window + 1 \in Ends /\ ws - Window \in Ends /\ ws + 1 \in Ends
      BY <2>0, <3>1 DEF Ends
    <3>3. CASE now = ws
      <4>1. L <= sw.prevCount + sw.currCount
        BY <3>0, <3>3 DEF WindowInv
      <4>2. L \in Nat
        BY <2>0, <3>2, AtFacts DEF Ends
      <4> QED
        BY <2>0, <2>1, <3>1, <4>1, <4>2
    <3>4. CASE now > ws /\ now - ws <= Window
      <4>1. ws - Window + 1 <= now - Window
        BY <2>0, <3>1, <3>4
      <4>2. L <= At(f, ws - Window + 1) /\ L \in Nat /\ At(f, ws - Window + 1) \in Nat
        BY <2>0, <3>2, <4>1, AtFacts
      <4>3. At(f, ws - Window + 1) <= sw.prevCount + sw.currCount
        BY <3>0 DEF WindowInv
      <4> HIDE DEF L
      <4> QED
        BY <2>0, <2>1, <3>1, <4>2, <4>3
    <3>5. CASE now - ws > Window
      <4>1. ws + 1 <= now - Window
        BY <2>0, <3>1, <3>5
      <4>2. L <= At(f, ws + 1) /\ L \in Nat /\ At(f, ws + 1) \in Nat
        BY <2>0, <3>2, <4>1, AtFacts
      <4>3. At(f, ws + 1) <= sw.currCount
        BY <3>0 DEF WindowInv
      <4> HIDE DEF L
      <4> QED
        BY <2>0, <2>1, <3>1, <4>2, <4>3
    <3> QED
      BY <2>0, <3>1, <3>3, <3>4, <3>5
  <2> QED
    BY <2>2, <2>3
<1> QED
  BY <1>1, ChainInvariant, PTL

\* checkAndRecord (ratelimit.go:110-115): a request is refused only when limit
\* requests of its address were accepted in the last three windows.
THEOREM RefusalsJustified == Spec => []RefusedJustly
<1>1. ChainInv => RefusedJustly
  <2> SUFFICES ASSUME ChainInv, NEW a \in Tracked, ~Stale(a), AtLimit(Rotate(requests[a]))
               PROVE  AcceptedSince(a, now - 3 * Window) >= Limit
    BY DEF RefusedJustly
  <2> DEFINE f == accepted[a]
             rw == requests[a]
             sw == Rotate(rw)
             ws == sw.windowStart
             L == At(f, now - 3 * Window)
  <2>0. /\ f \in [Times -> Nat] /\ now \in Nat /\ now <= MaxTime /\ MaxTime \in Nat
        /\ Window \in Nat \ {0} /\ Limit \in Nat \ {0} /\ now \in Times
        /\ rw \in SlidingWindow /\ WindowInv(f, rw, now)
    BY RateLimiterAssumption DEF ChainInv, RateInv, RateTypeOK, Times
  <2>1. AcceptedSince(a, now - 3 * Window) = L
    BY DEF AcceptedSince, At
  <2>2. now - rw.windowStart <= 2 * Window
    <3>1. ~(now - rw.windowStart > 2 * Window)
      BY DEF Stale
    <3>2. rw.windowStart \in Nat
      BY <2>0 DEF SlidingWindow
    <3> HIDE DEF rw
    <3> QED
      BY <2>0, <3>1, <3>2
  <2>3. AtLimit(sw)
    OBVIOUS
  <2> HIDE DEF f, rw
  <2>4. sw \in SlidingWindow /\ WindowInv(f, sw, now) /\ now - ws <= Window
    BY <2>0, <2>2, RotateKeeps
  <2> HIDE DEF sw
  <2>5. ws \in Nat /\ ws <= now /\ sw.prevCount \in Nat /\ sw.currCount \in Nat
    BY <2>4 DEF SlidingWindow, WindowInv
  <2>6. sw.prevCount + sw.currCount >= Limit
    <3>1. now - ws \in Nat
      BY <2>0, <2>5
    <3> QED
      BY <2>0, <2>3, <2>4, <2>5, <3>1, ReachedLimit DEF AtLimit
  <2>7. /\ now - 3 * Window \in Ends /\ ws - 2 * Window \in Ends
        /\ now - 3 * Window <= ws - 2 * Window /\ now <= ws + Window
    BY <2>0, <2>4, <2>5 DEF Ends
  <2>8. At(f, ws - 2 * Window) >= sw.prevCount + sw.currCount
    BY <2>4, <2>7 DEF WindowInv
  <2>9. At(f, ws - 2 * Window) <= L /\ L \in Nat /\ At(f, ws - 2 * Window) \in Nat
    BY <2>0, <2>7, AtFacts
  <2> HIDE DEF L
  <2> QED
    BY <2>0, <2>1, <2>5, <2>6, <2>8, <2>9
<1> QED
  BY <1>1, ChainInvariant, PTL

\* BasicAuth (auth.go:11-57, 103-149) blocks an address only after FailLimit failures of
\* the client whose address it is, behind a trusted proxy too.
THEOREM BlocksJustified == Spec => []BlockedJustly
<1>1. ChainInv => BlockedJustly
  <2> SUFFICES ASSUME ChainInv, NEW a \in Addrs, Auth!HasBlock(a)
               PROVE  failures[a] >= FailLimit
    BY DEF BlockedJustly
  <2> DEFINE e == authStates[a]
  <2>1. a \in DOMAIN authStates /\ e.blockedAt # -1
    BY DEF Auth!HasBlock, Auth!Known, Auth!Zero
  <2>2. EntryInv(e, failures[a], now, Elapsed("auth"))
    BY <2>1 DEF ChainInv, Entries
  <2>3. e.attempts \in Nat /\ failures[a] \in Nat /\ FailLimit \in Nat
    BY <2>1, ChainAssumption DEF ChainInv, AuthTable, Entry, ReqInv
  <2> HIDE DEF e
  <2> QED
    BY <2>1, <2>2, <2>3 DEF EntryInv
<1> QED
  BY <1>1, ChainInvariant, PTL

\* However many requests pass the check of a block before it is set, the attempts
\* counted exceed the limit by less than the number of concurrent requests.
THEOREM AttemptsCorrect == Spec => []AttemptsBounded
<1>1. ChainInv => AttemptsBounded
  <2> SUFFICES ASSUME ChainInv, NEW a \in DOMAIN authStates
               PROVE  authStates[a].attempts < FailLimit + Cardinality(Reqs)
    BY DEF AttemptsBounded
  <2>1. authStates[a].attempts + Cardinality(Pending(a)) <= FailLimit - 1 + Cardinality(Reqs)
    BY DEF ChainInv, PendingInv
  <2>2. authStates[a].attempts \in Nat /\ FailLimit \in Nat
    BY ChainAssumption DEF ChainInv, AuthTable, Entry
  <2>3. Cardinality(Pending(a)) \in Nat /\ Cardinality(Reqs) \in Nat
    BY PendingSize
  <2> QED
    BY <2>1, <2>2, <2>3
<1> QED
  BY <1>1, ChainInvariant, PTL

\* The three tables stay within maxTrackedIPs, and the cleanup loops bound the age
\* of what they hold.
THEOREM TablesCorrect == Spec => []TablesBounded
<1>1. ChainInv => TablesBounded
  <2> SUFFICES ASSUME ChainInv PROVE TablesBounded
    OBVIOUS
  <2>0. now \in Nat /\ Window \in Nat /\ BlockWindow \in Nat /\ CleanupInterval \in Nat
    BY RateLimiterAssumption, ChainAssumption DEF ChainInv, RateInv, RateTypeOK
  <2>1. Auth!StatesOK /\ NoCred!StatesOK
    BY DEF ChainInv, AuthTable, Entry, Auth!StatesOK, Auth!Known, Auth!AuthState,
           NoCred!StatesOK, NoCred!Known, NoCred!AuthState
  <2>2. TypeOK
    BY <2>1 DEF ChainInv, TypeOK, RateInv, ReqInv
  <2>3. Elapsed("rate") \in 0..CleanupInterval /\ Elapsed("auth") \in 0..CleanupInterval
    BY <2>0, ElapsedBound
  <2>4. ASSUME NEW a \in Tracked
        PROVE  now - requests[a].windowStart <= 2 * Window + CleanupInterval
    <3>1. now - requests[a].windowStart <= 2 * Window + Elapsed("rate")
      BY DEF ChainInv, RateAges
    <3>2. requests[a].windowStart \in Nat
      BY DEF ChainInv, RateInv, RateTypeOK, SlidingWindow
    <3> QED
      BY <2>0, <2>3, <3>1, <3>2
  <2>5. ASSUME NEW a \in DOMAIN authStates
        PROVE  now - authStates[a].lastAttempt < BlockWindow + CleanupInterval
    <3>1. now - authStates[a].lastAttempt < BlockWindow + Elapsed("auth")
      BY DEF ChainInv, Entries, EntryInv
    <3>2. authStates[a].lastAttempt \in Int
      BY DEF ChainInv, AuthTable, Entry
    <3> QED
      BY <2>0, <2>3, <3>1, <3>2
  <2> QED
    BY <2>2, <2>4, <2>5 DEF TablesBounded, ChainInv, RateAges, AuthTable
<1> QED
  BY <1>1, ChainInvariant, PTL

\* A block keeps its start until it expires, unless a full table drops it for the
\* first failure of another address (isAuthBlocked, recordAuthFailure and
\* cleanupRateLimiter of auth.go).
THEOREM BlocksKept == Spec => BlockKept
<1> DEFINE Kept(a) ==
      \/ /\ a \in DOMAIN authStates'
         /\ authStates'[a].blockedAt = authStates[a].blockedAt
      \/ /\ a \notin DOMAIN authStates'
         /\ Cardinality(DOMAIN authStates) >= MaxTracked
         /\ ~(DOMAIN authStates' \subseteq DOMAIN authStates)
<1>1. ASSUME ChainInv, [Next]_vars, NEW a \in Addrs, Auth!Blocked(a) PROVE Kept(a)
  <2>0. /\ a \in DOMAIN authStates /\ authStates[a].blockedAt # -1 /\ Auth!HasBlock(a)
        /\ ~Auth!Expired(a)
    BY <1>1 DEF Auth!Blocked, Auth!HasBlock, Auth!Known, Auth!Zero
  <2>1. authStates' = authStates => Kept(a)
    BY <2>0
  <2>2. ASSUME NEW r \in Reqs, NEW c \in Addrs, NEW k \in {"good", "wrong", "none"}, Arrive(r, c, k)
        PROVE  Kept(a)
    <3>1. CASE authStates' = authStates
      BY <2>1, <3>1
    <3>2. CASE Auth!NotBlocked(c)
      <4>1. c # a
        BY <1>1, <3>2 DEF Auth!NotBlocked
      <4>2. CASE Auth!HasBlock(c)
        <5>1. authStates' = [b \in DOMAIN authStates \ {c} |-> authStates[b]]
          BY <3>2, <4>2 DEF Auth!NotBlocked, Auth!Known, Auth!Restrict
        <5> QED
          BY <2>0, <4>1, <5>1
      <4>3. CASE ~Auth!HasBlock(c)
        <5>1. authStates' = authStates
          BY <3>2, <4>3 DEF Auth!NotBlocked
        <5> QED
          BY <2>1, <5>1
      <4> QED
        BY <4>2, <4>3
    <3> QED
      BY <2>2, <3>1, <3>2, ArriveFacts
  <2>3. ASSUME NEW r \in Reqs, RecordFailure(r) PROVE Kept(a)
    <3>1. PICK c : c = AuthAddr(req[r])
      OBVIOUS
    <3>2. Auth!RecordAuthFailure(c)
      BY <2>3, <3>1 DEF RecordFailure
    <3>3. CASE c \in DOMAIN authStates
      <4>1. authStates' = [authStates EXCEPT ![c] = Auth!Fail(authStates[c])]
        BY <3>2, <3>3 DEF Auth!RecordAuthFailure, Auth!Known
      <4>2. Auth!Fail(authStates[a]).blockedAt = authStates[a].blockedAt
        BY <2>0 DEF Auth!Fail, Auth!Zero
      <4> QED
        BY <2>0, <4>1, <4>2
    <3>4. CASE c \notin DOMAIN authStates
      <4> DEFINE e == Auth!Fail([attempts |-> 0, lastAttempt |-> Auth!Zero,
                                 blockedAt |-> Auth!Zero])
                 Known == DOMAIN authStates
      <4>1. PICK K \in Auth!Room :
              authStates' = [b \in K \cup {c} |-> IF b = c THEN e ELSE authStates[b]]
        BY <3>2, <3>4 DEF Auth!RecordAuthFailure, Auth!Known
      <4> HIDE DEF e
      <4>2. DOMAIN authStates' = K \cup {c}
        BY <4>1
      <4>3. CASE a \in K
        <5>1. authStates'[a] = authStates[a]
          BY <2>0, <3>4, <4>1, <4>3
        <5> QED
          BY <4>2, <4>3, <5>1
      <4>4. CASE a \notin K
        <5>0. Auth!Cardinality(Known) = Cardinality(Known)
          BY DEF Auth!Cardinality, Cardinality
        <5>1. Cardinality(Known) < MaxTracked => Auth!Room = {Known}
          BY <5>0 DEF Auth!Room, Auth!Known
        <5>2. ~(Cardinality(Known) < MaxTracked)
          BY <2>0, <4>1, <4>4, <5>1
        <5>3. Cardinality(Known) >= MaxTracked
          <6>1. Cardinality(Known) \in Nat /\ MaxTracked \in Nat
            BY <1>1, SubsetSize, RateLimiterAssumption DEF ChainInv, AuthTable
          <6> QED
            BY <5>2, <6>1
        <5>4. a \notin DOMAIN authStates' /\ c \in DOMAIN authStates'
          BY <2>0, <3>4, <4>2, <4>4
        <5> QED
          BY <3>4, <5>3, <5>4
      <4> QED
        BY <4>3, <4>4
    <3> QED
      BY <3>3, <3>4
  <2>4. CASE CleanAuth
    <3> DEFINE K == {b \in DOMAIN authStates : ~Auth!Forgettable(b)}
    <3>1. authStates' = [b \in K |-> authStates[b]]
      BY <2>4 DEF CleanAuth, Auth!CleanupRateLimiter, Auth!Known, Auth!Restrict
    <3>2. a \in K
      BY <2>0 DEF Auth!Forgettable
    <3> HIDE DEF K
    <3> QED
      BY <3>1, <3>2
  <2>5. ASSUME NEW r \in Reqs, CheckNoCred(r) \/ RecordNoCred(r) \/ RateLimit(r)
        PROVE  authStates' = authStates
    BY <2>5 DEF CheckNoCred, RecordNoCred, RateLimit
  <2>6. Tick \/ CleanRate \/ Over \/ UNCHANGED vars => authStates' = authStates
    BY DEF Tick, CleanRate, Over, vars
  <2> HIDE DEF Kept
  <2> QED
    BY <1>1, <2>1, <2>2, <2>3, <2>4, <2>5, <2>6 DEF Next
<1>2. ChainInv /\ [Next]_vars => [\A a \in Addrs : Auth!Blocked(a) => Kept(a)]_vars
  BY <1>1
<1> QED
  BY <1>2, ChainInvariant, PTL DEF Spec, BlockKept

=============================================================================

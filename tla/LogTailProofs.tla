--------------------------- MODULE LogTailProofs ---------------------------
(***************************************************************************)
(* Theorems about LogTail, for every number of concurrent reads, every     *)
(* limit and every log: what the two readers answer, and where a search    *)
(* string is cut.                                                          *)
(***************************************************************************)
EXTENDS LogTail, SequenceTheorems, WellFoundedInduction, TLAPS

-----------------------------------------------------------------------------
(* Numbers *)

\* A set of numbers that is not empty has a least one.
LEMMA LeastNumber ==
  ASSUME NEW T, T \subseteq Nat, T # {}
  PROVE  \E x \in T : \A y \in T : x <= y
<1> DEFINE R == OpToRel(<, Nat)
<1>1. IsWellFoundedOn(R, Nat)
  BY NatLessThanWellFounded
<1>2. \A x, y \in Nat : x < y => <<x, y>> \in R
  BY DEF OpToRel
<1> HIDE DEF R
<1>3. PICK x \in T : \A y \in T : ~(<<y, x>> \in R)
  BY <1>1, WFMin
<1>4. \A y \in T : ~(y < x)
  BY <1>2, <1>3
<1>5. \A a, b \in Nat : ~(a < b) => b <= a
  OBVIOUS
<1>6. \A y \in T : x <= y
  BY <1>3, <1>4, <1>5
<1> QED
  BY <1>3, <1>6

\* A set of numbers that has every number up to n all of whose predecessors it
\* has, has all numbers up to n.
LEMMA InductionUpTo ==
  ASSUME NEW n \in Nat, NEW T, \A k \in 0..n : (\A j \in 0..(k - 1) : j \in T) => k \in T
  PROVE  \A k \in 0..n : k \in T
<1> DEFINE U == {k \in 0..n : k \notin T}
<1> SUFFICES ASSUME U # {} PROVE FALSE
  OBVIOUS
<1>0. U \subseteq Nat
  OBVIOUS
<1> HIDE DEF U
<1>1. PICK x \in U : \A y \in U : x <= y
  BY <1>0, LeastNumber
<1> USE DEF U
<1>2. \A j \in 0..(x - 1) : j \in 0..n /\ ~(x <= j)
  BY <1>1
<1>3. \A j \in 0..(x - 1) : j \in T
  BY <1>1, <1>2
<1> QED
  BY <1>1, <1>3

\* The same, from one number to the next.
LEMMA StepsUpTo ==
  ASSUME NEW n \in Nat, NEW T, 0 \in T, \A k \in 1..n : k - 1 \in T => k \in T
  PROVE  \A k \in 0..n : k \in T
<1>1. ASSUME NEW k \in 0..n, \A j \in 0..(k - 1) : j \in T PROVE k \in T
  <2>1. CASE k = 0
    BY <2>1
  <2>2. CASE k # 0
    <3>1. k \in 1..n /\ k - 1 \in 0..(k - 1)
      BY <2>2
    <3> QED
      BY <1>1, <3>1
  <2> QED
    BY <2>1, <2>2
<1> QED
  BY <1>1, InductionUpTo

\* A remainder of a number that is less than twice the divisor.
LEMMA SmallRemainder ==
  ASSUME NEW n \in Nat \ {0}, NEW a \in 0..(2 * n - 1)
  PROVE  a % n = IF a < n THEN a ELSE a - n
<1> DEFINE q == a \div n
           r == a % n
<1>1. q \in Int /\ r \in Nat /\ r < n /\ a = n * q + r
  OBVIOUS
<1> HIDE DEF q, r
<1>2. q >= 0
  <2> SUFFICES ASSUME q <= -1 PROVE FALSE
    BY <1>1
  <2>1. n * q <= n * (-1)
    BY <1>1
  <2> QED
    BY <2>1, <1>1
<1>3. q <= 1
  <2> SUFFICES ASSUME q >= 2 PROVE FALSE
    BY <1>1
  <2>1. n * q >= n * 2
    BY <1>1
  <2> QED
    BY <2>1, <1>1
<1>4. CASE q = 0
  BY <1>1, <1>4 DEF r
<1>5. CASE q = 1
  BY <1>1, <1>5 DEF r
<1> QED
  BY <1>1, <1>2, <1>3, <1>4, <1>5

-----------------------------------------------------------------------------
(* Recursion *)

\* A recursion that goes from one number to the next: first is its value at 0,
\* next leads from a number and the value before it to the value.
Solution(n, V, first, next, g) ==
  /\ g \in [0..n -> V]
  /\ g[0] = first
  /\ \A k \in 1..n : g[k] = next[<<k, g[k - 1]>>]

\* It has a solution.
LEMMA RecursionExists ==
  ASSUME NEW n \in Nat, NEW V, NEW first \in V, NEW next \in [(1..n) \X V -> V]
  PROVE  \E g : Solution(n, V, first, next, g)
<1> DEFINE Ok(g, m) == g[0] = first /\ \A k \in 1..m : g[k] = next[<<k, g[k - 1]>>]
           T == {m \in 0..n : \E g \in [0..n -> V] : Ok(g, m)}
<1>1. 0 \in T
  <2> DEFINE g == [k \in 0..n |-> first]
  <2>1. g \in [0..n -> V] /\ g[0] = first /\ 0 \in 0..n
    OBVIOUS
  <2>2. Ok(g, 0)
    BY <2>1
  <2> HIDE DEF g, Ok
  <2> QED
    BY <2>1, <2>2
<1>2. ASSUME NEW m \in 1..n, m - 1 \in T PROVE m \in T
  <2>1. PICK g \in [0..n -> V] : Ok(g, m - 1)
    BY <1>2
  <2>2. m - 1 \in 0..n /\ m \in 0..n /\ m # 0 /\ 0 \in 0..n
    OBVIOUS
  <2>3. PICK v \in V : v = next[<<m, g[m - 1]>>]
    <3>1. <<m, g[m - 1]>> \in (1..n) \X V
      BY <2>2
    <3> QED
      BY <3>1
  <2> DEFINE h == [k \in 0..n |-> IF k = m THEN v ELSE g[k]]
  <2>4. h \in [0..n -> V] /\ h[0] = first
    BY <2>1, <2>2
  <2>5. ASSUME NEW k \in 1..m PROVE h[k] = next[<<k, h[k - 1]>>]
    <3>1. k \in 0..n /\ k - 1 \in 0..n /\ k - 1 # m
      OBVIOUS
    <3>2. h[k - 1] = g[k - 1]
      BY <3>1
    <3>3. CASE k = m
      BY <2>3, <3>1, <3>2, <3>3
    <3>4. CASE k # m
      <4>1. k \in 1..(m - 1) /\ h[k] = g[k]
        BY <3>1, <3>4
      <4> QED
        BY <2>1, <3>2, <4>1
    <3> QED
      BY <3>3, <3>4
  <2>6. Ok(h, m)
    BY <2>4, <2>5
  <2> HIDE DEF h, Ok
  <2> QED
    BY <2>2, <2>4, <2>6
<1> HIDE DEF T
<1>3. n \in T
  BY <1>1, <1>2, StepsUpTo
<1>4. PICK g \in [0..n -> V] : Ok(g, n)
  BY <1>3 DEF T
<1>5. Solution(n, V, first, next, g)
  BY <1>4 DEF Solution
<1> QED
  BY <1>5

-----------------------------------------------------------------------------
(* The search string *)

Bytes4 == {"a", "2", "3", "c"}

\* Where truncateSearch goes from a prefix that is not UTF-8.
Cut(s, k) == k - LastRune(SubSeq(s, 1, k))

\* Stops at k.
Stops(s, k) == k = 0 \/ ValidString(SubSeq(s, 1, k))

Backs(s, g) ==
  g = [k \in 0..MaxSearch |->
         IF Stops(s, k) THEN SubSeq(s, 1, k) ELSE g[Cut(s, k)]]

Back(s) ==
  CHOOSE g : g = [k \in 0..MaxSearch |->
                    LET t == SubSeq(s, 1, k) IN
                    IF k = 0 \/ ValidString(t) THEN t ELSE g[k - LastRune(t)]]

\* What truncateSearch returns for a string that is too long.
LEMMA TruncateIsBack ==
  ASSUME NEW s
  PROVE  TruncateSearch(s) = IF Len(s) <= MaxSearch THEN s ELSE Back(s)[MaxSearch]
BY DEF TruncateSearch, Back

\* A prefix is one of its bytes longer than the one before it.
LEMMA PrefixFacts ==
  ASSUME NEW s \in Seq(Bytes4), NEW k \in 0..Len(s)
  PROVE  /\ SubSeq(s, 1, k) \in Seq(Bytes4)
         /\ Len(SubSeq(s, 1, k)) = k
         /\ \A i \in 1..k : SubSeq(s, 1, k)[i] = s[i] /\ s[i] \in Bytes4
<1>0. Len(s) \in Nat /\ 1 \in 1..(Len(s) + 1) /\ k \in 0..Len(s)
  OBVIOUS
<1> QED
  BY <1>0, SubSeqProperties, ElementOfSeq

\* The empty prefix is UTF-8.
LEMMA EmptyPrefix ==
  ASSUME NEW s \in Seq(Bytes4)
  PROVE  ValidString(SubSeq(s, 1, 0))
<1>1. Len(SubSeq(s, 1, 0)) = 0
  BY PrefixFacts
<1> QED
  BY <1>1 DEF ValidString

\* A prefix that ends within a rune is not UTF-8.
LEMMA WithinRune ==
  ASSUME NEW s \in Seq(Bytes4), NEW j \in 1..Len(s),
         s[j] \in {"2", "3"} \/ (j > 1 /\ s[j - 1] = "3")
  PROVE  ~ValidString(SubSeq(s, 1, j))
<1>1. PICK t : t = SubSeq(s, 1, j)
  OBVIOUS
<1>2. Len(t) = j /\ \A i \in 1..j : t[i] = s[i]
  BY <1>1, PrefixFacts
<1>3. CASE s[j] = "2"
  <2>1. t[j] = "2" /\ ~(j < Len(t)) /\ j \in 1..Len(t)
    BY <1>2, <1>3
  <2> QED
    BY <1>1, <2>1 DEF ValidString
<1>4. CASE s[j] = "3"
  <2>1. t[j] = "3" /\ ~(j + 1 < Len(t)) /\ j \in 1..Len(t)
    BY <1>2, <1>4
  <2> QED
    BY <1>1, <2>1 DEF ValidString
<1>5. CASE j > 1 /\ s[j - 1] = "3"
  <2>1. t[j - 1] = "3" /\ ~((j - 1) + 1 < Len(t)) /\ j - 1 \in 1..Len(t)
    BY <1>2, <1>5
  <2> QED
    BY <1>1, <2>1 DEF ValidString
<1> QED
  BY <1>3, <1>4, <1>5

\* The last rune of a prefix is a part of it, and no prefix that ends within it
\* is UTF-8.
LEMMA CutFacts ==
  ASSUME NEW s \in Seq(Bytes4), NEW k \in 1..Len(s)
  PROVE  /\ Cut(s, k) \in 0..(k - 1)
         /\ \A j \in (Cut(s, k) + 1)..(k - 1) : ~ValidString(SubSeq(s, 1, j))
<1>0. k \in 0..Len(s) /\ k \in Nat
  OBVIOUS
<1>1. PICK t \in Seq(Bytes4) : t = SubSeq(s, 1, k)
  BY <1>0, PrefixFacts
<1>2. Len(t) = k /\ \A i \in 1..k : t[i] = s[i]
  BY <1>0, <1>1, PrefixFacts
<1> DEFINE Two == k > 1 /\ SubSeq(t, k - 1, k) = <<"2", "c">>
           Three == k > 2 /\ SubSeq(t, k - 2, k) = <<"3", "c", "c">>
<1>3. Two => s[k - 1] = "2" /\ s[k] = "c"
  <2> SUFFICES ASSUME Two PROVE s[k - 1] = "2" /\ s[k] = "c"
    OBVIOUS
  <2>1. k - 1 \in Int /\ k \in Int /\ \A i \in (k - 1)..k : t[i] \in Bytes4
    BY <1>2, ElementOfSeq
  <2>2. /\ k - (k - 1) + 1 = 2 /\ 1 \in 1..2 /\ 2 \in 1..2
        /\ (k - 1) + 1 - 1 = k - 1 /\ (k - 1) + 2 - 1 = k
        /\ k - 1 \in 1..k /\ k \in 1..k
    BY <1>0
  <2>3. \A i \in 1..(k - (k - 1) + 1) : SubSeq(t, k - 1, k)[i] = t[(k - 1) + i - 1]
    BY <2>1, SubSeqProperties
  <2>4. SubSeq(t, k - 1, k)[1] = t[k - 1] /\ SubSeq(t, k - 1, k)[2] = t[k]
    BY <2>2, <2>3
  <2>5. t[k - 1] = "2" /\ t[k] = "c"
    <3>1. <<"2", "c">>[1] = "2" /\ <<"2", "c">>[2] = "c"
      OBVIOUS
    <3>2. SubSeq(t, k - 1, k) = <<"2", "c">>
      OBVIOUS
    <3> QED
      BY <2>4, <3>1, <3>2, Zenon
  <2> QED
    BY <1>2, <2>2, <2>5
<1>4. Three => s[k - 2] = "3" /\ s[k - 1] = "c" /\ s[k] = "c"
  <2> SUFFICES ASSUME Three PROVE s[k - 2] = "3" /\ s[k - 1] = "c" /\ s[k] = "c"
    OBVIOUS
  <2>1. k - 2 \in Int /\ k \in Int /\ \A i \in (k - 2)..k : t[i] \in Bytes4
    BY <1>2, ElementOfSeq
  <2>2. /\ k - (k - 2) + 1 = 3 /\ 1 \in 1..3 /\ 2 \in 1..3 /\ 3 \in 1..3
        /\ (k - 2) + 1 - 1 = k - 2 /\ (k - 2) + 2 - 1 = k - 1 /\ (k - 2) + 3 - 1 = k
        /\ k - 2 \in 1..k /\ k - 1 \in 1..k /\ k \in 1..k
    BY <1>0
  <2>3. \A i \in 1..(k - (k - 2) + 1) : SubSeq(t, k - 2, k)[i] = t[(k - 2) + i - 1]
    BY <2>1, SubSeqProperties
  <2>4. /\ SubSeq(t, k - 2, k)[1] = t[k - 2] /\ SubSeq(t, k - 2, k)[2] = t[k - 1]
        /\ SubSeq(t, k - 2, k)[3] = t[k]
    BY <2>2, <2>3
  <2>5. t[k - 2] = "3" /\ t[k - 1] = "c" /\ t[k] = "c"
    <3>1. /\ <<"3", "c", "c">>[1] = "3" /\ <<"3", "c", "c">>[2] = "c"
          /\ <<"3", "c", "c">>[3] = "c"
      OBVIOUS
    <3>2. SubSeq(t, k - 2, k) = <<"3", "c", "c">>
      OBVIOUS
    <3> QED
      BY <2>4, <3>1, <3>2, Zenon
  <2> QED
    BY <1>2, <2>2, <2>5
<1>5. ~(Two /\ Three)
  BY <1>3, <1>4
<1>6. LastRune(t) = IF Two THEN 2 ELSE IF Three THEN 3 ELSE 1
  BY <1>2, <1>5 DEF LastRune
<1>7. Cut(s, k) = k - LastRune(t)
  BY <1>1 DEF Cut
<1>8. CASE Two
  <2>1. Cut(s, k) = k - 2 /\ k > 1 /\ s[k - 1] = "2"
    BY <1>3, <1>6, <1>7, <1>8
  <2>2. ~ValidString(SubSeq(s, 1, k - 1)) /\ k - 2 \in 0..(k - 1)
    BY <2>1, WithinRune
  <2>3. \A j \in ((k - 2) + 1)..(k - 1) : j = k - 1
    OBVIOUS
  <2> QED
    BY <2>1, <2>2, <2>3
<1>9. CASE Three /\ ~Two
  <2>1. Cut(s, k) = k - 3 /\ k > 2 /\ s[k - 2] = "3"
    BY <1>4, <1>6, <1>7, <1>9
  <2>2. ~ValidString(SubSeq(s, 1, k - 2)) /\ ~ValidString(SubSeq(s, 1, k - 1))
    <3>1. k - 2 \in 1..Len(s) /\ k - 1 \in 1..Len(s) /\ k - 1 > 1 /\ (k - 1) - 1 = k - 2
      BY <2>1
    <3> QED
      BY <2>1, <3>1, WithinRune
  <2>3. /\ k - 3 \in 0..(k - 1)
        /\ \A j \in ((k - 3) + 1)..(k - 1) : j = k - 1 \/ j = k - 2
    BY <2>1
  <2> QED
    BY <2>1, <2>2, <2>3
<1>10. CASE ~Two /\ ~Three
  <2>1. Cut(s, k) = k - 1
    BY <1>6, <1>7, <1>10
  <2>2. k - 1 \in 0..(k - 1) /\ ((k - 1) + 1)..(k - 1) = {}
    OBVIOUS
  <2> QED
    BY <2>1, <2>2
<1> QED
  BY <1>8, <1>9, <1>10

\* m is the longest prefix that is UTF-8 and not longer than k.
Longest(s, k, m) == /\ m \in 0..k
                    /\ Stops(s, m)
                    /\ \A j \in (m + 1)..k : ~Stops(s, j)

\* There is one.
LEMMA LongestExists ==
  ASSUME NEW s, NEW k \in Nat
  PROVE  \E m : Longest(s, k, m)
<1> DEFINE T == {k - m : m \in {i \in 0..k : Stops(s, i)}}
<1>1. T \subseteq Nat
  OBVIOUS
<1>2. k \in T
  <2>1. 0 \in 0..k /\ Stops(s, 0) /\ k - 0 = k
    BY DEF Stops
  <2> HIDE DEF Stops
  <2> QED
    BY <2>1
<1>3. PICK x \in T : \A y \in T : x <= y
  BY <1>1, <1>2, LeastNumber
<1>4. PICK m \in 0..k : Stops(s, m) /\ x = k - m
  BY <1>3
<1>5. ASSUME NEW j \in (m + 1)..k, Stops(s, j) PROVE FALSE
  <2>1. j \in 0..k /\ k - j \in T
    BY <1>5
  <2>2. k - m <= k - j
    BY <1>3, <1>4, <2>1
  <2> QED
    BY <2>2
<1> QED
  BY <1>4, <1>5 DEF Longest

\* And only one.
LEMMA LongestUnique ==
  ASSUME NEW s, NEW k \in Nat, NEW m, NEW p, Longest(s, k, m), Longest(s, k, p)
  PROVE  m = p
<1>1. m \in 0..k /\ p \in 0..k
  BY DEF Longest
<1>2. ~(m < p)
  BY <1>1 DEF Longest
<1>3. ~(p < m)
  BY <1>1 DEF Longest
<1> QED
  BY <1>1, <1>2, <1>3

\* Cutting off the last rune of a prefix that is not UTF-8 loses none that is.
LEMMA LongestStays ==
  ASSUME NEW s \in Seq(Bytes4), NEW k \in 0..Len(s), ~Stops(s, k), NEW m,
         Longest(s, Cut(s, k), m)
  PROVE  Longest(s, k, m)
<1>1. k \in 1..Len(s)
  BY DEF Stops
<1>2. /\ Cut(s, k) \in 0..(k - 1)
      /\ \A j \in (Cut(s, k) + 1)..(k - 1) : ~ValidString(SubSeq(s, 1, j))
  BY <1>1, CutFacts
<1>3. PICK c \in 0..(k - 1) : c = Cut(s, k)
  BY <1>2
<1>4. m \in 0..c /\ Stops(s, m) /\ \A j \in (m + 1)..c : ~Stops(s, j)
  BY <1>3 DEF Longest
<1>5. ASSUME NEW j \in (m + 1)..k PROVE ~Stops(s, j)
  <2>1. j \in (m + 1)..c \/ j \in (c + 1)..(k - 1) \/ j = k
    BY <1>4
  <2>2. ASSUME j \in (c + 1)..(k - 1) PROVE ~Stops(s, j)
    <3>1. ~ValidString(SubSeq(s, 1, j)) /\ j # 0
      BY <1>2, <1>3, <2>2
    <3> QED
      BY <3>1 DEF Stops
  <2> QED
    BY <1>4, <2>1, <2>2
<1>6. m \in 0..k
  BY <1>4
<1> QED
  BY <1>4, <1>5, <1>6 DEF Longest

\* truncateSearch's recursion has a solution: the longest prefixes.
LEMMA BacksExist ==
  ASSUME NEW s \in Seq(Bytes4), MaxSearch <= Len(s)
  PROVE  \E g : Backs(s, g)
<1>0. MaxSearch \in Nat /\ Len(s) \in Nat
  BY LogTailAssumption
<1> DEFINE M(k) == CHOOSE m : Longest(s, k, m)
           g == [k \in 0..MaxSearch |-> SubSeq(s, 1, M(k))]
<1>1. ASSUME NEW k \in 0..MaxSearch PROVE Longest(s, k, M(k))
  BY <1>0, LongestExists
<1>2. ASSUME NEW k \in 0..MaxSearch
      PROVE  g[k] = IF Stops(s, k) THEN SubSeq(s, 1, k) ELSE g[Cut(s, k)]
  <2>0. k \in Nat /\ k \in 0..Len(s)
    BY <1>0
  <2>1. CASE Stops(s, k)
    <3>1. Longest(s, k, k)
      <4>1. k \in 0..k /\ (k + 1)..k = {}
        BY <2>0
      <4> QED
        BY <2>1, <4>1 DEF Longest
    <3>2. M(k) = k
      <4> HIDE DEF M
      <4> QED
        BY <1>1, <2>0, <3>1, LongestUnique
    <3> HIDE DEF M
    <3> QED
      BY <2>1, <3>2
  <2>2. CASE ~Stops(s, k)
    <3>1. k \in 1..Len(s)
      BY <2>0, <2>2 DEF Stops
    <3>2. PICK c \in 0..(k - 1) : c = Cut(s, k)
      BY <3>1, CutFacts
    <3>3. c \in 0..MaxSearch
      BY <1>0
    <3> HIDE DEF M
    <3>4. Longest(s, k, M(c))
      BY <1>1, <2>0, <2>2, <3>2, <3>3, LongestStays
    <3>5. M(k) = M(c)
      BY <1>1, <2>0, <3>4, LongestUnique
    <3> QED
      BY <2>2, <3>2, <3>3, <3>5
  <2> QED
    BY <2>1, <2>2
<1>3. g = [k \in 0..MaxSearch |->
             IF Stops(s, k) THEN SubSeq(s, 1, k) ELSE g[Cut(s, k)]]
  <2> HIDE DEF M
  <2>1. PICK f : f = g
    OBVIOUS
  <2>2. f = [k \in 0..MaxSearch |-> f[k]]
    BY <2>1
  <2>3. \A k \in 0..MaxSearch :
          f[k] = IF Stops(s, k) THEN SubSeq(s, 1, k) ELSE f[Cut(s, k)]
    BY <1>2, <2>1
  <2>4. f = [k \in 0..MaxSearch |->
               IF Stops(s, k) THEN SubSeq(s, 1, k) ELSE f[Cut(s, k)]]
    BY <2>2, <2>3
  <2> HIDE DEF g
  <2> QED
    BY <2>1, <2>4
<1> HIDE DEF g
<1> QED
  BY <1>3 DEF Backs

\* truncateSearch cuts a string that is too long to its longest prefix that is
\* UTF-8 and not too long.
LEMMA TruncateIsLongest ==
  ASSUME NEW s \in Seq(Bytes4), Len(s) > MaxSearch
  PROVE  \E m : Longest(s, MaxSearch, m) /\ TruncateSearch(s) = SubSeq(s, 1, m)
<1>0. MaxSearch \in Nat /\ Len(s) \in Nat /\ MaxSearch <= Len(s) /\ ~(Len(s) <= MaxSearch)
  BY LogTailAssumption
<1>1. PICK f : Backs(s, f)
  BY <1>0, BacksExist
<1>2. PICK g : g = Back(s)
  OBVIOUS
<1>3. Backs(s, g)
  BY <1>1, <1>2 DEF Back, Backs, Stops, Cut
<1>4. \A k \in 0..MaxSearch :
        g[k] = IF Stops(s, k) THEN SubSeq(s, 1, k) ELSE g[Cut(s, k)]
  <2>1. \A k \in 0..MaxSearch : \A h, e : h = [i \in 0..MaxSearch |-> e] => h[k] = e
    OBVIOUS
  <2> QED
    BY <1>3 DEF Backs
<1> DEFINE T == {k \in 0..MaxSearch : \E m : Longest(s, k, m) /\ g[k] = SubSeq(s, 1, m)}
<1>5. ASSUME NEW k \in 0..MaxSearch, \A j \in 0..(k - 1) : j \in T PROVE k \in T
  <2>0. k \in 0..Len(s) /\ k \in Nat
    BY <1>0
  <2>1. CASE Stops(s, k)
    <3>1. k \in 0..k /\ (k + 1)..k = {}
      BY <2>0
    <3>2. Longest(s, k, k)
      BY <2>1, <3>1 DEF Longest
    <3>3. g[k] = SubSeq(s, 1, k)
      BY <1>4, <2>1
    <3> QED
      BY <3>2, <3>3
  <2>2. CASE ~Stops(s, k)
    <3>1. k \in 1..Len(s)
      BY <2>0, <2>2 DEF Stops
    <3>2. PICK c \in 0..(k - 1) : c = Cut(s, k)
      BY <3>1, CutFacts
    <3>3. PICK m : Longest(s, c, m) /\ g[c] = SubSeq(s, 1, m)
      BY <1>5
    <3>4. Longest(s, k, m)
      BY <2>0, <2>2, <3>2, <3>3, LongestStays
    <3>5. g[k] = g[c]
      BY <1>4, <2>2, <3>2
    <3> QED
      BY <3>3, <3>4, <3>5
  <2> QED
    BY <2>1, <2>2
<1> HIDE DEF T
<1>6. MaxSearch \in T
  <2>1. \A k \in 0..MaxSearch : k \in T
    BY <1>0, <1>5, InductionUpTo
  <2> QED
    BY <1>0, <2>1
<1>7. TruncateSearch(s) = g[MaxSearch]
  BY <1>0, <1>2, TruncateIsBack
<1> QED
  BY <1>6, <1>7 DEF T

\* So it is the longest of the prefixes that fit.
LEMMA TruncateIsMax ==
  ASSUME NEW s \in Seq(Bytes4), Len(s) > MaxSearch
  PROVE  TruncateSearch(s)
           = SubSeq(s, 1, Max({k \in 0..MaxSearch : ValidString(SubSeq(s, 1, k))}))
<1>0. MaxSearch \in Nat
  BY LogTailAssumption
<1>1. PICK m : Longest(s, MaxSearch, m) /\ TruncateSearch(s) = SubSeq(s, 1, m)
  BY TruncateIsLongest
<1> DEFINE fit == {k \in 0..MaxSearch : ValidString(SubSeq(s, 1, k))}
<1>2. \A k \in 0..MaxSearch : k \in fit <=> Stops(s, k)
  <2>1. ValidString(SubSeq(s, 1, 0))
    BY EmptyPrefix
  <2> QED
    BY <2>1 DEF Stops
<1>3. m \in 0..MaxSearch /\ Stops(s, m) /\ \A j \in (m + 1)..MaxSearch : ~Stops(s, j)
  BY <1>1 DEF Longest
<1>4. fit \subseteq 0..MaxSearch
  OBVIOUS
<1> HIDE DEF fit
<1>5. m \in fit /\ \A y \in fit : m >= y
  <2>1. m \in fit
    BY <1>2, <1>3
  <2>2. ASSUME NEW y \in fit, ~(m >= y) PROVE FALSE
    <3>1. y \in 0..MaxSearch /\ Stops(s, y)
      BY <1>2, <1>4
    <3>2. y \in (m + 1)..MaxSearch
      BY <1>0, <1>3, <2>2, <3>1
    <3> QED
      BY <1>3, <3>1, <3>2
  <2> QED
    BY <2>1, <2>2
<1>6. Max(fit) = m
  <2>1. \A x \in fit : (\A y \in fit : x >= y) => x = m
    <3> SUFFICES ASSUME NEW x \in fit, x >= m, m >= x PROVE x = m
      BY <1>5
    <3>1. x \in Nat /\ m \in Nat
      BY <1>3, <1>4
    <3> QED
      BY <3>1
  <2> QED
    BY <1>5, <2>1 DEF Max
<1> QED
  BY <1>1, <1>6 DEF fit

-----------------------------------------------------------------------------
(* The lines that are to be found *)

Fits(line, filter) == ~line.bad /\ (filter => line.hit)

Keeps(s, filter, g) ==
  g = [k \in 0..Len(s) |->
         IF k = 0 THEN <<>>
         ELSE IF Fits(s[k], filter) THEN Append(g[k - 1], s[k]) ELSE g[k - 1]]

\* A line is behind those kept of the lines before it, if it is kept.
LEMMA KeptSteps ==
  ASSUME NEW s \in Seq(Line), NEW filter
  PROVE  /\ Kept(s, filter)[0] = <<>>
         /\ \A k \in 1..Len(s) :
              Kept(s, filter)[k] = IF Fits(s[k], filter)
                                   THEN Append(Kept(s, filter)[k - 1], s[k])
                                   ELSE Kept(s, filter)[k - 1]
<1>0. Len(s) \in Nat /\ 0 \in 0..Len(s) /\ \A k \in 1..Len(s) : s[k] \in Line
  OBVIOUS
<1> DEFINE n == Len(s)
           V == Seq(Line)
           next == [p \in (1..n) \X V |->
                      IF Fits(s[p[1]], filter) THEN Append(p[2], s[p[1]]) ELSE p[2]]
<1>1. next \in [(1..n) \X V -> V]
  BY <1>0
<1>2. <<>> \in V
  OBVIOUS
<1>3. PICK g : Solution(n, V, <<>>, next, g)
  <2>1. n \in Nat
    BY <1>0
  <2> HIDE DEF n, next, V
  <2> QED
    BY <2>1, <1>1, <1>2, RecursionExists
<1>4. \A k \in 1..n :
        g[k] = IF Fits(s[k], filter) THEN Append(g[k - 1], s[k]) ELSE g[k - 1]
  <2> SUFFICES ASSUME NEW k \in 1..n
               PROVE  g[k] = IF Fits(s[k], filter) THEN Append(g[k - 1], s[k])
                             ELSE g[k - 1]
    OBVIOUS
  <2>1. k - 1 \in 0..n
    BY <1>0
  <2>2. <<k, g[k - 1]>> \in (1..n) \X V
    BY <2>1, <1>3 DEF Solution
  <2> QED
    BY <2>2, <1>3 DEF Solution
<1>5. Keeps(s, filter, g)
  <2>1. g = [k \in 0..n |-> g[k]]
    BY <1>3 DEF Solution
  <2>2. \A k \in 0..n :
          g[k] = IF k = 0 THEN <<>>
                 ELSE IF Fits(s[k], filter) THEN Append(g[k - 1], s[k]) ELSE g[k - 1]
    <3> SUFFICES ASSUME NEW k \in 0..n, k # 0 PROVE k \in 1..n
      BY <1>3, <1>4 DEF Solution
    <3> QED
      BY <1>0
  <2> QED
    BY <2>1, <2>2 DEF Keeps
<1>6. PICK h : h = Kept(s, filter)
  OBVIOUS
<1>7. Keeps(s, filter, h)
  BY <1>5, <1>6 DEF Kept, Keeps, Fits
<1>8. \A k \in 0..n :
        h[k] = IF k = 0 THEN <<>>
               ELSE IF Fits(s[k], filter) THEN Append(h[k - 1], s[k]) ELSE h[k - 1]
  <2>1. \A k \in 0..n : \A f, e : f = [i \in 0..n |-> e] => f[k] = e
    OBVIOUS
  <2> QED
    BY <1>7 DEF Keeps
<1>9. h[0] = <<>>
  BY <1>0, <1>8
<1>10. \A k \in 1..n :
         h[k] = IF Fits(s[k], filter) THEN Append(h[k - 1], s[k]) ELSE h[k - 1]
  <2> SUFFICES ASSUME NEW k \in 1..n PROVE k \in 0..n /\ k # 0
    BY <1>8
  <2> QED
    BY <1>0
<1> QED
  BY <1>6, <1>9, <1>10

\* They are lines.
LEMMA KeptTypes ==
  ASSUME NEW s \in Seq(Line), NEW filter, NEW k \in 0..Len(s)
  PROVE  Kept(s, filter)[k] \in Seq(Line)
<1> DEFINE T == {j \in 0..Len(s) : Kept(s, filter)[j] \in Seq(Line)}
<1>0. Len(s) \in Nat /\ 0 \in 0..Len(s) /\ <<>> \in Seq(Line)
  OBVIOUS
<1>1. 0 \in T
  BY <1>0, KeptSteps
<1>2. ASSUME NEW j \in 1..Len(s), j - 1 \in T PROVE j \in T
  <2>1. s[j] \in Line /\ j \in 0..Len(s)
    BY <1>0
  <2>2. Kept(s, filter)[j] = IF Fits(s[j], filter)
                             THEN Append(Kept(s, filter)[j - 1], s[j])
                             ELSE Kept(s, filter)[j - 1]
    BY KeptSteps
  <2>3. Kept(s, filter)[j - 1] \in Seq(Line)
    BY <1>2
  <2>4. Append(Kept(s, filter)[j - 1], s[j]) \in Seq(Line)
    BY <2>1, <2>3
  <2> QED
    BY <2>1, <2>2, <2>3, <2>4
<1> HIDE DEF T
<1>3. k \in T
  BY <1>0, <1>1, <1>2, StepsUpTo
<1> QED
  BY <1>3 DEF T

\* A line that is logged changes nothing of what came before it.
LEMMA KeptStays ==
  ASSUME NEW s \in Seq(Line), NEW line \in Line, NEW filter, NEW k \in 0..Len(s)
  PROVE  Kept(Append(s, line), filter)[k] = Kept(s, filter)[k]
<1> DEFINE t == Append(s, line)
           T == {j \in 0..Len(s) : Kept(t, filter)[j] = Kept(s, filter)[j]}
<1>0. Len(s) \in Nat /\ 0 \in 0..Len(s)
  OBVIOUS
<1>1. t \in Seq(Line) /\ Len(t) = Len(s) + 1 /\ \A j \in 1..Len(s) : t[j] = s[j]
  OBVIOUS
<1> HIDE DEF t
<1>2. 0 \in T
  BY <1>0, <1>1, KeptSteps
<1>3. ASSUME NEW j \in 1..Len(s), j - 1 \in T PROVE j \in T
  <2>1. t[j] = s[j] /\ j \in 0..Len(s) /\ j \in 1..Len(t)
    BY <1>0, <1>1
  <2>2. Kept(s, filter)[j] = IF Fits(s[j], filter)
                             THEN Append(Kept(s, filter)[j - 1], s[j])
                             ELSE Kept(s, filter)[j - 1]
    BY KeptSteps
  <2>3. Kept(t, filter)[j] = IF Fits(t[j], filter)
                             THEN Append(Kept(t, filter)[j - 1], t[j])
                             ELSE Kept(t, filter)[j - 1]
    BY <1>1, <2>1, KeptSteps
  <2> QED
    BY <1>3, <2>1, <2>2, <2>3
<1> HIDE DEF T
<1>4. k \in T
  BY <1>0, <1>2, <1>3, StepsUpTo
<1> QED
  BY <1>4 DEF T, t

-----------------------------------------------------------------------------
(* The ring *)

Ring == [0..LinesCap - 1 -> Line \cup {None}]

\* Where the ring holds the i-th line from the last, when pos is where the next
\* line goes.
Slot(i, pos, n) == IF i <= pos THEN pos - i ELSE pos - i + n

\* The ring holds the last lines of those kept, whatever else it holds.
RingHolds(kept, n, pos, count, held) ==
  /\ n \in 1..LinesCap
  /\ pos \in 0..(n - 1)
  /\ count = Len(kept)
  /\ count < n => pos = count
  /\ \A i \in 1..n : i <= count => held[Slot(i, pos, n)] = kept[count + 1 - i]

\* Where the next line goes, without the remainder.
LEMMA NextSlot ==
  ASSUME NEW n \in Nat \ {0}, NEW pos \in 0..(n - 1)
  PROVE  (pos + 1) % n = IF pos + 1 < n THEN pos + 1 ELSE 0
<1>1. PICK a \in 0..(2 * n - 1) : a = pos + 1
  OBVIOUS
<1>2. a % n = IF a < n THEN a ELSE a - n
  BY SmallRemainder
<1> QED
  BY <1>1, <1>2

\* The last line is where it was just put, those before it are where they were.
LEMMA SlotsMove ==
  ASSUME NEW n \in Nat \ {0}, NEW pos \in 0..(n - 1), NEW next,
         next = IF pos + 1 < n THEN pos + 1 ELSE 0
  PROVE  /\ Slot(1, next, n) = pos
         /\ \A i \in 2..n : /\ Slot(i, next, n) = Slot(i - 1, pos, n)
                            /\ Slot(i - 1, pos, n) \in 0..(n - 1)
                            /\ Slot(i - 1, pos, n) # pos
  BY DEF Slot

\* ScanLine puts a line that is kept where it belongs.
LEMMA RingTakes ==
  ASSUME NEW kept \in Seq(Line), NEW n, NEW pos, NEW count, NEW held \in Ring,
         NEW line \in Line, RingHolds(kept, n, pos, count, held)
  PROVE  RingHolds(Append(kept, line), n, (pos + 1) % n, count + 1,
                   [held EXCEPT ![pos] = line])
<1> DEFINE next == (pos + 1) % n
           more == Append(kept, line)
           now == [held EXCEPT ![pos] = line]
<1>0. LinesCap \in Nat
  BY LogTailAssumption
<1>1. /\ n \in 1..LinesCap /\ n \in Nat \ {0} /\ pos \in 0..(n - 1)
      /\ count = Len(kept) /\ count \in Nat /\ (count < n => pos = count)
  BY <1>0 DEF RingHolds
<1>2. next = IF pos + 1 < n THEN pos + 1 ELSE 0
  BY <1>1, NextSlot
<1>3. /\ more \in Seq(Line) /\ Len(more) = count + 1 /\ more[count + 1] = line
      /\ \A j \in 1..count : more[j] = kept[j]
  BY <1>1
<1>4. /\ now[pos] = line
      /\ \A j \in 0..(n - 1) : j # pos => now[j] = held[j]
  BY <1>0, <1>1 DEF Ring
<1> HIDE DEF next, more, now
<1>5. /\ Slot(1, next, n) = pos
      /\ \A i \in 2..n : /\ Slot(i, next, n) = Slot(i - 1, pos, n)
                         /\ Slot(i - 1, pos, n) \in 0..(n - 1)
                         /\ Slot(i - 1, pos, n) # pos
  BY <1>1, <1>2, SlotsMove
<1>6. ASSUME NEW i \in 1..n, i <= count + 1
      PROVE  now[Slot(i, next, n)] = more[count + 1 + 1 - i]
  <2>1. CASE i = 1
    BY <1>1, <1>3, <1>4, <1>5, <2>1
  <2>2. CASE i # 1
    <3>1. i \in 2..n /\ i - 1 \in 1..n /\ i - 1 <= count /\ i \in Nat
      BY <1>1, <1>6, <2>2
    <3>2. held[Slot(i - 1, pos, n)] = kept[count + 1 - (i - 1)]
      BY <3>1 DEF RingHolds
    <3>3. now[Slot(i, next, n)] = held[Slot(i - 1, pos, n)]
      BY <1>4, <1>5, <3>1
    <3>4. count + 1 - (i - 1) = count + 1 + 1 - i /\ count + 1 + 1 - i \in 1..count
      BY <1>1, <1>6, <3>1
    <3> QED
      BY <1>3, <3>2, <3>3, <3>4
  <2> QED
    BY <2>1, <2>2
<1>7. next \in 0..(n - 1) /\ (count + 1 < n => next = count + 1)
  BY <1>1, <1>2
<1> QED
  BY <1>1, <1>3, <1>6, <1>7 DEF RingHolds, next, more, now

\* What LastOf returns.
LEMMA LastOfIs ==
  ASSUME NEW S, NEW s \in Seq(S), NEW n \in Nat
  PROVE  LET m == IF Len(s) <= n THEN 0 ELSE Len(s) - n IN
         /\ LastOf(s, n) \in Seq(S)
         /\ Len(LastOf(s, n)) = Len(s) - m
         /\ \A i \in 1..(Len(s) - m) : LastOf(s, n)[i] = s[m + i]
<1>0. Len(s) \in Nat
  OBVIOUS
<1>1. CASE Len(s) <= n
  BY <1>0, <1>1 DEF LastOf
<1>2. CASE ~(Len(s) <= n)
  <2> DEFINE a == Len(s) - n + 1
  <2>1. a \in Int /\ Len(s) \in Int /\ \A i \in a..Len(s) : s[i] \in S
    BY <1>0, <1>2
  <2>2. LastOf(s, n) = SubSeq(s, a, Len(s))
    BY <1>2 DEF LastOf
  <2>3. /\ SubSeq(s, a, Len(s)) \in Seq(S)
        /\ Len(SubSeq(s, a, Len(s))) = IF a <= Len(s) THEN Len(s) - a + 1 ELSE 0
        /\ \A i \in 1..(Len(s) - a + 1) : SubSeq(s, a, Len(s))[i] = s[a + i - 1]
    <3> HIDE DEF a
    <3> QED
      BY <2>1, SubSeqProperties
  <2> QED
    BY <1>0, <1>2, <2>2, <2>3
<1> QED
  BY <1>1, <1>2

\* The result copied out of a ring.
Copied(n, pos, count, held) ==
  IF count < n
  THEN [i \in 1..count |-> held[i - 1]]
  ELSE [i \in 1..n |-> held[(pos + i - 1) % n]]

\* It is the last lines of those kept.
LEMMA RingGives ==
  ASSUME NEW kept \in Seq(Line), NEW n, NEW pos, NEW count, NEW held,
         RingHolds(kept, n, pos, count, held)
  PROVE  Copied(n, pos, count, held) = LastOf(kept, n)
<1>0. LinesCap \in Nat
  BY LogTailAssumption
<1>1. /\ n \in 1..LinesCap /\ n \in Nat \ {0} /\ pos \in 0..(n - 1)
      /\ count = Len(kept) /\ count \in Nat /\ (count < n => pos = count)
  BY <1>0 DEF RingHolds
<1> DEFINE result == LastOf(kept, n)
           m == IF Len(kept) <= n THEN 0 ELSE Len(kept) - n
<1>2. /\ result \in Seq(Line) /\ Len(result) = Len(kept) - m
      /\ \A i \in 1..(Len(kept) - m) : result[i] = kept[m + i]
  BY <1>1, LastOfIs
<1>3. result = [i \in 1..(Len(kept) - m) |-> kept[m + i]]
  <2> HIDE DEF result
  <2> QED
    BY <1>2
<1>4. CASE count < n
  <2>1. ASSUME NEW i \in 1..count PROVE held[i - 1] = kept[i]
    <3>1. count + 1 - i \in 1..n /\ count + 1 - i <= count
      BY <1>1, <1>4
    <3>2. held[Slot(count + 1 - i, pos, n)] = kept[count + 1 - (count + 1 - i)]
      BY <3>1 DEF RingHolds
    <3>3. Slot(count + 1 - i, pos, n) = i - 1 /\ count + 1 - (count + 1 - i) = i
      BY <1>1, <1>4 DEF Slot
    <3> QED
      BY <3>2, <3>3
  <2>2. result = [i \in 1..count |-> kept[i]]
    BY <1>1, <1>3, <1>4
  <2> HIDE DEF result
  <2> QED
    BY <1>4, <2>1, <2>2 DEF Copied, result
<1>5. CASE ~(count < n)
  <2>1. ASSUME NEW i \in 1..n
        PROVE  held[(pos + i - 1) % n] = kept[count - n + i]
    <3>1. n + 1 - i \in 1..n /\ n + 1 - i <= count
      BY <1>1, <1>5
    <3>2. held[Slot(n + 1 - i, pos, n)] = kept[count + 1 - (n + 1 - i)]
      BY <3>1 DEF RingHolds
    <3>3. PICK a \in 0..(2 * n - 1) : a = pos + i - 1
      BY <1>1
    <3>4. a % n = IF a < n THEN a ELSE a - n
      BY <1>1, SmallRemainder
    <3>5. (pos + i - 1) % n = Slot(n + 1 - i, pos, n)
      BY <1>1, <3>3, <3>4 DEF Slot
    <3>6. count + 1 - (n + 1 - i) = count - n + i
      BY <1>1
    <3> QED
      BY <3>2, <3>5, <3>6
  <2>2. m = count - n /\ Len(kept) - m = n
    BY <1>1, <1>5
  <2>3. result = [i \in 1..n |-> kept[count - n + i]]
    <3> HIDE DEF result, m
    <3> QED
      BY <1>3, <2>2
  <2> HIDE DEF result
  <2> QED
    BY <1>5, <2>1, <2>3 DEF Copied, result
<1> QED
  BY <1>4, <1>5

-----------------------------------------------------------------------------
(* The walk back *)

\* What Reverse returns.
LEMMA ReverseIs ==
  ASSUME NEW S, NEW s \in Seq(S)
  PROVE  /\ Reverse(s) \in Seq(S)
         /\ Len(Reverse(s)) = Len(s)
         /\ \A i \in 1..Len(s) : Reverse(s)[i] = s[Len(s) - i + 1]
<1>0. Len(s) \in Nat /\ \A i \in 1..Len(s) : Len(s) - i + 1 \in 1..Len(s)
  OBVIOUS
<1>1. \A i \in 1..Len(s) : s[Len(s) - i + 1] \in S
  BY <1>0
<1>2. Reverse(s) = [i \in 1..Len(s) |-> s[Len(s) - i + 1]]
  BY DEF Reverse
<1>3. Reverse(s) \in [1..Len(s) -> S]
  BY <1>1, <1>2
<1> QED
  BY <1>0, <1>2, <1>3

\* An entry that is kept goes from the lines not yet read to those read.
LEMMA WalkTakes ==
  ASSUME NEW before \in Seq(Line), NEW lines \in Seq(Line), NEW line \in Line
  PROVE  Append(before, line) \o Reverse(lines) = before \o Reverse(Append(lines, line))
<1> DEFINE a == Append(before, line) \o Reverse(lines)
           more == Append(lines, line)
           b == before \o Reverse(more)
           k == Len(before)
           l == Len(lines)
<1>0. k \in Nat /\ l \in Nat
  OBVIOUS
<1>1. /\ Append(before, line) \in Seq(Line) /\ Len(Append(before, line)) = k + 1
      /\ Append(before, line)[k + 1] = line
      /\ \A i \in 1..k : Append(before, line)[i] = before[i]
  OBVIOUS
<1>2. /\ more \in Seq(Line) /\ Len(more) = l + 1 /\ more[l + 1] = line
      /\ \A i \in 1..l : more[i] = lines[i]
  OBVIOUS
<1> HIDE DEF more
<1>3. /\ Reverse(lines) \in Seq(Line) /\ Len(Reverse(lines)) = l
      /\ \A i \in 1..l : Reverse(lines)[i] = lines[l - i + 1]
  BY ReverseIs
<1>4. /\ Reverse(more) \in Seq(Line) /\ Len(Reverse(more)) = l + 1
      /\ \A i \in 1..(l + 1) : Reverse(more)[i] = more[l + 1 - i + 1]
  BY <1>2, ReverseIs
<1>5. /\ a \in Seq(Line) /\ Len(a) = k + 1 + l
      /\ \A i \in 1..(k + 1 + l) :
           a[i] = IF i <= k + 1 THEN Append(before, line)[i] ELSE Reverse(lines)[i - (k + 1)]
  <2>1. PICK c \in Seq(Line) : c = Append(before, line)
    BY <1>1
  <2>2. PICK d \in Seq(Line) : d = Reverse(lines)
    BY <1>3
  <2>3. /\ c \o d \in Seq(Line) /\ Len(c \o d) = Len(c) + Len(d)
        /\ \A i \in 1..Len(c) + Len(d) :
             (c \o d)[i] = IF i <= Len(c) THEN c[i] ELSE d[i - Len(c)]
    BY ConcatProperties
  <2>4. Len(c) = k + 1 /\ Len(d) = l /\ a = c \o d
    BY <1>1, <1>3, <2>1, <2>2
  <2> HIDE DEF a, k, l
  <2> QED
    BY <2>1, <2>2, <2>3, <2>4
<1>6. /\ b \in Seq(Line) /\ Len(b) = k + (l + 1)
      /\ \A i \in 1..(k + (l + 1)) :
           b[i] = IF i <= k THEN before[i] ELSE Reverse(more)[i - k]
  <2>1. PICK d \in Seq(Line) : d = Reverse(more)
    BY <1>4
  <2>2. /\ before \o d \in Seq(Line) /\ Len(before \o d) = Len(before) + Len(d)
        /\ \A i \in 1..Len(before) + Len(d) :
             (before \o d)[i] = IF i <= Len(before) THEN before[i] ELSE d[i - Len(before)]
    BY ConcatProperties
  <2>3. Len(d) = l + 1 /\ b = before \o d
    BY <1>4, <2>1
  <2> HIDE DEF b, l
  <2> QED
    BY <2>1, <2>2, <2>3
<1> HIDE DEF a, b, k, l
<1>7. ASSUME NEW i \in 1..(k + 1 + l) PROVE a[i] = b[i]
  <2>0. i \in Nat /\ i \in 1..(k + (l + 1))
    BY <1>0
  <2>1. CASE i <= k
    BY <1>0, <1>1, <1>5, <1>6, <2>0, <2>1
  <2>2. CASE i = k + 1
    <3>1. a[i] = line
      BY <1>0, <1>1, <1>5, <2>0, <2>2
    <3>2. b[i] = Reverse(more)[1]
      BY <1>0, <1>6, <2>0, <2>2
    <3>3. Reverse(more)[1] = line
      <4>1. 1 \in 1..(l + 1) /\ l + 1 - 1 + 1 = l + 1
        BY <1>0
      <4> QED
        BY <1>2, <1>4, <4>1
    <3> QED
      BY <3>1, <3>2, <3>3
  <2>3. CASE i > k + 1
    <3>1. i - (k + 1) \in 1..l /\ i - k \in 1..(l + 1)
      BY <1>0, <2>0, <2>3
    <3>2. a[i] = lines[l - (i - (k + 1)) + 1]
      BY <1>0, <1>3, <1>5, <2>0, <2>3, <3>1
    <3>3. b[i] = more[l + 1 - (i - k) + 1]
      BY <1>0, <1>4, <1>6, <2>0, <2>3, <3>1
    <3>4. /\ l - (i - (k + 1)) + 1 = l + 1 - (i - k) + 1
          /\ l + 1 - (i - k) + 1 \in 1..l
      BY <1>0, <2>0, <3>1
    <3> QED
      BY <1>2, <3>2, <3>3, <3>4
  <2> QED
    BY <1>0, <2>0, <2>1, <2>2, <2>3
<1>8. Len(a) = Len(b)
  BY <1>0, <1>5, <1>6
<1>9. a = b
  BY <1>5, <1>6, <1>7, <1>8, SeqEqual
<1> QED
  BY <1>9 DEF a, b, more

\* The walk ends when it has enough lines, or all.
LEMMA WalkGives ==
  ASSUME NEW before \in Seq(Line), NEW after \in Seq(Line), NEW n \in Nat,
         Len(after) = n \/ (before = <<>> /\ Len(after) <= n)
  PROVE  LastOf(before \o after, n) = after
<1> DEFINE s == before \o after
           k == Len(before)
           l == Len(after)
           m == IF Len(s) <= n THEN 0 ELSE Len(s) - n
<1>0. k \in Nat /\ l \in Nat
  OBVIOUS
<1>1. /\ s \in Seq(Line) /\ Len(s) = k + l
      /\ \A i \in 1..(k + l) : s[i] = IF i <= k THEN before[i] ELSE after[i - k]
  BY ConcatProperties
<1>2. /\ LastOf(s, n) \in Seq(Line) /\ Len(LastOf(s, n)) = Len(s) - m
      /\ \A i \in 1..(Len(s) - m) : LastOf(s, n)[i] = s[m + i]
  <2> HIDE DEF s
  <2> QED
    BY <1>1, LastOfIs, ZenonT(40)
<1>3. before = <<>> => k = 0
  BY EmptySeq
<1> HIDE DEF s, k
<1>4. m = k
  <2>1. l = n \/ (k = 0 /\ l <= n)
    BY <1>3
  <2>2. Len(s) = k + l
    BY <1>1
  <2> HIDE DEF l
  <2> QED
    BY <1>0, <2>1, <2>2
<1> HIDE DEF m
<1>5. Len(LastOf(s, n)) = l
  BY <1>0, <1>1, <1>2, <1>4
<1>6. ASSUME NEW i \in 1..l PROVE LastOf(s, n)[i] = after[i]
  <2>1. k + i \in 1..(k + l) /\ ~(k + i <= k) /\ (k + i) - k = i /\ Len(s) - m = l
    BY <1>0, <1>1, <1>4
  <2>2. LastOf(s, n)[i] = s[k + i]
    BY <1>2, <1>4, <2>1
  <2>3. s[k + i] = after[i]
    BY <1>1, <2>1
  <2> QED
    BY <2>2, <2>3
<1>7. LastOf(s, n) = after
  BY <1>2, <1>5, <1>6, SeqEqual
<1> QED
  BY <1>7 DEF s

-----------------------------------------------------------------------------
(* Sizes *)

Sum(s) ==
  CHOOSE g : g = [k \in 0..Len(s) |-> IF k = 0 THEN 0 ELSE g[k - 1] + s[k].size]

\* What Bytes returns.
LEMMA BytesIsSum ==
  ASSUME NEW s
  PROVE  Bytes(s) = Sum(s)[Len(s)]
BY DEF Bytes, Sum

\* A line is added to the sizes of those before it.
LEMMA SumSteps ==
  ASSUME NEW s \in Seq(Line)
  PROVE  /\ Sum(s)[0] = 0
         /\ \A k \in 0..Len(s) : Sum(s)[k] \in Nat
         /\ \A k \in 1..Len(s) : Sum(s)[k] = Sum(s)[k - 1] + s[k].size
<1>0. Len(s) \in Nat /\ 0 \in 0..Len(s) /\ \A k \in 1..Len(s) : s[k] \in Line
  OBVIOUS
<1>b. \A k \in 1..Len(s) : s[k].size \in Nat
  BY <1>0 DEF Line
<1> DEFINE n == Len(s)
           next == [p \in (1..n) \X Nat |-> p[2] + s[p[1]].size]
<1>1. next \in [(1..n) \X Nat -> Nat]
  BY <1>b
<1>2. PICK g : Solution(n, Nat, 0, next, g)
  <2>1. n \in Nat /\ 0 \in Nat
    BY <1>0
  <2> HIDE DEF n, next
  <2> QED
    BY <2>1, <1>1, RecursionExists
<1>3. ASSUME NEW k \in 1..n PROVE g[k] = g[k - 1] + s[k].size
  <2>1. k - 1 \in 0..n
    BY <1>0
  <2>2. <<k, g[k - 1]>> \in (1..n) \X Nat
    BY <2>1, <1>2 DEF Solution
  <2> QED
    BY <2>2, <1>2 DEF Solution
<1>4. g = [k \in 0..n |-> IF k = 0 THEN 0 ELSE g[k - 1] + s[k].size]
  <2>1. g = [k \in 0..n |-> g[k]]
    BY <1>2 DEF Solution
  <2>2. \A k \in 0..n : g[k] = IF k = 0 THEN 0 ELSE g[k - 1] + s[k].size
    <3> SUFFICES ASSUME NEW k \in 0..n, k # 0 PROVE k \in 1..n
      BY <1>2, <1>3 DEF Solution
    <3> QED
      BY <1>0
  <2> QED
    BY <2>1, <2>2
<1>5. PICK h : h = Sum(s)
  OBVIOUS
<1>6. h = [k \in 0..n |-> IF k = 0 THEN 0 ELSE h[k - 1] + s[k].size]
  BY <1>4, <1>5 DEF Sum
<1>7. \A k \in 0..n : h[k] = IF k = 0 THEN 0 ELSE h[k - 1] + s[k].size
  <2>1. \A k \in 0..n : \A f, e : f = [i \in 0..n |-> e] => f[k] = e
    OBVIOUS
  <2> QED
    BY <1>6
<1>8. h[0] = 0
  BY <1>0, <1>7
<1>9. ASSUME NEW k \in 1..n PROVE h[k] = h[k - 1] + s[k].size
  <2>1. k \in 0..n /\ k # 0
    BY <1>0
  <2> QED
    BY <2>1, <1>7
<1> DEFINE T == {k \in 0..n : h[k] \in Nat}
<1>10. 0 \in T
  BY <1>0, <1>8
<1>11. ASSUME NEW k \in 1..n, k - 1 \in T PROVE k \in T
  <2>1. k \in 0..n /\ s[k].size \in Nat /\ h[k - 1] \in Nat
    BY <1>0, <1>b, <1>11
  <2> QED
    BY <2>1, <1>9
<1> HIDE DEF T
<1>12. \A k \in 0..n : k \in T
  BY <1>0, <1>10, <1>11, StepsUpTo
<1>13. \A k \in 0..n : h[k] \in Nat
  BY <1>12 DEF T
<1> QED
  BY <1>5, <1>8, <1>9, <1>13

\* Every line has a size.
LEMMA LineSizes ==
  ASSUME NEW s \in Seq(Line)
  PROVE  Len(s) \in Nat /\ \A i \in 1..Len(s) : s[i] \in Line /\ s[i].size \in Nat
<1>1. Len(s) \in Nat /\ \A i \in 1..Len(s) : s[i] \in Line
  OBVIOUS
<1>2. \A line \in Line : line.size \in Nat
  BY DEF Line
<1> QED
  BY <1>1, <1>2

\* The more lines, the larger.
LEMMA SumGrows ==
  ASSUME NEW s \in Seq(Line), NEW j \in 0..Len(s), NEW k \in j..Len(s)
  PROVE  Sum(s)[j] <= Sum(s)[k]
<1> DEFINE n == Len(s)
           T == {i \in 0..n : j <= i => Sum(s)[j] <= Sum(s)[i]}
<1>0. n \in Nat /\ j \in Nat /\ k \in Nat /\ k \in 0..n /\ \A i \in 1..n : s[i].size \in Nat
  BY LineSizes
<1>1. /\ \A i \in 0..n : Sum(s)[i] \in Nat
      /\ \A i \in 1..n : Sum(s)[i] = Sum(s)[i - 1] + s[i].size
  BY SumSteps
<1> HIDE DEF n
<1>2. 0 \in T
  <2>1. j <= 0 => j = 0
    BY <1>0
  <2>2. 0 \in 0..n /\ Sum(s)[0] \in Nat
    BY <1>0, <1>1
  <2> QED
    BY <2>1, <2>2
<1>3. ASSUME NEW i \in 1..n, i - 1 \in T PROVE i \in T
  <2>1. i \in 0..n /\ i - 1 \in 0..n /\ i \in Nat
    BY <1>0
  <2>2. Sum(s)[i] = Sum(s)[i - 1] + s[i].size /\ s[i].size \in Nat
    BY <1>0, <1>1
  <2>3. Sum(s)[i] \in Nat /\ Sum(s)[i - 1] \in Nat /\ Sum(s)[j] \in Nat
    BY <1>0, <1>1, <2>1, j \in 0..n DEF n
  <2>4. CASE j = i
    BY <2>1, <2>3, <2>4
  <2>5. CASE j # i
    <3>1. j <= i => Sum(s)[j] <= Sum(s)[i - 1]
      BY <1>0, <1>3, <2>1, <2>5
    <3> QED
      BY <2>1, <2>2, <2>3, <3>1
  <2> QED
    BY <2>4, <2>5
<1> HIDE DEF T
<1>4. k \in T
  BY <1>0, <1>2, <1>3, StepsUpTo
<1> QED
  BY <1>0, <1>4 DEF T

\* The size of the last lines.
LEMMA BytesOfLast ==
  ASSUME NEW s \in Seq(Line), NEW i \in 0..Len(s)
  PROVE  Bytes(LastOf(s, i)) = Sum(s)[Len(s)] - Sum(s)[Len(s) - i]
<1> DEFINE n == Len(s)
           m == n - i
           t == LastOf(s, i)
           T == {k \in 0..i : Sum(t)[k] = Sum(s)[m + k] - Sum(s)[m]}
<1>0. n \in Nat /\ i \in Nat /\ m \in 0..n /\ m + i = n /\ i \in 0..n
  OBVIOUS
<1>1. t \in Seq(Line) /\ Len(t) = i /\ \A k \in 1..i : t[k] = s[m + k]
  <2>1. LET d == IF Len(s) <= i THEN 0 ELSE Len(s) - i IN
        /\ LastOf(s, i) \in Seq(Line)
        /\ Len(LastOf(s, i)) = Len(s) - d
        /\ \A k \in 1..(Len(s) - d) : LastOf(s, i)[k] = s[d + k]
    BY <1>0, LastOfIs
  <2> DEFINE d == IF Len(s) <= i THEN 0 ELSE Len(s) - i
  <2>2. m = d
    <3>1. \A e \in Nat : \A c \in 0..e : e - c = IF e <= c THEN 0 ELSE e - c
      OBVIOUS
    <3> HIDE DEF n
    <3>2. n - i = IF n <= i THEN 0 ELSE n - i
      BY <1>0, <3>1
    <3> QED
      BY <3>2 DEF n
  <2>3. Len(s) - d = i
    <3> HIDE DEF d
    <3> QED
      BY <1>0, <2>2
  <2> HIDE DEF d, m, n, t
  <2> QED
    BY <2>1, <2>2, <2>3 DEF t, d
<1>2. /\ \A k \in 0..n : Sum(s)[k] \in Nat
      /\ \A k \in 1..n : Sum(s)[k] = Sum(s)[k - 1] + s[k].size
  BY SumSteps
<1>3. /\ Sum(t)[0] = 0
      /\ \A k \in 0..i : Sum(t)[k] \in Nat
      /\ \A k \in 1..i : Sum(t)[k] = Sum(t)[k - 1] + t[k].size
  <2> HIDE DEF t
  <2> QED
    BY <1>1, SumSteps
<1> HIDE DEF t, m, n
<1>4. 0 \in T
  BY <1>0, <1>2, <1>3
<1>5. ASSUME NEW k \in 1..i, k - 1 \in T PROVE k \in T
  <2>1. /\ k \in 0..i /\ k - 1 \in 0..i /\ m + k \in 1..n /\ m + k \in 0..n
        /\ m + k - 1 \in 0..n /\ m + (k - 1) = m + k - 1
    BY <1>0
  <2>2. Sum(s)[m + k] = Sum(s)[m + k - 1] + s[m + k].size
    <3>1. PICK l \in 1..n : l = m + k
      BY <2>1
    <3>2. Sum(s)[l] = Sum(s)[l - 1] + s[l].size
      BY <1>2
    <3>3. l - 1 = m + k - 1
      BY <1>0, <3>1
    <3> QED
      BY <3>1, <3>2, <3>3
  <2>3. Sum(t)[k] = Sum(t)[k - 1] + s[m + k].size
    BY <1>1, <1>3
  <2>4. Sum(t)[k - 1] = Sum(s)[m + k - 1] - Sum(s)[m]
    BY <1>5, <2>1
  <2>5. /\ Sum(s)[m + k] \in Nat /\ Sum(s)[m + k - 1] \in Nat /\ Sum(s)[m] \in Nat
        /\ s[m + k].size \in Nat
    <3>1. s[m + k] \in Line
      BY <2>1 DEF n
    <3> QED
      BY <1>0, <1>2, <2>1, <3>1 DEF Line
  <2>6. Sum(t)[k] = Sum(s)[m + k] - Sum(s)[m]
    BY <2>2, <2>3, <2>4, <2>5
  <2> QED
    BY <2>1, <2>6
<1> HIDE DEF T
<1>6. i \in T
  <2>1. \A k \in 0..i : k \in T
    BY <1>0, <1>4, <1>5, StepsUpTo
  <2>2. i \in 0..i
    BY <1>0
  <2> QED
    BY <2>1, <2>2
<1>7. Bytes(t) = Sum(t)[i]
  BY <1>1, BytesIsSum
<1>8. Sum(t)[i] = Sum(s)[n] - Sum(s)[m]
  BY <1>0, <1>6 DEF T
<1> QED
  BY <1>7, <1>8 DEF t, m, n

-----------------------------------------------------------------------------
(* trimLinesToBytes *)

From(s) ==
  CHOOSE g : g = [i \in 0..Len(s) |->
                    [used \in Nat |->
                       IF i = 0 \/ used + s[i].size > MaxBytes THEN i
                       ELSE g[i - 1][used + s[i].size]]]

\* Where the loop of trimLinesToBytes ends.
LEMMA StartIsFrom ==
  ASSUME NEW s
  PROVE  Start(s) = From(s)[Len(s)][0]
BY DEF Start, From

\* One turn of the loop.
LEMMA FromSteps ==
  ASSUME NEW s \in Seq(Line)
  PROVE  /\ \A u \in Nat : From(s)[0][u] = 0
         /\ \A i \in 1..Len(s), u \in Nat :
              From(s)[i][u] = IF u + s[i].size > MaxBytes THEN i
                              ELSE From(s)[i - 1][u + s[i].size]
<1> DEFINE n == Len(s)
           V == [Nat -> 0..n]
           next == [p \in (1..n) \X V |->
                      [used \in Nat |-> IF used + s[p[1]].size > MaxBytes THEN p[1]
                                        ELSE p[2][used + s[p[1]].size]]]
           first == [used \in Nat |-> 0]
<1>a. \A c, e \in Nat : c + e \in Nat
  OBVIOUS
<1>0. n \in Nat /\ 0 \in 0..n /\ \A k \in 1..n : s[k].size \in Nat
  BY LineSizes
<1>1. next \in [(1..n) \X V -> V]
  <2> HIDE DEF n
  <2>1. ASSUME NEW p \in (1..n) \X V, NEW used \in Nat
        PROVE  (IF used + s[p[1]].size > MaxBytes THEN p[1]
                ELSE p[2][used + s[p[1]].size]) \in 0..n
    <3>1. PICK i \in 1..n, f \in V : p = <<i, f>>
      <4> HIDE DEF V
      <4> QED
        BY <2>1
    <3>2. p[1] = i /\ p[2] = f /\ i \in 0..n
      BY <1>0, <3>1
    <3>3. used + s[i].size \in Nat
      <4>1. s[i].size \in Nat
        BY <1>0, <3>1, Zenon
      <4> QED
        BY <1>a, <2>1, <4>1, Zenon
    <3>4. f[used + s[i].size] \in 0..n
      BY <3>1, <3>3
    <3> QED
      BY <3>2, <3>4
  <2> QED
    BY <2>1
<1>2. first \in V
  BY <1>0
<1>3. PICK g : Solution(n, V, first, next, g)
  <2> HIDE DEF n, V, next, first
  <2> QED
    BY <1>0, <1>1, <1>2, RecursionExists
<1> DEFINE Turn(f, i) == [used \in Nat |->
                            IF i = 0 \/ used + s[i].size > MaxBytes THEN i
                            ELSE f[i - 1][used + s[i].size]]
<1>4. ASSUME NEW i \in 0..n PROVE g[i] = Turn(g, i)
  <2>1. CASE i = 0
    BY <1>3, <2>1 DEF Solution
  <2>2. CASE i # 0
    <3>1. i \in 1..n /\ i - 1 \in 0..n
      BY <1>0, <2>2
    <3>2. <<i, g[i - 1]>> \in (1..n) \X V
      BY <3>1, <1>3 DEF Solution
    <3>3. g[i] = next[<<i, g[i - 1]>>]
      BY <3>1, <1>3 DEF Solution
    <3> QED
      BY <2>2, <3>2, <3>3
  <2> QED
    BY <2>1, <2>2
<1>5. g = [i \in 0..n |-> Turn(g, i)]
  <2>1. g = [i \in 0..n |-> g[i]]
    BY <1>3 DEF Solution
  <2> HIDE DEF Turn
  <2> QED
    BY <2>1, <1>4
<1>6. PICK h : h = From(s)
  OBVIOUS
<1>7. h = [i \in 0..n |-> Turn(h, i)]
  BY <1>5, <1>6 DEF From
<1>8. \A i \in 0..n : h[i] = Turn(h, i)
  <2>1. \A k \in 0..n : \A f, e : f = [i \in 0..n |-> e] => f[k] = e
    OBVIOUS
  <2> HIDE DEF Turn
  <2> QED
    BY <1>7
<1>9. \A u \in Nat : h[0][u] = 0
  BY <1>0, <1>8
<1>10. ASSUME NEW i \in 1..n, NEW u \in Nat
       PROVE  h[i][u] = IF u + s[i].size > MaxBytes THEN i ELSE h[i - 1][u + s[i].size]
  <2>1. i \in 0..n /\ i # 0
    BY <1>0
  <2>2. h[i] = Turn(h, i)
    BY <1>8, <2>1
  <2> QED
    BY <2>1, <2>2
<1> QED
  BY <1>6, <1>9, <1>10

\* The loop ends at the first of the lines that fit together.
LEMMA StartFits ==
  ASSUME NEW s \in Seq(Line)
  PROVE  /\ Start(s) \in 0..Len(s)
         /\ Sum(s)[Len(s)] - Sum(s)[Start(s)] <= MaxBytes
         /\ Start(s) > 0 => Sum(s)[Len(s)] - Sum(s)[Start(s) - 1] > MaxBytes
<1> DEFINE n == Len(s)
           S(k) == Sum(s)[k]
           Ends(i, u, j) == /\ j \in 0..i
                            /\ (u + S(i)) - S(j) <= MaxBytes
                            /\ j > 0 => (u + S(i)) - S(j - 1) > MaxBytes
           T == {i \in 0..n : \A u \in 0..MaxBytes : Ends(i, u, From(s)[i][u])}
<1>0. /\ n \in Nat /\ MaxBytes \in Nat /\ 0 \in 0..n
      /\ \A k \in 1..n : s[k].size \in Nat
  BY LineSizes, LogTailAssumption
<1>1. /\ \A k \in 0..n : S(k) \in Nat
      /\ \A k \in 1..n : S(k) = S(k - 1) + s[k].size
  BY SumSteps
<1>2. /\ \A u \in Nat : From(s)[0][u] = 0
      /\ \A i \in 1..n, u \in Nat :
           From(s)[i][u] = IF u + s[i].size > MaxBytes THEN i
                           ELSE From(s)[i - 1][u + s[i].size]
  BY FromSteps
<1> HIDE DEF n, S
<1>3. 0 \in T
  <2>1. ASSUME NEW u \in 0..MaxBytes PROVE Ends(0, u, From(s)[0][u])
    <3>1. From(s)[0][u] = 0 /\ S(0) \in Nat
      BY <1>0, <1>1, <1>2
    <3> QED
      BY <1>0, <3>1
  <2> QED
    BY <1>0, <2>1
<1>4. ASSUME NEW i \in 1..n, i - 1 \in T PROVE i \in T
  <2>0. i \in 0..n /\ i - 1 \in 0..n /\ i \in Nat /\ i > 0 /\ s[i].size \in Nat
    BY <1>0
  <2>1. S(i) = S(i - 1) + s[i].size /\ S(i) \in Nat /\ S(i - 1) \in Nat
    BY <1>1, <2>0
  <2>2. ASSUME NEW u \in 0..MaxBytes PROVE Ends(i, u, From(s)[i][u])
    <3>1. CASE u + s[i].size > MaxBytes
      <4>1. From(s)[i][u] = i
        BY <1>2, <3>1
      <4>2. Ends(i, u, i)
        BY <1>0, <2>0, <2>1, <3>1, SMTT(30)
      <4> QED
        BY <4>1, <4>2
    <3>2. CASE ~(u + s[i].size > MaxBytes)
      <4>1. PICK v \in 0..MaxBytes : v = u + s[i].size
        BY <1>0, <2>0, <3>2
      <4>2. PICK j : j = From(s)[i - 1][v]
        OBVIOUS
      <4>3. From(s)[i][u] = j
        BY <1>2, <3>2, <4>1, <4>2
      <4>4. Ends(i - 1, v, j)
        BY <1>4, <4>1, <4>2
      <4>5. v + S(i - 1) = u + S(i)
        BY <1>0, <2>0, <2>1, <4>1, SMTT(30)
      <4>6. j \in 0..i
        BY <2>0, <4>4
      <4>7. Ends(i, u, j)
        <5>1. j \in 0..n /\ (j > 0 => j - 1 \in 0..n)
          BY <1>0, <2>0, <4>6
        <5>2. S(j) \in Nat /\ (j > 0 => S(j - 1) \in Nat)
          BY <1>1, <5>1
        <5>3. (v + S(i - 1)) - S(j) <= MaxBytes
          BY <4>4
        <5>4. j > 0 => (v + S(i - 1)) - S(j - 1) > MaxBytes
          BY <4>4
        <5>5. (u + S(i)) - S(j) <= MaxBytes
          BY <4>5, <5>3, Zenon
        <5>6. j > 0 => (u + S(i)) - S(j - 1) > MaxBytes
          BY <4>5, <5>4, Zenon
        <5> QED
          BY <4>6, <5>5, <5>6
      <4> QED
        BY <4>3, <4>7
    <3> QED
      BY <3>1, <3>2
  <2> QED
    BY <2>0, <2>2
<1> HIDE DEF T
<1>5. n \in T
  <2>1. \A k \in 0..n : k \in T
    BY <1>0, <1>3, <1>4, StepsUpTo
  <2>2. n \in 0..n
    BY <1>0
  <2> QED
    BY <2>1, <2>2
<1> HIDE DEF Ends
<1>6. Ends(n, 0, From(s)[n][0])
  <2>1. 0 \in 0..MaxBytes
    BY <1>0
  <2> QED
    BY <1>5, <2>1 DEF T
<1>7. PICK j : j = Start(s)
  OBVIOUS
<1>8. Ends(n, 0, j)
  BY <1>6, <1>7, StartIsFrom DEF n
<1>9. /\ j \in 0..n
      /\ S(n) - S(j) <= MaxBytes
      /\ j > 0 => S(n) - S(j - 1) > MaxBytes
  <2>1. /\ j \in 0..n
        /\ (0 + S(n)) - S(j) <= MaxBytes
        /\ j > 0 => (0 + S(n)) - S(j - 1) > MaxBytes
    BY <1>8 DEF Ends
  <2>2. S(n) \in Nat
    BY <1>0, <1>1
  <2>3. j \in 0..n /\ (j > 0 => j - 1 \in 0..n)
    BY <1>0, <2>1
  <2>4. S(j) \in Nat /\ (j > 0 => S(j - 1) \in Nat)
    BY <1>1, <2>3
  <2> QED
    BY <2>1, <2>2, <2>4
<1> QED
  BY <1>7, <1>9 DEF n, S

\* The number of the most recent lines that fit.
LEMMA MostThatFit ==
  ASSUME NEW s \in Seq(Line)
  PROVE  Max({i \in 0..Len(s) : Bytes(LastOf(s, i)) <= MaxBytes}) = Len(s) - Start(s)
<1> DEFINE n == Len(s)
           S(k) == Sum(s)[k]
           fit == {i \in 0..n : Bytes(LastOf(s, i)) <= MaxBytes}
<1>0. n \in Nat /\ MaxBytes \in Nat
  BY LineSizes, LogTailAssumption
<1>1. \A k \in 0..n : S(k) \in Nat
  BY SumSteps
<1>2. \A i \in 0..n : Bytes(LastOf(s, i)) = S(n) - S(n - i)
  BY BytesOfLast
<1>3. PICK j : j = Start(s)
  OBVIOUS
<1>4. /\ j \in 0..n
      /\ S(n) - S(j) <= MaxBytes
      /\ j > 0 => S(n) - S(j - 1) > MaxBytes
  BY <1>3, StartFits
<1>5. \A i \in 0..n : \A k \in i..n : S(i) <= S(k)
  BY SumGrows
<1> HIDE DEF S, n
<1>6. n - j \in fit
  <2>1. n - j \in 0..n /\ n - (n - j) = j
    BY <1>0, <1>4
  <2> QED
    BY <1>2, <1>4, <2>1
<1>7. ASSUME NEW y \in fit, ~(n - j >= y) PROVE FALSE
  <2>1. y \in 0..n /\ S(n) - S(n - y) <= MaxBytes
    BY <1>2
  <2>2. n - y \in 0..n /\ j > 0 /\ j - 1 \in (n - y)..n /\ j - 1 \in 0..n /\ n \in 0..n
    BY <1>0, <1>4, <1>7, <2>1
  <2>3. S(n - y) <= S(j - 1)
    BY <1>5, <2>2
  <2>4. S(n) \in Nat /\ S(n - y) \in Nat /\ S(j - 1) \in Nat
    BY <1>1, <2>2
  <2>5. S(n) - S(j - 1) > MaxBytes
    BY <1>4, <2>2
  <2> QED
    BY <1>0, <2>1, <2>3, <2>4, <2>5
<1>8. fit \subseteq Nat /\ n - j \in Nat
  BY <1>0, <1>6
<1> HIDE DEF fit
<1>9. Max(fit) = n - j
  <2>1. PICK m \in Nat : m = n - j
    BY <1>8
  <2>2. m \in fit /\ \A y \in fit : m >= y
    BY <1>6, <1>7, <2>1
  <2>3. \A x \in fit : (\A y \in fit : x >= y) => x = m
    <3> SUFFICES ASSUME NEW x \in fit, x >= m, m >= x PROVE x = m
      BY <2>2
    <3> QED
      BY <1>8
  <2>4. Max(fit) = m
    BY <2>2, <2>3 DEF Max
  <2> QED
    BY <2>1, <2>4
<1> QED
  BY <1>3, <1>9 DEF fit, n

\* trimLinesToBytes leaves the most recent lines that fit.
LEMMA TrimFits ==
  ASSUME NEW s \in Seq(Line)
  PROVE  TrimLinesToBytes(s) = Fitted(s)
<1> DEFINE n == Len(s)
<1>1. PICK j : j = Start(s)
  OBVIOUS
<1>2. n \in Nat /\ j \in 0..n
  BY <1>1, StartFits
<1>3. PICK k : k = Max({i \in 0..n : Bytes(LastOf(s, i)) <= MaxBytes})
  OBVIOUS
<1>4. k = n - j
  BY <1>1, <1>3, MostThatFit
<1>5. Fitted(s) = IF k \in {0, n} THEN s ELSE <<Marker>> \o LastOf(s, k)
  BY <1>3 DEF Fitted
<1>6. TrimLinesToBytes(s) = IF j > 0 /\ j < n THEN <<Marker>> \o SubSeq(s, j + 1, n) ELSE s
  BY <1>1 DEF TrimLinesToBytes
<1>7. k \in {0, n} <=> ~(j > 0 /\ j < n)
  <2> HIDE DEF n
  <2> QED
    BY <1>2, <1>4
<1>8. ASSUME j > 0, j < n PROVE LastOf(s, k) = SubSeq(s, j + 1, n)
  <2>1. ~(n <= k) /\ n - k + 1 = j + 1
    <3> HIDE DEF n
    <3> QED
      BY <1>2, <1>4, <1>8
  <2> QED
    BY <2>1 DEF LastOf
<1> QED
  BY <1>5, <1>6, <1>7, <1>8

\* Its lines are lines of the log, behind the marker if some are missing.
LEMMA TrimTypes ==
  ASSUME NEW s \in Seq(Line)
  PROVE  TrimLinesToBytes(s) \in Seq(Line \cup {Marker})
<1>1. s \in Seq(Line \cup {Marker}) /\ <<Marker>> \in Seq(Line \cup {Marker})
  <2>1. <<Marker>> \in Seq(Line \cup {Marker})
    OBVIOUS
  <2> QED
    BY <2>1, SeqMonotonic
<1>2. Start(s) \in 0..Len(s) /\ Len(s) \in Nat
  BY StartFits
<1>3. SubSeq(s, Start(s) + 1, Len(s)) \in Seq(Line \cup {Marker})
  <2>1. /\ Start(s) + 1 \in Int /\ Len(s) \in Int
        /\ \A i \in (Start(s) + 1)..Len(s) : s[i] \in Line \cup {Marker}
    <3>1. \A i \in (Start(s) + 1)..Len(s) : i \in 1..Len(s)
      BY <1>2
    <3> QED
      BY <1>2, <3>1
  <2> QED
    BY <2>1, SubSeqProperties
<1>4. <<Marker>> \o SubSeq(s, Start(s) + 1, Len(s)) \in Seq(Line \cup {Marker})
  BY <1>1, <1>3, ConcatProperties
<1> QED
  BY <1>1, <1>4 DEF TrimLinesToBytes

-----------------------------------------------------------------------------
(* The invariant *)

\* A request whose reader has not been chosen yet.
Asked(q) ==
  /\ q.n \in 1..LinesCap
  /\ q.at = 0 /\ q.pos = 0 /\ q.count = 0 /\ q.lines = <<>>
  /\ q.raw \in Searches
  /\ q.search = TruncateSearch(q.raw)

\* A scan of the file: the ring holds what is to be kept of the lines scanned.
Scanned(q, s, held) ==
  /\ q.at \in 0..Len(s)
  /\ RingHolds(Kept(s, q.filter)[q.at], q.n, q.pos, q.count, held)

\* A walk back: what is to be kept of all lines is what is to be kept of those
\* not yet read, then what was read.
Walked(q, s) ==
  /\ q.end \in 0..Len(s)
  /\ q.at \in 1..(Len(s) + 1)
  /\ q.lines \in Seq(Line)
  /\ Len(q.lines) <= q.n
  /\ Kept(s, q.filter)[q.end] = Kept(s, q.filter)[q.at - 1] \o Reverse(q.lines)

\* An answer: what TailExact says of it.
Answered(q, s) ==
  /\ q.end \in 0..Len(s)
  /\ q.lines = Fitted(LastOf(Kept(s, q.filter)[q.end], q.n))

ReaderOk(q, src, s, rg, free) ==
  /\ q \in Reader
  /\ q.pos < LinesCap
  /\ q.pc = "query" => Asked(q)
  /\ q.pc = "scan" /\ src = "file" =>
       /\ q.buf \in Buffers \ free
       /\ Scanned(q, s, rg[q.buf])
  /\ q.pc = "scan" /\ src = "journal" => Walked(q, s)
  /\ q.pc = "reply" => Answered(q, s)

Scans(r) == source = "file" /\ rd[r].pc = "scan"

\* Scans use rings of their own, which are not in the pool.
LogInv ==
  /\ source \in {"file", "journal", "none"}
  /\ log \in Seq(Line)
  /\ ring \in [Buffers -> Ring]
  /\ pool \subseteq Buffers
  /\ rd \in [Readers -> Reader]
  /\ \A r \in Readers : ReaderOk(rd[r], source, log, ring, pool)
  /\ \A r, t \in Readers : Scans(r) /\ Scans(t) /\ r # t => rd[r].buf # rd[t].buf

\* The search string of a request is a sequence of bytes.
LEMMA SearchTypes ==
  ASSUME NEW s \in Searches
  PROVE  TruncateSearch(s) \in Seq(Bytes4)
<1>1. s \in Seq(Bytes4) /\ MaxSearch \in Nat
  BY LogTailAssumption DEF Bytes4
<1>2. CASE Len(s) <= MaxSearch
  BY <1>1, <1>2, TruncateIsBack
<1>3. CASE ~(Len(s) <= MaxSearch)
  <2>1. Len(s) \in Nat /\ Len(s) > MaxSearch
    BY <1>1, <1>3
  <2>2. PICK m : Longest(s, MaxSearch, m) /\ TruncateSearch(s) = SubSeq(s, 1, m)
    BY <1>1, <2>1, TruncateIsLongest
  <2>3. m \in 0..Len(s)
    BY <1>1, <2>1, <2>2 DEF Longest
  <2> QED
    BY <1>1, <2>2, <2>3, PrefixFacts
<1> QED
  BY <1>2, <1>3

Empty(pc, raw, search, n, filter) ==
  [pc |-> pc, raw |-> raw, search |-> search, n |-> n, filter |-> filter,
   buf |-> None, at |-> 0, pos |-> 0, count |-> 0, end |-> 0, lines |-> <<>>]

\* handleGetLogs leaves what a reader expects.
LEMMA QueryIsOk ==
  ASSUME NEW p \in 0..(LinesCap + 1), NEW s \in Searches, NEW src, NEW lg, NEW rg,
         NEW free, NEW cut, NEW n, NEW filter \in BOOLEAN,
         cut = TruncateSearch(s), n = MaxLines(p), filter = (cut # <<>>)
  PROVE  LET q == Empty("query", s, cut, n, filter) IN
         ReaderOk(q, src, lg, rg, free) /\ q.pc = "query"
<1>0. LinesCap \in Nat /\ LinesCap > 0 /\ DefaultLines \in 1..LinesCap
  BY LogTailAssumption
<1>1. cut \in Seq({"a", "2", "3", "c"})
  BY SearchTypes DEF Bytes4
<1>2. n \in 1..LinesCap /\ n \in Nat
  BY <1>0 DEF MaxLines
<1>3. <<>> \in Seq(Line \cup {Marker}) /\ s \in Searches \cup {<<>>}
  OBVIOUS
<1> DEFINE q == Empty("query", s, cut, n, filter)
<1>4. /\ q \in Reader /\ q.pc = "query" /\ q.n = n /\ q.raw = s /\ q.search = cut
      /\ q.at = 0 /\ q.pos = 0 /\ q.count = 0 /\ q.lines = <<>>
  <2>1. q \in Reader
    BY <1>1, <1>2, <1>3 DEF Reader, Empty
  <2> QED
    BY <2>1 DEF Empty
<1> HIDE DEF q
<1>5. q.pos < LinesCap
  BY <1>0, <1>4
<1>6. Asked(q)
  BY <1>2, <1>4 DEF Asked
<1> QED
  BY <1>4, <1>5, <1>6 DEF ReaderOk, q

\* The answer to a request that finds no log.
LEMMA NoneIsOk ==
  ASSUME NEW src, NEW lg \in Seq(Line), NEW rg, NEW free
  PROVE  LET q == Empty("reply", <<>>, <<>>, 0, FALSE) IN
         ReaderOk(q, src, lg, rg, free) /\ q.pc = "reply"
<1> DEFINE q == Empty("reply", <<>>, <<>>, 0, FALSE)
<1>0. LinesCap \in Nat /\ LinesCap > 0
  BY LogTailAssumption
<1>2. <<>> \in Seq(Line) /\ Len(<<>>) = 0
  OBVIOUS
<1>3. /\ q \in Reader /\ q.pc = "reply" /\ q.n = 0 /\ q.filter = FALSE
      /\ q.pos = 0 /\ q.end = 0 /\ q.lines = <<>>
  <2>1. <<>> \in Seq(Line \cup {Marker}) /\ <<>> \in Seq({"a", "2", "3", "c"})
    OBVIOUS
  <2>2. q \in Reader
    BY <2>1 DEF Reader, Empty
  <2> QED
    BY <2>2 DEF Empty
<1> HIDE DEF q
<1>4. Kept(lg, q.filter)[q.end] = <<>>
  BY <1>3, KeptSteps
<1>5. PICK e \in Seq(Line) : e = <<>>
  BY <1>2
<1>6. LastOf(e, q.n) = e
  BY <1>2, <1>3, <1>5 DEF LastOf
<1>7. Fitted(e) = e
  <2>1. Start(e) \in 0..Len(e)
    BY StartFits
  <2>2. ~(Start(e) > 0 /\ Start(e) < Len(e))
    BY <1>2, <1>5, <2>1
  <2>3. TrimLinesToBytes(e) = e
    BY <2>2 DEF TrimLinesToBytes
  <2> QED
    BY <2>3, TrimFits
<1>8. q.end \in 0..Len(lg)
  BY <1>3
<1>9. Answered(q, lg)
  BY <1>3, <1>4, <1>5, <1>6, <1>7, <1>8 DEF Answered
<1> QED
  BY <1>0, <1>3, <1>9 DEF ReaderOk, q

\* A request that is over, or has failed.
LEMMA RestIsOk ==
  ASSUME NEW src, NEW lg, NEW rg, NEW free, NEW q,
         q = Idle \/ q = [Idle EXCEPT !.pc = "failed"]
  PROVE  ReaderOk(q, src, lg, rg, free) /\ q.pc \in {"idle", "failed"}
<1>0. LinesCap \in Nat /\ LinesCap > 0
  BY LogTailAssumption
<1>1. PICK pc \in {"idle", "failed"} :
        q = [pc |-> pc, raw |-> <<>>, search |-> <<>>, n |-> 0, filter |-> FALSE,
             buf |-> None, at |-> 0, pos |-> 0, count |-> 0, end |-> 0, lines |-> <<>>]
  BY DEF Idle
<1>2. <<>> \in Seq(Line \cup {Marker}) /\ <<>> \in Seq({"a", "2", "3", "c"})
  OBVIOUS
<1>3. q \in Reader
  BY <1>1, <1>2 DEF Reader
<1> QED
  BY <1>0, <1>1, <1>3 DEF ReaderOk

\* What a request holds stays true of a log that grows.
LEMMA GrowIsOk ==
  ASSUME NEW q, NEW src, NEW s \in Seq(Line), NEW rg, NEW free, NEW line \in Line,
         ReaderOk(q, src, s, rg, free)
  PROVE  ReaderOk(q, src, Append(s, line), rg, free)
<1> DEFINE t == Append(s, line)
<1>0. Len(s) \in Nat /\ Len(t) = Len(s) + 1
  OBVIOUS
<1>1. \A k \in 0..Len(s) : Kept(t, q.filter)[k] = Kept(s, q.filter)[k]
  BY KeptStays
<1> HIDE DEF t
<1>2. ASSUME Scanned(q, s, rg[q.buf]) PROVE Scanned(q, t, rg[q.buf])
  <2>1. q.at \in 0..Len(s) /\ q.at \in 0..Len(t)
    BY <1>0, <1>2 DEF Scanned
  <2>2. Kept(t, q.filter)[q.at] = Kept(s, q.filter)[q.at]
    BY <1>1, <2>1
  <2> QED
    BY <1>2, <2>1, <2>2 DEF Scanned
<1>3. ASSUME Walked(q, s) PROVE Walked(q, t)
  <2>1. /\ q.end \in 0..Len(s) /\ q.end \in 0..Len(t)
        /\ q.at - 1 \in 0..Len(s) /\ q.at \in 1..(Len(t) + 1)
    BY <1>0, <1>3 DEF Walked
  <2>2. /\ Kept(t, q.filter)[q.end] = Kept(s, q.filter)[q.end]
        /\ Kept(t, q.filter)[q.at - 1] = Kept(s, q.filter)[q.at - 1]
    BY <1>1, <2>1
  <2> QED
    BY <1>3, <2>1, <2>2 DEF Walked
<1>4. ASSUME Answered(q, s) PROVE Answered(q, t)
  <2>1. q.end \in 0..Len(s) /\ q.end \in 0..Len(t)
    BY <1>0, <1>4 DEF Answered
  <2>2. Kept(t, q.filter)[q.end] = Kept(s, q.filter)[q.end]
    BY <1>1, <2>1
  <2> QED
    BY <1>4, <2>1, <2>2 DEF Answered
<1>5. ReaderOk(q, src, t, rg, free)
  BY <1>2, <1>3, <1>4 DEF ReaderOk
<1> QED
  BY <1>5 DEF t

\* What a request holds stays true when another one takes a step, if it leaves
\* its ring alone.
LEMMA OthersAreOk ==
  ASSUME NEW q, NEW src, NEW s, NEW rg, NEW free, NEW rg2, NEW free2,
         ReaderOk(q, src, s, rg, free),
         src = "file" /\ q.pc = "scan" => rg2[q.buf] = rg[q.buf] /\ q.buf \notin free2
  PROVE  ReaderOk(q, src, s, rg2, free2)
BY DEF ReaderOk, Scanned

Opened(q, b) == [Forgotten(q) EXCEPT !.pc = "scan", !.buf = b]

\* An opened file: nothing has been scanned, whatever the ring holds.
LEMMA OpenFileIsOk ==
  ASSUME NEW q \in Reader, Asked(q), NEW s \in Seq(Line), NEW rg, NEW b \in Buffers,
         NEW free, b \notin free
  PROVE  LET q2 == Opened(q, b) IN
         ReaderOk(q2, "file", s, rg, free) /\ q2.pc = "scan" /\ q2.buf = b
<1> DEFINE q2 == Opened(q, b)
<1>1. q \in Reader /\ q.pos < LinesCap /\ Asked(q)
  BY LogTailAssumption DEF Asked
<1>2. /\ q2.pc = "scan" /\ q2.buf = b /\ q2.raw = <<>> /\ q2.search = <<>>
      /\ q2.n = q.n /\ q2.filter = q.filter /\ q2.at = q.at /\ q2.pos = q.pos
      /\ q2.count = q.count /\ q2.end = q.end /\ q2.lines = q.lines
  BY <1>1 DEF Reader, Forgotten, Opened
<1>3. q2 \in Reader
  <2>1. <<>> \in Seq({"a", "2", "3", "c"}) /\ <<>> \in Searches \cup {<<>>}
    OBVIOUS
  <2> QED
    BY <1>1, <2>1 DEF Reader, Forgotten, Opened
<1> HIDE DEF q2
<1>4. Kept(s, q2.filter)[0] = <<>>
  BY KeptSteps
<1>5. q2.n \in 1..LinesCap /\ q2.at = 0 /\ q2.pos = 0 /\ q2.count = 0
  BY <1>1, <1>2 DEF Asked
<1>6. RingHolds(<<>>, q2.n, 0, 0, rg[b])
  <2>1. LinesCap \in Nat /\ Len(<<>>) = 0
    BY LogTailAssumption
  <2> QED
    BY <1>5, <2>1 DEF RingHolds
<1>7. 0 \in 0..Len(s)
  OBVIOUS
<1>8. Scanned(q2, s, rg[b])
  BY <1>4, <1>5, <1>6, <1>7 DEF Scanned
<1>9. q2.pos < LinesCap
  BY <1>1, <1>2
<1> QED
  BY <1>2, <1>3, <1>8, <1>9 DEF ReaderOk, q2

\* A scan with its ring.
LEMMA ScanFacts ==
  ASSUME NEW q, NEW src, NEW s, NEW rg, NEW free,
         ReaderOk(q, src, s, rg, free), q.pc = "scan", src = "file"
  PROVE  /\ q \in Reader /\ q.pos < LinesCap /\ q.at \in 0..Len(s)
         /\ q.buf \in Buffers \ free
         /\ RingHolds(Kept(s, q.filter)[q.at], q.n, q.pos, q.count, rg[q.buf])
         /\ q.n \in 1..LinesCap /\ q.pos \in 0..(q.n - 1) /\ q.count \in Nat
BY DEF ReaderOk, Scanned, RingHolds, Reader

\* A line that matches goes into the ring.
LEMMA TakenIsOk ==
  ASSUME NEW q, NEW src, NEW s \in Seq(Line), NEW rg \in [Buffers -> Ring], NEW free,
         ReaderOk(q, src, s, rg, free), q.pc = "scan", src = "file",
         q.at < Len(s), Fits(s[q.at + 1], q.filter),
         NEW q2, q2 = [q EXCEPT !.at = q.at + 1, !.pos = (q.pos + 1) % q.n,
                                !.count = q.count + 1]
  PROVE  /\ ReaderOk(q2, src, s, [rg EXCEPT ![q.buf][q.pos] = s[q.at + 1]], free)
         /\ q2.pc = q.pc /\ q2.buf = q.buf
<1> DEFINE line == s[q.at + 1]
           rg2 == [rg EXCEPT ![q.buf][q.pos] = line]
           kept == Kept(s, q.filter)[q.at]
<1>0. LinesCap \in Nat /\ Len(s) \in Nat
  BY LogTailAssumption
<1>1. /\ q \in Reader /\ q.pos < LinesCap /\ q.at \in 0..Len(s)
      /\ q.buf \in Buffers \ free
      /\ RingHolds(kept, q.n, q.pos, q.count, rg[q.buf])
      /\ q.n \in 1..LinesCap /\ q.pos \in 0..(q.n - 1) /\ q.count \in Nat
  BY ScanFacts
<1>2. q.at + 1 \in 1..Len(s) /\ q.at + 1 \in 0..Len(s) /\ q.at + 1 \in Nat /\ line \in Line
  BY <1>0, <1>1
<1>3. kept \in Seq(Line) /\ Kept(s, q.filter)[q.at + 1] = Append(kept, line)
  <2>1. kept \in Seq(Line)
    BY <1>1, KeptTypes
  <2>2. PICK k \in 1..Len(s) : k = q.at + 1
    BY <1>2
  <2>3. Kept(s, q.filter)[k] = IF Fits(s[k], q.filter)
                               THEN Append(Kept(s, q.filter)[k - 1], s[k])
                               ELSE Kept(s, q.filter)[k - 1]
    BY <2>2, KeptSteps
  <2>4. k - 1 = q.at
    BY <1>1, <2>2
  <2> QED
    BY <2>1, <2>2, <2>3, <2>4
<1>4. rg[q.buf] \in Ring /\ rg2[q.buf] = [rg[q.buf] EXCEPT ![q.pos] = line]
  BY <1>1
<1>5. RingHolds(Append(kept, line), q.n, (q.pos + 1) % q.n, q.count + 1,
                [rg[q.buf] EXCEPT ![q.pos] = line])
  <2> HIDE DEF kept, line
  <2> QED
    BY <1>1, <1>2, <1>3, <1>4, RingTakes
<1> HIDE DEF kept, line, rg2
<1>6. PICK pos \in Nat : pos = (q.pos + 1) % q.n /\ pos < LinesCap
  <2>1. (q.pos + 1) % q.n \in 0..(q.n - 1)
    BY <1>5 DEF RingHolds
  <2> QED
    BY <1>0, <1>1, <2>1
<1>7. /\ q2.pc = q.pc /\ q2.buf = q.buf /\ q2.n = q.n /\ q2.filter = q.filter
      /\ q2.at = q.at + 1 /\ q2.pos = pos /\ q2.count = q.count + 1
  BY <1>1, <1>6 DEF Reader
<1>8. q2 \in Reader
  <2>1. q.count + 1 \in Nat
    BY <1>1
  <2> QED
    BY <1>1, <1>2, <1>6, <2>1 DEF Reader
<1>9. Scanned(q2, s, rg2[q2.buf])
  BY <1>2, <1>3, <1>4, <1>5, <1>6, <1>7 DEF Scanned
<1>10. ReaderOk(q2, src, s, rg2, free)
  BY <1>1, <1>6, <1>7, <1>8, <1>9 DEF ReaderOk
<1> QED
  BY <1>7, <1>10 DEF rg2, line

\* A line that does not is skipped.
LEMMA SkippedIsOk ==
  ASSUME NEW q, NEW src, NEW s \in Seq(Line), NEW rg, NEW free,
         ReaderOk(q, src, s, rg, free), q.pc = "scan", src = "file",
         q.at < Len(s), ~Fits(s[q.at + 1], q.filter),
         NEW q2, q2 = [q EXCEPT !.at = q.at + 1]
  PROVE  ReaderOk(q2, src, s, rg, free) /\ q2.pc = q.pc /\ q2.buf = q.buf
<1>0. Len(s) \in Nat
  OBVIOUS
<1>1. /\ q \in Reader /\ q.pos < LinesCap /\ q.at \in 0..Len(s)
      /\ q.buf \in Buffers \ free
      /\ RingHolds(Kept(s, q.filter)[q.at], q.n, q.pos, q.count, rg[q.buf])
  BY ScanFacts
<1>2. PICK k \in 1..Len(s) : k = q.at + 1
  BY <1>0, <1>1
<1>3. k - 1 = q.at /\ k \in Nat /\ k \in 0..Len(s)
  BY <1>0, <1>1, <1>2
<1>4. Kept(s, q.filter)[k] = Kept(s, q.filter)[q.at]
  <2>1. Kept(s, q.filter)[k] = IF Fits(s[k], q.filter)
                               THEN Append(Kept(s, q.filter)[k - 1], s[k])
                               ELSE Kept(s, q.filter)[k - 1]
    BY <1>2, KeptSteps
  <2> QED
    BY <1>2, <1>3, <2>1
<1>5. /\ q2.pc = q.pc /\ q2.buf = q.buf /\ q2.n = q.n /\ q2.filter = q.filter
      /\ q2.at = k /\ q2.pos = q.pos /\ q2.count = q.count
  BY <1>1, <1>2 DEF Reader
<1>6. q2 \in Reader
  BY <1>1, <1>2, <1>3 DEF Reader
<1>7. Scanned(q2, s, rg[q2.buf])
  BY <1>1, <1>3, <1>4, <1>5 DEF Scanned
<1> QED
  BY <1>1, <1>5, <1>6, <1>7 DEF ReaderOk

\* The end of the file: the answer is exact.
LEMMA ScanEndsOk ==
  ASSUME NEW q, NEW src, NEW s \in Seq(Line), NEW rg, NEW free, NEW free2,
         ReaderOk(q, src, s, rg, free), q.pc = "scan", src = "file",
         NEW q2,
         q2 = [q EXCEPT !.pc = "reply", !.end = q.at,
                        !.lines = TrimLinesToBytes(Copied(q.n, q.pos, q.count, rg[q.buf]))]
  PROVE  ReaderOk(q2, src, s, rg, free2) /\ q2.pc = "reply"
<1> DEFINE kept == Kept(s, q.filter)[q.at]
<1>1. /\ q \in Reader /\ q.pos < LinesCap /\ q.at \in 0..Len(s)
      /\ RingHolds(kept, q.n, q.pos, q.count, rg[q.buf])
      /\ q.n \in 1..LinesCap
  BY ScanFacts
<1>2. kept \in Seq(Line)
  BY <1>1, KeptTypes
<1> HIDE DEF kept
<1>3. Copied(q.n, q.pos, q.count, rg[q.buf]) = LastOf(kept, q.n)
  BY <1>1, <1>2, RingGives
<1>4. q.n \in Nat /\ LastOf(kept, q.n) \in Seq(Line)
  <2>1. q.n \in Nat
    BY <1>1 DEF Reader
  <2> QED
    BY <1>2, <2>1, LastOfIs
<1>5. PICK lines \in Seq(Line \cup {Marker}) :
        /\ lines = TrimLinesToBytes(Copied(q.n, q.pos, q.count, rg[q.buf]))
        /\ lines = Fitted(LastOf(kept, q.n))
  BY <1>3, <1>4, TrimFits, TrimTypes
<1>6. /\ q2.pc = "reply" /\ q2.n = q.n /\ q2.filter = q.filter /\ q2.end = q.at
      /\ q2.lines = lines /\ q2.pos = q.pos
  BY <1>1, <1>5 DEF Reader
<1>7. q2 \in Reader
  BY <1>1, <1>5 DEF Reader
<1>8. Answered(q2, s)
  BY <1>1, <1>5, <1>6 DEF Answered, kept
<1> QED
  BY <1>1, <1>6, <1>7, <1>8 DEF ReaderOk

\* The tail of the journal: nothing has been read.
LEMMA OpenJournalIsOk ==
  ASSUME NEW q, NEW src, NEW s \in Seq(Line), NEW rg, NEW free,
         ReaderOk(q, src, s, rg, free), q.pc = "query", src = "journal",
         NEW q2, q2 = [Forgotten(q) EXCEPT !.pc = "scan", !.at = Len(s) + 1,
                                           !.end = Len(s)]
  PROVE  ReaderOk(q2, src, s, rg, free) /\ q2.pc = "scan"
<1>0. LinesCap \in Nat /\ Len(s) \in Nat /\ Len(s) \in 0..Len(s)
  BY LogTailAssumption
<1>1. q \in Reader /\ q.pos < LinesCap /\ Asked(q)
  BY DEF ReaderOk
<1>2. /\ q2.pc = "scan" /\ q2.n = q.n /\ q2.filter = q.filter /\ q2.at = Len(s) + 1
      /\ q2.pos = q.pos /\ q2.end = Len(s) /\ q2.lines = q.lines
  BY <1>1 DEF Reader, Forgotten
<1>3. q2 \in Reader
  <2>1. <<>> \in Seq({"a", "2", "3", "c"}) /\ <<>> \in Searches \cup {<<>>}
    OBVIOUS
  <2>2. PICK a \in Nat, e \in Nat : a = Len(s) + 1 /\ e = Len(s)
    BY <1>0
  <2>3. q2 = [Forgotten(q) EXCEPT !.pc = "scan", !.at = a, !.end = e]
    BY <2>2
  <2> QED
    BY <1>1, <2>1, <2>3 DEF Reader, Forgotten
<1>4. PICK all \in Seq(Line) : all = Kept(s, q.filter)[Len(s)]
  BY <1>0, KeptTypes
<1>5. PICK none \in Seq(Line) : none = <<>> /\ Len(none) = 0
  BY EmptySeq
<1>6. Reverse(none) = <<>>
  <2>1. Reverse(none) \in Seq(Line) /\ Len(Reverse(none)) = 0
    BY <1>5, ReverseIs
  <2> QED
    BY <2>1, EmptySeq
<1>7. all \o <<>> = all
  BY ConcatEmptySeq
<1>8. q2.lines = none /\ q2.n \in 1..LinesCap
  BY <1>1, <1>2, <1>5 DEF Asked
<1>9. q2.at - 1 = Len(s) /\ q2.at \in 1..(Len(s) + 1) /\ Len(none) <= q2.n
  BY <1>0, <1>2, <1>5, <1>8
<1>10. Walked(q2, s)
  BY <1>0, <1>2, <1>4, <1>5, <1>6, <1>7, <1>8, <1>9 DEF Walked
<1> QED
  BY <1>1, <1>2, <1>3, <1>10 DEF ReaderOk

\* An entry that is not to be kept is passed over, another one taken.
LEMMA PreviousIsOk ==
  ASSUME NEW q, NEW src, NEW s \in Seq(Line), NEW rg, NEW free,
         ReaderOk(q, src, s, rg, free), q.pc = "scan", src = "journal",
         Len(q.lines) < q.n, q.at > 1, NEW lines,
         lines = IF Fits(s[q.at - 1], q.filter) THEN Append(q.lines, s[q.at - 1])
                 ELSE q.lines,
         NEW q2, q2 = [q EXCEPT !.at = q.at - 1, !.lines = lines]
  PROVE  ReaderOk(q2, src, s, rg, free) /\ q2.pc = "scan"
<1>0. Len(s) \in Nat
  OBVIOUS
<1>1. q \in Reader /\ q.pos < LinesCap /\ Walked(q, s)
  BY DEF ReaderOk
<1>2. /\ q.end \in 0..Len(s) /\ q.at \in 1..(Len(s) + 1) /\ q.lines \in Seq(Line)
      /\ Kept(s, q.filter)[q.end] = Kept(s, q.filter)[q.at - 1] \o Reverse(q.lines)
      /\ q.n \in Nat
  BY <1>1 DEF Walked, Reader
<1>3. PICK k \in 1..Len(s) : k = q.at - 1
  BY <1>0, <1>2
<1>4. /\ k \in Nat /\ k \in 0..Len(s) /\ k - 1 \in 0..Len(s) /\ s[k] \in Line
      /\ k \in 1..(Len(s) + 1)
  BY <1>0, <1>3
<1>5. PICK before \in Seq(Line) : before = Kept(s, q.filter)[k - 1]
  BY <1>4, KeptTypes
<1>6. Kept(s, q.filter)[k] = IF Fits(s[k], q.filter) THEN Append(before, s[k]) ELSE before
  BY <1>3, <1>5, KeptSteps
<1>7. /\ lines \in Seq(Line) /\ Len(lines) <= q.n
      /\ Kept(s, q.filter)[q.end] = before \o Reverse(lines)
  <2>1. CASE Fits(s[k], q.filter)
    <3>1. lines = Append(q.lines, s[k])
      BY <1>3, <2>1
    <3>2. lines \in Seq(Line) /\ Len(lines) = Len(q.lines) + 1 /\ Len(q.lines) \in Nat
      BY <1>2, <1>4, <3>1, SMTT(30)
    <3>3. Append(before, s[k]) \o Reverse(q.lines) = before \o Reverse(Append(q.lines, s[k]))
      BY <1>2, <1>4, WalkTakes
    <3>4. Kept(s, q.filter)[k] = Append(before, s[k])
      BY <1>6, <2>1
    <3>5. Kept(s, q.filter)[q.end] = before \o Reverse(lines)
      BY <1>2, <1>3, <3>1, <3>3, <3>4
    <3>6. Len(lines) <= q.n
      BY <1>2, <3>2
    <3> QED
      BY <3>2, <3>5, <3>6
  <2>2. CASE ~Fits(s[k], q.filter)
    <3>1. lines = q.lines
      BY <1>3, <2>2
    <3>2. Len(q.lines) \in Nat
      BY <1>2
    <3> QED
      BY <1>2, <1>3, <1>6, <2>2, <3>1, <3>2
  <2> QED
    BY <2>1, <2>2
<1>8. /\ q2.pc = "scan" /\ q2.n = q.n /\ q2.filter = q.filter /\ q2.at = k
      /\ q2.pos = q.pos /\ q2.end = q.end /\ q2.lines = lines
  BY <1>1, <1>3 DEF Reader
<1>9. q2 \in Reader
  <2>1. lines \in Seq(Line \cup {Marker})
    BY <1>7, SeqMonotonic
  <2> QED
    BY <1>1, <1>3, <1>4, <2>1 DEF Reader
<1>10. Walked(q2, s)
  BY <1>2, <1>4, <1>5, <1>7, <1>8 DEF Walked
<1> QED
  BY <1>1, <1>8, <1>9, <1>10 DEF ReaderOk

\* The end of the walk: the answer is exact.
LEMMA JournalEndsOk ==
  ASSUME NEW q, NEW src, NEW s \in Seq(Line), NEW rg, NEW free,
         ReaderOk(q, src, s, rg, free), q.pc = "scan", src = "journal",
         Len(q.lines) = q.n \/ q.at = 1,
         NEW q2, q2 = [q EXCEPT !.pc = "reply", !.lines = TrimLinesToBytes(Reverse(q.lines))]
  PROVE  ReaderOk(q2, src, s, rg, free) /\ q2.pc = "reply"
<1>1. q \in Reader /\ q.pos < LinesCap /\ Walked(q, s)
  BY DEF ReaderOk
<1>2. /\ q.end \in 0..Len(s) /\ q.at \in 1..(Len(s) + 1) /\ q.lines \in Seq(Line)
      /\ Kept(s, q.filter)[q.end] = Kept(s, q.filter)[q.at - 1] \o Reverse(q.lines)
      /\ q.n \in Nat /\ Len(q.lines) <= q.n
  BY <1>1 DEF Walked, Reader
<1>3. PICK after \in Seq(Line) : after = Reverse(q.lines) /\ Len(after) = Len(q.lines)
  BY <1>2, ReverseIs
<1>4. q.at - 1 \in 0..Len(s)
  BY <1>2
<1>5. PICK before \in Seq(Line) : before = Kept(s, q.filter)[q.at - 1]
  BY <1>4, KeptTypes
<1>6. Len(after) = q.n \/ (before = <<>> /\ Len(after) <= q.n)
  <2>1. q.at = 1 => before = <<>>
    BY <1>5, KeptSteps
  <2> QED
    BY <1>2, <1>3, <2>1
<1>7. LastOf(Kept(s, q.filter)[q.end], q.n) = after
  <2>1. LastOf(before \o after, q.n) = after
    BY <1>2, <1>6, WalkGives
  <2> QED
    BY <1>2, <1>3, <1>5, <2>1
<1>8. PICK lines \in Seq(Line \cup {Marker}) :
        lines = TrimLinesToBytes(after) /\ lines = Fitted(after)
  BY TrimFits, TrimTypes
<1>9. /\ q2.pc = "reply" /\ q2.n = q.n /\ q2.filter = q.filter /\ q2.end = q.end
      /\ q2.lines = lines /\ q2.pos = q.pos
  BY <1>1, <1>3, <1>8 DEF Reader
<1>10. q2 \in Reader
  BY <1>1, <1>3, <1>8 DEF Reader
<1>11. Answered(q2, s)
  BY <1>2, <1>7, <1>8, <1>9 DEF Answered
<1> QED
  BY <1>1, <1>9, <1>10, <1>11 DEF ReaderOk

\* A step of one request, which leaves the rings of the others alone, keeps the
\* invariant.
LEMMA OneMoves ==
  ASSUME LogInv, NEW r \in Readers, NEW q,
         rd' = [rd EXCEPT ![r] = q], source' = source, log' = log,
         ring' \in [Buffers -> Ring], pool' \subseteq Buffers,
         ReaderOk(q, source, log, ring', pool'),
         \A t \in Readers \ {r} : Scans(t) =>
           /\ ring'[rd[t].buf] = ring[rd[t].buf]
           /\ rd[t].buf \notin pool'
           /\ source = "file" /\ q.pc = "scan" => rd[t].buf # q.buf
  PROVE  LogInv'
<1>1. rd' \in [Readers -> Reader] /\ rd'[r] = q /\ \A t \in Readers \ {r} : rd'[t] = rd[t]
  BY DEF LogInv, ReaderOk
<1>2. ASSUME NEW t \in Readers PROVE ReaderOk(rd'[t], source, log, ring', pool')
  <2>1. CASE t = r
    BY <1>1, <2>1
  <2>2. CASE t # r
    <3>1. PICK p : p = rd[t]
      OBVIOUS
    <3>2. PICK rg, rg2, free, free2, src, s :
            /\ rg = ring /\ rg2 = ring' /\ free = pool /\ free2 = pool'
            /\ src = source /\ s = log
      OBVIOUS
    <3>3. ReaderOk(p, src, s, rg, free)
      BY <3>1, <3>2 DEF LogInv
    <3>4. src = "file" /\ p.pc = "scan" => rg2[p.buf] = rg[p.buf] /\ p.buf \notin free2
      BY <2>2, <3>1, <3>2 DEF Scans
    <3>5. ReaderOk(p, src, s, rg2, free2)
      BY <3>3, <3>4, OthersAreOk
    <3> QED
      BY <1>1, <2>2, <3>1, <3>2, <3>5
  <2> QED
    BY <2>1, <2>2
<1>3. ASSUME NEW t \in Readers, NEW u \in Readers, Scans(t)', Scans(u)', t # u
      PROVE  rd'[t].buf # rd'[u].buf
  <2>1. CASE t = r
    BY <1>1, <1>3, <2>1 DEF Scans
  <2>2. CASE u = r
    BY <1>1, <1>3, <2>2 DEF Scans
  <2>3. CASE t # r /\ u # r
    BY <1>1, <1>3, <2>3 DEF Scans, LogInv
  <2> QED
    BY <2>1, <2>2, <2>3
<1> QED
  BY <1>1, <1>2, <1>3 DEF LogInv

\* What a step that touches neither rings nor pool has to show.
LEMMA QuietMove ==
  ASSUME LogInv, NEW r \in Readers, NEW q, rd' = [rd EXCEPT ![r] = q],
         UNCHANGED <<source, log, ring, pool>>,
         ReaderOk(q, source, log, ring, pool),
         source = "file" => q.pc # "scan"
  PROVE  LogInv'
<1>1. ring' \in [Buffers -> Ring] /\ pool' \subseteq Buffers
  BY DEF LogInv
<1>2. ReaderOk(q, source, log, ring', pool')
  OBVIOUS
<1>3. ASSUME NEW t \in Readers \ {r}, Scans(t)
      PROVE  /\ ring'[rd[t].buf] = ring[rd[t].buf]
             /\ rd[t].buf \notin pool'
             /\ source = "file" /\ q.pc = "scan" => rd[t].buf # q.buf
  <2>1. rd[t].buf \in Buffers \ pool
    BY <1>3 DEF LogInv, ReaderOk, Scans
  <2> QED
    BY <2>1
<1>4. source' = source /\ log' = log
  OBVIOUS
<1> QED
  BY <1>1, <1>2, <1>3, <1>4, OneMoves

\* In the beginning nothing is asked.
LEMMA InitLog == Init => LogInv
<1> SUFFICES ASSUME Init PROVE LogInv
  OBVIOUS
<1>1. PICK src, s, rg, free : src = source /\ s = log /\ rg = ring /\ free = pool
  OBVIOUS
<1>2. PICK q : q = Idle
  OBVIOUS
<1>3. ReaderOk(q, src, s, rg, free) /\ q.pc \in {"idle", "failed"}
  BY <1>2, RestIsOk
<1>4. \A r \in Readers : rd[r] = q
  BY <1>2 DEF Init
<1>5. q \in Reader
  BY <1>3 DEF ReaderOk
<1>6. rd \in [Readers -> Reader]
  <2>1. rd = [r \in Readers |-> q]
    BY <1>2 DEF Init
  <2> QED
    BY <1>5, <2>1
<1>7. \A r \in Readers : ReaderOk(rd[r], source, log, ring, pool)
  BY <1>1, <1>3, <1>4
<1>8. \A r \in Readers : ~Scans(r)
  BY <1>3, <1>4 DEF Scans
<1>9. log \in Seq(Line) /\ ring \in [Buffers -> Ring] /\ pool \subseteq Buffers
      /\ source \in {"file", "journal", "none"}
  BY DEF Init, Ring
<1> QED
  BY <1>6, <1>7, <1>8, <1>9 DEF LogInv

\* Another line is logged.
LEMMA LogLineKeeps ==
  ASSUME LogInv, NEW k \in Kinds, LogLine(k)
  PROVE  LogInv'
<1>1. PICK line : line = [no |-> Len(log) + 1, hit |-> k.hit, size |-> k.size, bad |-> k.bad]
  OBVIOUS
<1>2. line \in Line
  <2>1. k \in [hit : BOOLEAN, size : Nat, bad : BOOLEAN]
    BY LogTailAssumption
  <2>2. Len(log) + 1 \in Nat
    BY DEF LogInv
  <2> QED
    BY <1>1, <2>1, <2>2 DEF Line
<1>3. log' = Append(log, line) /\ UNCHANGED <<source, ring, pool, rd>>
  BY <1>1 DEF LogLine
<1>4. log' \in Seq(Line)
  BY <1>2, <1>3 DEF LogInv
<1>5. ASSUME NEW r \in Readers PROVE ReaderOk(rd[r], source, log', ring, pool)
  <2>1. PICK q, src, s, rg, free :
          q = rd[r] /\ src = source /\ s = log /\ rg = ring /\ free = pool
    OBVIOUS
  <2>2. ReaderOk(q, src, s, rg, free) /\ s \in Seq(Line)
    BY <2>1 DEF LogInv
  <2>3. ReaderOk(q, src, Append(s, line), rg, free)
    BY <1>2, <2>2, GrowIsOk
  <2> QED
    BY <1>3, <2>1, <2>3
<1> QED
  BY <1>3, <1>4, <1>5 DEF LogInv, Scans

\* Requests without their rings.
LEMMA QueryKeeps ==
  ASSUME LogInv, NEW r \in Readers, NEW p \in 0..(LinesCap + 1), NEW s \in Searches,
         Query(r, p, s)
  PROVE  LogInv'
<1>1. PICK src, lg, rg, free : src = source /\ lg = log /\ rg = ring /\ free = pool
  OBVIOUS
<1>2. PICK cut, n : cut = TruncateSearch(s) /\ n = MaxLines(p)
  OBVIOUS
<1>3. PICK filter \in BOOLEAN : filter = (cut # <<>>)
  OBVIOUS
<1>4. PICK q : q = Empty("query", s, cut, n, filter)
  OBVIOUS
<1>5. ReaderOk(q, src, lg, rg, free) /\ q.pc = "query"
  BY <1>2, <1>3, <1>4, QueryIsOk
<1>6. rd' = [rd EXCEPT ![r] = q]
  <2>1. PICK e : e = [Idle EXCEPT !.pc = "query", !.raw = s, !.search = cut, !.n = n,
                                  !.filter = filter]
    OBVIOUS
  <2>2. e = Empty("query", s, cut, n, filter)
    BY <2>1 DEF Empty, Idle
  <2> QED
    BY <1>2, <1>3, <1>4, <2>1, <2>2 DEF Query
<1>7. UNCHANGED <<source, log, ring, pool>>
  BY DEF Query
<1> QED
  BY <1>1, <1>5, <1>6, <1>7, QuietMove

\* A request that finds no log.
LEMMA QueryNoneKeeps ==
  ASSUME LogInv, NEW r \in Readers, QueryNone(r)
  PROVE  LogInv'
<1>1. PICK src, lg, rg, free : src = source /\ lg = log /\ rg = ring /\ free = pool
  OBVIOUS
<1>2. PICK q : q = Empty("reply", <<>>, <<>>, 0, FALSE)
  OBVIOUS
<1>3. lg \in Seq(Line)
  BY <1>1 DEF LogInv
<1>4. ReaderOk(q, src, lg, rg, free) /\ q.pc = "reply"
  BY <1>2, <1>3, NoneIsOk
<1>5. rd' = [rd EXCEPT ![r] = q]
  <2>1. PICK e : e = [Idle EXCEPT !.pc = "reply"]
    OBVIOUS
  <2>2. e = Empty("reply", <<>>, <<>>, 0, FALSE)
    BY <2>1 DEF Empty, Idle
  <2> QED
    BY <1>2, <2>1, <2>2 DEF QueryNone
<1>6. UNCHANGED <<source, log, ring, pool>>
  BY DEF QueryNone
<1> QED
  BY <1>1, <1>4, <1>5, <1>6, QuietMove

\* A request that fails or is over without a ring.
LEMMA RestKeeps ==
  ASSUME LogInv, NEW r \in Readers, OpenFails(r) \/ JournalFails(r) \/ Reply(r)
  PROVE  LogInv'
<1>1. PICK src, lg, rg, free : src = source /\ lg = log /\ rg = ring /\ free = pool
  OBVIOUS
<1>2. PICK q : (q = Idle \/ q = [Idle EXCEPT !.pc = "failed"]) /\ rd' = [rd EXCEPT ![r] = q]
  BY DEF OpenFails, JournalFails, Reply
<1>3. ReaderOk(q, src, lg, rg, free) /\ q.pc \in {"idle", "failed"}
  BY <1>2, RestIsOk
<1>4. UNCHANGED <<source, log, ring, pool>>
  BY DEF OpenFails, JournalFails, Reply
<1>5. q.pc # "scan"
  BY <1>3
<1> QED
  BY <1>1, <1>2, <1>3, <1>4, <1>5, QuietMove

\* The file is opened with a ring that no scan has.
LEMMA OpenFileKeeps ==
  ASSUME LogInv, NEW r \in Readers, OpenFile(r)
  PROVE  LogInv'
<1>1. PICK q, src, lg, rg, free, free2 :
        /\ q = rd[r] /\ src = source /\ lg = log /\ rg = ring /\ free = pool
        /\ free2 = pool'
  OBVIOUS
<1>2. PICK b \in pool : /\ pool' = pool \ {b}
                        /\ rd' = [rd EXCEPT ![r] = [Forgotten(rd[r]) EXCEPT !.pc = "scan",
                                                                           !.buf = b]]
  BY DEF OpenFile
<1>3. PICK q2 : q2 = Opened(q, b)
  OBVIOUS
<1>4. /\ b \in Buffers /\ b \notin free2 /\ q.pc = "query" /\ src = "file"
      /\ lg \in Seq(Line) /\ rg \in [Buffers -> Ring] /\ ReaderOk(q, src, lg, rg, free)
  BY <1>1, <1>2 DEF LogInv, OpenFile
<1>5. ReaderOk(q2, src, lg, rg, free2) /\ q2.pc = "scan" /\ q2.buf = b
  <2>1. q \in Reader /\ Asked(q)
    BY <1>4 DEF ReaderOk
  <2>2. ReaderOk(Opened(q, b), "file", lg, rg, free2) /\ Opened(q, b).pc = "scan"
        /\ Opened(q, b).buf = b
    BY <1>4, <2>1, OpenFileIsOk
  <2> QED
    BY <1>3, <1>4, <2>2
<1>6. rd' = [rd EXCEPT ![r] = q2]
  BY <1>1, <1>2, <1>3 DEF Opened
<1>7. ASSUME NEW t \in Readers \ {r}, Scans(t)
      PROVE  /\ ring'[rd[t].buf] = ring[rd[t].buf]
             /\ rd[t].buf \notin pool'
             /\ source = "file" /\ q2.pc = "scan" => rd[t].buf # q2.buf
  <2>1. rd[t].buf \notin pool
    BY <1>7 DEF LogInv, ReaderOk, Scans
  <2> QED
    BY <1>2, <1>5, <2>1 DEF OpenFile
<1>8. /\ ring' \in [Buffers -> Ring] /\ pool' \subseteq Buffers /\ source' = source
      /\ log' = log
  BY <1>2 DEF LogInv, OpenFile
<1>9. ReaderOk(q2, source, log, ring', pool')
  BY <1>1, <1>5 DEF OpenFile
<1> QED
  BY <1>6, <1>7, <1>8, <1>9, OneMoves

\* A line is scanned.
LEMMA ScanLineKeeps ==
  ASSUME LogInv, NEW r \in Readers, ScanLine(r)
  PROVE  LogInv'
<1>1. PICK q, src, lg, rg, free :
        q = rd[r] /\ src = source /\ lg = log /\ rg = ring /\ free = pool
  OBVIOUS
<1>2. /\ q.pc = "scan" /\ src = "file" /\ q.at < Len(lg) /\ ~lg[q.at + 1].bad
      /\ lg \in Seq(Line) /\ rg \in [Buffers -> Ring] /\ ReaderOk(q, src, lg, rg, free)
  BY <1>1 DEF LogInv, ScanLine
<1>3. UNCHANGED <<source, log, pool>> /\ pool' \subseteq Buffers
  BY DEF LogInv, ScanLine
<1>4. ASSUME NEW t \in Readers \ {r}, Scans(t)
      PROVE  rd[t].buf \notin pool /\ rd[t].buf # q.buf /\ rd[t].buf \in Buffers
  <2>1. Scans(r)
    BY <1>1, <1>2 DEF Scans
  <2> QED
    BY <1>1, <1>4, <2>1 DEF LogInv, ReaderOk, Scans
<1>5. Matches(r, lg[q.at + 1]) <=> Fits(lg[q.at + 1], q.filter)
  BY <1>1, <1>2 DEF Matches, Fits
<1>6. CASE Fits(lg[q.at + 1], q.filter)
  <2>1. PICK q2 : q2 = [q EXCEPT !.at = q.at + 1, !.pos = (q.pos + 1) % q.n,
                                 !.count = q.count + 1]
    OBVIOUS
  <2>2. PICK rg2 : rg2 = [rg EXCEPT ![q.buf][q.pos] = lg[q.at + 1]]
    OBVIOUS
  <2>3. ReaderOk(q2, src, lg, rg2, free) /\ q2.pc = q.pc /\ q2.buf = q.buf
    BY <1>2, <1>6, <2>1, <2>2, TakenIsOk, ZenonT(40)
  <2>4. rd' = [rd EXCEPT ![r] = q2] /\ ring' = rg2
    BY <1>1, <1>5, <1>6, <2>1, <2>2 DEF ScanLine, NextPos
  <2>5. /\ q.buf \in Buffers /\ q.pos \in 0..(LinesCap - 1) /\ lg[q.at + 1] \in Line
    <3>1. /\ q \in Reader /\ q.pos < LinesCap /\ q.at \in 0..Len(lg) /\ q.buf \in Buffers
          /\ q.pos \in 0..(q.n - 1)
      BY <1>2, ScanFacts
    <3>2. LinesCap \in Nat /\ Len(lg) \in Nat
      BY <1>2, LogTailAssumption
    <3> QED
      BY <1>2, <3>1, <3>2
  <2>6. rg2 \in [Buffers -> Ring]
    BY <1>2, <2>2, <2>5 DEF Ring
  <2>7. \A b \in Buffers : b # q.buf => rg2[b] = rg[b]
    BY <1>2, <2>2
  <2>8. ReaderOk(q2, source, log, ring', pool') /\ ring' \in [Buffers -> Ring]
    BY <1>1, <1>3, <2>3, <2>4, <2>6
  <2>9. ASSUME NEW t \in Readers \ {r}, Scans(t)
        PROVE  /\ ring'[rd[t].buf] = ring[rd[t].buf]
               /\ rd[t].buf \notin pool'
               /\ source = "file" /\ q2.pc = "scan" => rd[t].buf # q2.buf
    BY <1>1, <1>3, <1>4, <2>3, <2>4, <2>7, <2>9
  <2>10. rd' = [rd EXCEPT ![r] = q2] /\ source' = source /\ log' = log
    BY <1>3, <2>4
  <2> QED
    BY <1>3, <2>8, <2>9, <2>10, OneMoves
<1>7. CASE ~Fits(lg[q.at + 1], q.filter)
  <2>1. PICK q2 : q2 = [q EXCEPT !.at = q.at + 1]
    OBVIOUS
  <2>2. ReaderOk(q2, src, lg, rg, free) /\ q2.pc = q.pc /\ q2.buf = q.buf
    BY <1>2, <1>7, <2>1, SkippedIsOk
  <2>3. rd' = [rd EXCEPT ![r] = q2] /\ ring' = ring
    BY <1>1, <1>5, <1>7, <2>1 DEF ScanLine
  <2>4. ReaderOk(q2, source, log, ring', pool') /\ ring' \in [Buffers -> Ring]
    BY <1>1, <1>2, <1>3, <2>2, <2>3
  <2>5. ASSUME NEW t \in Readers \ {r}, Scans(t)
        PROVE  /\ ring'[rd[t].buf] = ring[rd[t].buf]
               /\ rd[t].buf \notin pool'
               /\ source = "file" /\ q2.pc = "scan" => rd[t].buf # q2.buf
    BY <1>3, <1>4, <2>2, <2>3, <2>5
  <2>6. rd' = [rd EXCEPT ![r] = q2] /\ source' = source /\ log' = log
    BY <1>3, <2>3
  <2> QED
    BY <1>3, <2>4, <2>5, <2>6, OneMoves
<1> QED
  BY <1>6, <1>7

\* A scan ends, well or not, and gives its ring back.
LEMMA ScanOverKeeps ==
  ASSUME LogInv, NEW r \in Readers, ScanEnds(r) \/ ScanFails(r)
  PROVE  LogInv'
<1>1. PICK q, src, lg, rg, free, free2 :
        /\ q = rd[r] /\ src = source /\ lg = log /\ rg = ring /\ free = pool
        /\ free2 = pool'
  OBVIOUS
<1>2. /\ q.pc = "scan" /\ src = "file"
      /\ lg \in Seq(Line) /\ rg \in [Buffers -> Ring] /\ ReaderOk(q, src, lg, rg, free)
  BY <1>1 DEF LogInv, ScanEnds, ScanFails
<1>3. UNCHANGED <<source, log, ring>> /\ pool' = pool \cup {q.buf}
  BY <1>1 DEF ScanEnds, ScanFails, PutBack
<1>4. q.buf \in Buffers /\ pool' \subseteq Buffers
  BY <1>2, <1>3, ScanFacts DEF LogInv
<1>5. ASSUME NEW t \in Readers \ {r}, Scans(t)
      PROVE  rd[t].buf \notin pool' /\ ring'[rd[t].buf] = ring[rd[t].buf]
  <2>1. Scans(r)
    BY <1>1, <1>2 DEF Scans
  <2>2. rd[t].buf \notin pool /\ rd[t].buf # q.buf
    BY <1>1, <1>5, <2>1 DEF LogInv, ReaderOk, Scans
  <2> QED
    BY <1>3, <2>2
<1>6. PICK q2 : /\ rd' = [rd EXCEPT ![r] = q2]
                /\ ReaderOk(q2, src, lg, rg, free2)
                /\ q2.pc # "scan"
  <2>1. CASE ScanEnds(r)
    <3>1. PICK q2 : q2 = [q EXCEPT !.pc = "reply", !.end = q.at,
                 !.lines = TrimLinesToBytes(Copied(q.n, q.pos, q.count, rg[q.buf]))]
      OBVIOUS
    <3>2. ReaderOk(q2, src, lg, rg, free2) /\ q2.pc = "reply"
      BY <1>2, <3>1, ScanEndsOk
    <3>3. CopyOut(r) = Copied(q.n, q.pos, q.count, rg[q.buf])
      BY <1>1 DEF CopyOut, Copied
    <3>4. rd' = [rd EXCEPT ![r] = q2]
      BY <1>1, <2>1, <3>1, <3>3 DEF ScanEnds
    <3> QED
      BY <3>2, <3>4
  <2>2. CASE ScanFails(r)
    <3>1. PICK q2 : q2 = [Idle EXCEPT !.pc = "failed"]
      OBVIOUS
    <3>2. ReaderOk(q2, src, lg, rg, free2) /\ q2.pc \in {"idle", "failed"}
      BY <3>1, RestIsOk
    <3>3. rd' = [rd EXCEPT ![r] = q2]
      BY <2>2, <3>1 DEF ScanFails
    <3> QED
      BY <3>2, <3>3
  <2> QED
    BY <2>1, <2>2
<1>7. ReaderOk(q2, source, log, ring', pool') /\ ring' \in [Buffers -> Ring]
  BY <1>1, <1>2, <1>3, <1>6
<1>8. ASSUME NEW t \in Readers \ {r}, Scans(t)
      PROVE  /\ ring'[rd[t].buf] = ring[rd[t].buf]
             /\ rd[t].buf \notin pool'
             /\ source = "file" /\ q2.pc = "scan" => rd[t].buf # q2.buf
  BY <1>5, <1>6, <1>8
<1>9. rd' = [rd EXCEPT ![r] = q2] /\ source' = source /\ log' = log
  BY <1>3, <1>6
<1> QED
  BY <1>4, <1>7, <1>8, <1>9, OneMoves

\* The journal is opened, read and left.
LEMMA JournalKeeps ==
  ASSUME LogInv, NEW r \in Readers, OpenJournal(r) \/ Previous(r) \/ JournalEnds(r)
  PROVE  LogInv'
<1>1. PICK q, src, lg, rg, free :
        q = rd[r] /\ src = source /\ lg = log /\ rg = ring /\ free = pool
  OBVIOUS
<1>2. /\ src = "journal" /\ lg \in Seq(Line) /\ ReaderOk(q, src, lg, rg, free)
      /\ UNCHANGED <<source, log, ring, pool>>
  BY <1>1 DEF LogInv, OpenJournal, Previous, JournalEnds
<1>3. PICK q2 : rd' = [rd EXCEPT ![r] = q2] /\ ReaderOk(q2, src, lg, rg, free)
  <2>1. CASE OpenJournal(r)
    <3>1. PICK q2 : q2 = [Forgotten(q) EXCEPT !.pc = "scan", !.at = Len(lg) + 1,
                                              !.end = Len(lg)]
      OBVIOUS
    <3>2. q.pc = "query"
      BY <1>1, <2>1 DEF OpenJournal
    <3>3. ReaderOk(q2, src, lg, rg, free)
      BY <1>2, <3>1, <3>2, OpenJournalIsOk
    <3>4. rd' = [rd EXCEPT ![r] = q2]
      BY <1>1, <2>1, <3>1 DEF OpenJournal
    <3> QED
      BY <3>3, <3>4
  <2>2. CASE Previous(r)
    <3>1. PICK lines : lines = IF Fits(lg[q.at - 1], q.filter)
                               THEN Append(q.lines, lg[q.at - 1]) ELSE q.lines
      OBVIOUS
    <3>2. PICK q2 : q2 = [q EXCEPT !.at = q.at - 1, !.lines = lines]
      OBVIOUS
    <3>3. q.pc = "scan" /\ Len(q.lines) < q.n /\ q.at > 1
      BY <1>1, <2>2 DEF Previous
    <3>4. ReaderOk(q2, src, lg, rg, free)
      BY <1>2, <3>1, <3>2, <3>3, PreviousIsOk
    <3>5. lines = IF lg[q.at - 1].bad \/ ~Matches(r, lg[q.at - 1]) THEN q.lines
                  ELSE Append(q.lines, lg[q.at - 1])
      BY <1>1, <3>1 DEF Fits, Matches
    <3>6. rd' = [rd EXCEPT ![r] = q2]
      BY <1>1, <2>2, <3>2, <3>5 DEF Previous
    <3> QED
      BY <3>4, <3>6
  <2>3. CASE JournalEnds(r)
    <3>1. PICK q2 : q2 = [q EXCEPT !.pc = "reply",
                                   !.lines = TrimLinesToBytes(Reverse(q.lines))]
      OBVIOUS
    <3>2. q.pc = "scan" /\ (Len(q.lines) = q.n \/ q.at = 1)
      BY <1>1, <2>3 DEF JournalEnds
    <3>3. ReaderOk(q2, src, lg, rg, free)
      BY <1>2, <3>1, <3>2, JournalEndsOk
    <3>4. rd' = [rd EXCEPT ![r] = q2]
      BY <1>1, <2>3, <3>1 DEF JournalEnds
    <3> QED
      BY <3>3, <3>4
  <2> QED
    BY <2>1, <2>2, <2>3
<1>4. source # "file" /\ ReaderOk(q2, source, log, ring, pool)
  BY <1>1, <1>2, <1>3
<1> QED
  BY <1>2, <1>3, <1>4, QuietMove

\* Every step keeps the invariant.
LEMMA NextLog == LogInv /\ [Next]_vars => LogInv'
<1> SUFFICES ASSUME LogInv, [Next]_vars PROVE LogInv'
  OBVIOUS
<1>1. CASE \E k \in Kinds : LogLine(k)
  BY <1>1, LogLineKeeps
<1>2. ASSUME NEW r \in Readers, \E p \in 0..(LinesCap + 1), s \in Searches : Query(r, p, s)
      PROVE  LogInv'
  BY <1>2, QueryKeeps
<1>3. ASSUME NEW r \in Readers, QueryNone(r) PROVE LogInv'
  BY <1>3, QueryNoneKeeps
<1>4. ASSUME NEW r \in Readers, OpenFile(r) PROVE LogInv'
  BY <1>4, OpenFileKeeps
<1>5. ASSUME NEW r \in Readers, ScanLine(r) PROVE LogInv'
  BY <1>5, ScanLineKeeps
<1>6. ASSUME NEW r \in Readers, ScanEnds(r) \/ ScanFails(r) PROVE LogInv'
  BY <1>6, ScanOverKeeps
<1>7. ASSUME NEW r \in Readers, OpenFails(r) \/ JournalFails(r) \/ Reply(r) PROVE LogInv'
  BY <1>7, RestKeeps
<1>8. ASSUME NEW r \in Readers, OpenJournal(r) \/ Previous(r) \/ JournalEnds(r) PROVE LogInv'
  BY <1>8, JournalKeeps
<1>9. CASE UNCHANGED vars
  BY <1>9 DEF LogInv, Scans, vars
<1> QED
  BY <1>1, <1>2, <1>3, <1>4, <1>5, <1>6, <1>7, <1>8, <1>9 DEF Next

-----------------------------------------------------------------------------
(* Theorems *)

\* Every scan has a ring of its own that holds the lines to be kept, and every
\* walk back has what is behind the entries not yet read.
THEOREM LogInvariant == Spec => []LogInv
<1>1. Init => LogInv
  BY InitLog
<1>2. LogInv /\ [Next]_vars => LogInv'
  BY NextLog
<1> QED
  BY <1>1, <1>2, PTL DEF Spec

\* Both readers (readLogFile with its pooled ring, readJournalLog with its walk
\* back) answer with the last lines that match, cut to what fits.
THEOREM TailsExact == Spec => []TailExact
<1>1. LogInv => TailExact
  <2> SUFFICES ASSUME LogInv PROVE TailExact
    OBVIOUS
  <2>1. TypeOK
    BY DEF LogInv, ReaderOk, TypeOK, Ring
  <2>2. ASSUME NEW r \in Readers, rd[r].pc = "reply"
        PROVE  Encoded(r) = Fitted(LastOf(Kept(log, rd[r].filter)[rd[r].end], rd[r].n))
    BY <2>2 DEF LogInv, ReaderOk, Answered, Encoded
  <2> QED
    BY <2>1, <2>2 DEF TailExact
<1> QED
  BY <1>1, LogInvariant, PTL

\* truncateSearch cuts a search string to the longest prefix that is UTF-8 and
\* fits.
THEOREM SearchesCut == Spec => []SearchCut
<1>1. LogInv => SearchCut
  <2> SUFFICES ASSUME LogInv, NEW r \in Readers, rd[r].pc = "query",
                      Len(rd[r].raw) > MaxSearch
               PROVE  rd[r].search
                        = SubSeq(rd[r].raw, 1,
                                 Max({k \in 0..MaxSearch : ValidString(SubSeq(rd[r].raw, 1, k))}))
    BY DEF SearchCut
  <2>1. rd[r].raw \in Searches /\ rd[r].search = TruncateSearch(rd[r].raw)
    BY DEF LogInv, ReaderOk, Asked
  <2>2. PICK s \in Seq(Bytes4) : s = rd[r].raw
    BY <2>1, LogTailAssumption DEF Bytes4
  <2>3. TruncateSearch(s)
          = SubSeq(s, 1, Max({k \in 0..MaxSearch : ValidString(SubSeq(s, 1, k))}))
    BY <2>2, TruncateIsMax
  <2> QED
    BY <2>1, <2>2, <2>3
<1> QED
  BY <1>1, LogInvariant, PTL

=============================================================================

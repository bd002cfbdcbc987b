--------------------------- MODULE BrowserProofs ---------------------------
(***************************************************************************)
(* Theorems about Browser, for every number of overlapping calls of        *)
(* initializePage, every list of outbounds and every statuses.             *)
(***************************************************************************)
EXTENDS Browser, SequenceTheorems, WellFoundedInduction, FiniteSetTheorems, TLAPS

-----------------------------------------------------------------------------
(* Numbers *)

\* A set of numbers that is not empty has a least one.
LEMMA LeastNumber ==
  ASSUME NEW T, T \subseteq Nat, T # {}
  PROVE  \E x \in T : \A y \in T : x <= y
<1> DEFINE R == OpToRel(<, Nat)
<1>1. IsWellFoundedOn(R, Nat)
  BY NatLessThanWellFounded
<1>2. \A x, y \in Nat : x < y => <<x, y>> \in R
  BY DEF OpToRel
<1> HIDE DEF R
<1>3. PICK x \in T : \A y \in T : ~(<<y, x>> \in R)
  BY <1>1, WFMin
<1>4. \A y \in T : ~(y < x)
  BY <1>2, <1>3
<1>5. \A a, b \in Nat : ~(a < b) => b <= a
  OBVIOUS
<1>6. \A y \in T : x <= y
  BY <1>3, <1>4, <1>5
<1> QED
  BY <1>3, <1>6

\* A set of numbers that has 0 and is closed under successor up to n has all
\* numbers up to n.
LEMMA InductionUpTo ==
  ASSUME NEW n \in Nat, NEW T, 0 \in T, \A k \in 1..n : k - 1 \in T => k \in T
  PROVE  \A k \in 0..n : k \in T
<1> DEFINE U == {k \in 0..n : k \notin T}
<1> SUFFICES ASSUME U # {} PROVE FALSE
  OBVIOUS
<1>0. U \subseteq Nat
  OBVIOUS
<1> HIDE DEF U
<1>1. PICK x \in U : \A y \in U : x <= y
  BY <1>0, LeastNumber
<1> USE DEF U
<1>2. x \in 1..n
  BY <1>1
<1>3. x - 1 \in T
  BY <1>1, <1>2
<1> QED
  BY <1>1, <1>2, <1>3

-----------------------------------------------------------------------------
(* The page's list of nodes *)

Steps(tags, g) ==
  \A k \in 0..Len(TagOrder) :
    g[k] = IF k = 0 THEN <<>>
           ELSE IF TagOrder[k] \in tags THEN Append(g[k - 1], TagOrder[k])
           ELSE g[k - 1]

Upto(tags) ==
  CHOOSE g : g = [k \in 0..Len(TagOrder) |->
                    IF k = 0 THEN <<>>
                    ELSE IF TagOrder[k] \in tags THEN Append(g[k - 1], TagOrder[k])
                    ELSE g[k - 1]]

\* The list is the last of its prefixes.
LEMMA OrderedIsUpto ==
  ASSUME NEW tags
  PROVE  Ordered(tags) = Upto(tags)[Len(TagOrder)]
BY DEF Ordered, Upto

\* The recursion that sorts the tags has a solution.
LEMMA StepsExist ==
  ASSUME NEW tags
  PROVE  \E g \in [0..Len(TagOrder) -> Seq(STRING)] : Steps(tags, g)
<1> DEFINE n == Len(TagOrder)
           Eq(g, k) == g[k] = IF k = 0 THEN <<>>
                              ELSE IF TagOrder[k] \in tags
                              THEN Append(g[k - 1], TagOrder[k]) ELSE g[k - 1]
           T == {k \in 0..n : \E g \in [0..n -> Seq(STRING)] : \A u \in 0..k : Eq(g, u)}
<1>0. n \in Nat /\ \A k \in 1..n : TagOrder[k] \in STRING
  BY BrowserAssumption, ElementOfSeq
<1> HIDE DEF n
<1>1. 0 \in T
  <2> DEFINE g == [u \in 0..n |-> <<>>]
  <2>1. g \in [0..n -> Seq(STRING)] /\ \A u \in 0..0 : Eq(g, u)
    BY <1>0
  <2>2. \E f \in [0..n -> Seq(STRING)] : \A u \in 0..0 : Eq(f, u)
    <3> HIDE DEF g, Eq
    <3> QED
      BY <2>1
  <2>3. 0 \in 0..n
    BY <1>0
  <2> QED
    BY <2>2, <2>3
<1>2. ASSUME NEW k \in 1..n, k - 1 \in T PROVE k \in T
  <2>1. PICK g \in [0..n -> Seq(STRING)] : \A u \in 0..(k - 1) : Eq(g, u)
    BY <1>2
  <2>2. k - 1 \in 0..n /\ k \in 0..n /\ k # 0
    BY <1>0
  <2>3. g[k - 1] \in Seq(STRING)
    BY <2>2
  <2>4. PICK e \in Seq(STRING) :
          e = IF TagOrder[k] \in tags THEN Append(g[k - 1], TagOrder[k]) ELSE g[k - 1]
    BY <2>3, <1>0, AppendProperties
  <2> DEFINE h == [u \in 0..n |-> IF u = k THEN e ELSE g[u]]
  <2>5. h \in [0..n -> Seq(STRING)]
    OBVIOUS
  <2>6. \A u \in 0..k : Eq(h, u)
    <3> SUFFICES ASSUME NEW u \in 0..k PROVE Eq(h, u)
      OBVIOUS
    <3>1. CASE u = k
      <4>1. h[k] = e /\ h[k - 1] = g[k - 1]
        BY <2>2
      <4> QED
        BY <4>1, <3>1, <2>2, <2>4
    <3>2. CASE u # k
      <4>1. u \in 0..(k - 1) /\ u \in 0..n /\ (u # 0 => u - 1 \in 0..n /\ u - 1 # k)
        BY <3>2, <1>0
      <4>2. h[u] = g[u] /\ (u # 0 => h[u - 1] = g[u - 1])
        BY <4>1, <3>2
      <4> QED
        BY <4>1, <4>2, <2>1
    <3> QED
      BY <3>1, <3>2
  <2> QED
    BY <2>2, <2>5, <2>6
<1> HIDE DEF T
<1>3. n \in T
  BY <1>0, <1>1, <1>2, InductionUpTo
<1> QED
  BY <1>3 DEF T, Steps, n

\* So the prefixes satisfy their recursive equation.
LEMMA UptoSteps ==
  ASSUME NEW tags
  PROVE  Steps(tags, Upto(tags))
<1>1. PICK g \in [0..Len(TagOrder) -> Seq(STRING)] : Steps(tags, g)
  BY StepsExist
<1>2. g = [k \in 0..Len(TagOrder) |->
             IF k = 0 THEN <<>>
             ELSE IF TagOrder[k] \in tags THEN Append(g[k - 1], TagOrder[k])
             ELSE g[k - 1]]
  BY <1>1 DEF Steps
<1>3. PICK f : f = Upto(tags)
  OBVIOUS
<1>4. f = [k \in 0..Len(TagOrder) |->
             IF k = 0 THEN <<>>
             ELSE IF TagOrder[k] \in tags THEN Append(f[k - 1], TagOrder[k])
             ELSE f[k - 1]]
  BY <1>2, <1>3 DEF Upto
<1>5. Steps(tags, f)
  BY <1>4 DEF Steps
<1> QED
  BY <1>3, <1>5

\* The page lists exactly the tags it was given that have a place in the order.
LEMMA OrderedFacts ==
  ASSUME NEW tags
  PROVE  /\ Ordered(tags) \in Seq(STRING)
         /\ ToSet(Ordered(tags)) = tags \cap ToSet(TagOrder)
<1>0. Len(TagOrder) \in Nat /\ \A k \in 1..Len(TagOrder) : TagOrder[k] \in STRING
  BY BrowserAssumption, ElementOfSeq
<1>1. PICK n \in Nat : n = Len(TagOrder)
  BY <1>0
<1>2. PICK g : g = Upto(tags)
  OBVIOUS
<1>3. \A k \in 0..n : g[k] = IF k = 0 THEN <<>>
           ELSE IF TagOrder[k] \in tags THEN Append(g[k - 1], TagOrder[k])
           ELSE g[k - 1]
  BY <1>1, <1>2, UptoSteps DEF Steps
<1> DEFINE First(k) == {TagOrder[j] : j \in 1..k}
           T == {k \in 0..n : /\ g[k] \in Seq(STRING)
                              /\ {g[k][j] : j \in 1..Len(g[k])} = tags \cap First(k)}
<1>4. 0 \in T
  <2>1. g[0] = <<>>
    BY <1>3, <1>1
  <2>2. Len(<<>>) = 0 /\ 1..0 = {}
    OBVIOUS
  <2>3. {g[0][j] : j \in 1..Len(g[0])} = {} /\ First(0) = {}
    BY <2>1, <2>2
  <2>4. g[0] \in Seq(STRING)
    BY <2>1
  <2>5. 0 \in 0..n
    BY <1>1
  <2> HIDE DEF First
  <2> QED
    BY <2>3, <2>4, <2>5
<1>5. ASSUME NEW k \in 1..n, k - 1 \in T PROVE k \in T
  <2>1. k \in 0..n /\ k # 0
    BY <1>1
  <2>2. First(k) = First(k - 1) \cup {TagOrder[k]}
    <3>1. \A j \in 1..k : j = k \/ j \in 1..(k - 1)
      BY <1>1
    <3>2. \A j \in 1..(k - 1) : j \in 1..k
      BY <1>1
    <3>3. k \in 1..k
      BY <1>1
    <3> QED
      BY <3>1, <3>2, <3>3
  <2>3. PICK s \in Seq(STRING) : s = g[k - 1]
    BY <1>5
  <2>4. {s[j] : j \in 1..Len(s)} = tags \cap First(k - 1)
    BY <1>5, <2>3
  <2>5. TagOrder[k] \in STRING
    BY <1>0, <1>1
  <2> HIDE DEF First
  <2>6. CASE TagOrder[k] \notin tags
    <3>1. g[k] = s
      BY <2>1, <2>3, <2>6, <1>3
    <3>2. tags \cap First(k) = tags \cap First(k - 1)
      BY <2>2, <2>6
    <3> QED
      BY <3>1, <3>2, <2>1, <2>4
  <2>7. CASE TagOrder[k] \in tags
    <3>1. g[k] = Append(s, TagOrder[k])
      BY <2>1, <2>3, <2>7, <1>3
    <3>2. PICK m \in Nat : m = Len(s)
      BY <2>3
    <3>3. PICK t \in Seq(STRING) : t = g[k] /\ Len(t) = m + 1
                                   /\ (\A j \in 1..m : t[j] = s[j])
                                   /\ t[m + 1] = TagOrder[k]
      <4>1. /\ Append(s, TagOrder[k]) \in Seq(STRING)
            /\ Len(Append(s, TagOrder[k])) = m + 1
            /\ \A j \in 1..m : Append(s, TagOrder[k])[j] = s[j]
            /\ Append(s, TagOrder[k])[m + 1] = TagOrder[k]
        BY <3>2, <2>3, <2>5, AppendProperties
      <4> QED
        BY <3>1, <4>1
    <3>4. {t[j] : j \in 1..Len(t)} = {s[j] : j \in 1..Len(s)} \cup {TagOrder[k]}
      <4>1. \A j \in 1..(m + 1) : j = m + 1 \/ j \in 1..m
        BY <3>2
      <4>2. \A j \in 1..m : j \in 1..(m + 1)
        BY <3>2
      <4>3. m + 1 \in 1..(m + 1)
        BY <3>2
      <4> QED
        BY <4>1, <4>2, <4>3, <3>2, <3>3
    <3>5. tags \cap First(k) = (tags \cap First(k - 1)) \cup {TagOrder[k]}
      BY <2>2, <2>7
    <3> QED
      BY <3>3, <3>4, <3>5, <2>1, <2>4, ZenonT(40)
  <2> QED
    BY <2>6, <2>7
<1> HIDE DEF T
<1>6. n \in T
  <2>1. \A k \in 0..n : k \in T
    BY <1>1, <1>4, <1>5, InductionUpTo
  <2> QED
    BY <1>1, <2>1
<1>7. g[n] = Ordered(tags)
  BY <1>1, <1>2, OrderedIsUpto
<1>8. DOMAIN TagOrder = 1..n
  BY <1>1, BrowserAssumption, LenProperties
<1>9. g[n] \in Seq(STRING) /\ {g[n][j] : j \in 1..Len(g[n])} = tags \cap First(n)
  BY <1>6 DEF T
<1>10. DOMAIN g[n] = 1..Len(g[n])
  BY <1>9, LenProperties
<1> QED
  BY <1>7, <1>8, <1>9, <1>10 DEF ToSet

-----------------------------------------------------------------------------
(* The best node *)

\* The least of some numbers is one of them.
LEMMA MinFacts ==
  ASSUME NEW T, T \subseteq Nat, T # {}
  PROVE  Min(T) \in T
<1>1. \E x \in T : \A y \in T : x =< y
  BY LeastNumber
<1> QED
  BY <1>1 DEF Min

\* What a set of places with an index of 0 for none means.
LEMMA FirstPlace ==
  ASSUME NEW n \in Nat, NEW I, I \subseteq 1..n
  PROVE  /\ (IF I # {} THEN Min(I) ELSE 0) \in I \cup {0}
         /\ (IF I # {} THEN Min(I) ELSE 0) = 0 <=> I = {}
<1>1. I \subseteq Nat /\ 0 \notin I
  OBVIOUS
<1>2. I # {} => Min(I) \in I
  BY <1>1, MinFacts
<1> QED
  BY <1>1, <1>2

Least(s, kept, j) == s[j] \in kept /\ \A other \in kept : s[j].delay <= other.delay

\* FirstLeast finds one that is kept and least, if there is one.
LEMMA FirstLeastFacts ==
  ASSUME NEW s \in Seq(OutboundStatus), NEW kept
  PROVE  /\ FirstLeast(s, kept) \in 0..Len(s)
         /\ FirstLeast(s, kept) # 0 => Least(s, kept, FirstLeast(s, kept))
         /\ FirstLeast(s, kept) = 0 => \A j \in 1..Len(s) : ~Least(s, kept, j)
<1>0. Len(s) \in Nat
  OBVIOUS
<1> DEFINE I == {j \in 1..Len(s) : Least(s, kept, j)}
           i == IF I # {} THEN Min(I) ELSE 0
<1>1. FirstLeast(s, kept) = i
  BY DEF FirstLeast, SelectInSeq, Least
<1>2. I \subseteq 1..Len(s)
  OBVIOUS
<1>3. i \in I \cup {0} /\ (i = 0 <=> I = {})
  <2> HIDE DEF I
  <2> QED
    BY <1>0, <1>2, FirstPlace
<1> HIDE DEF i
<1>4. i \in 0..Len(s)
  BY <1>0, <1>3
<1>5. i # 0 => Least(s, kept, i)
  BY <1>3
<1>6. i = 0 => \A j \in 1..Len(s) : ~Least(s, kept, j)
  BY <1>3
<1> QED
  BY <1>1, <1>4, <1>5, <1>6

\* Some statuses have a least delay.
LEMMA LeastExists ==
  ASSUME NEW s \in Seq(OutboundStatus), NEW kept, kept \subseteq ToSet(s), kept # {}
  PROVE  \E j \in 1..Len(s) : Least(s, kept, j)
<1>0. DOMAIN s = 1..Len(s) /\ \A j \in 1..Len(s) : s[j] \in OutboundStatus
  BY LenProperties, ElementOfSeq
<1>1. \A st \in kept : st.delay \in Nat /\ \E j \in 1..Len(s) : st = s[j]
  BY <1>0 DEF ToSet, OutboundStatus
<1>2. PICK D : D = {st.delay : st \in kept}
  OBVIOUS
<1>3. D \subseteq Nat /\ D # {}
  BY <1>1, <1>2
<1>4. PICK d \in D : \A e \in D : d <= e
  BY <1>3, LeastNumber
<1>5. PICK st \in kept : st.delay = d
  BY <1>2, <1>4
<1>6. PICK j \in 1..Len(s) : st = s[j]
  BY <1>1
<1> QED
  BY <1>2, <1>4, <1>5, <1>6 DEF Least

\* The server answers with the tag of a status, or with none.
LEMMA BestIsATag ==
  ASSUME NEW s \in Seq(OutboundStatus), NEW excluded
  PROVE  FindBestAvailableNode(s, excluded) \in {""} \cup {st.tag : st \in ToSet(s)}
<1> DEFINE Tags == {st.tag : st \in ToSet(s)}
<1>0. Len(s) \in Nat /\ \A j \in 1..Len(s) : s[j].tag \in Tags
  <2>1. DOMAIN s = 1..Len(s)
    BY LenProperties
  <2> QED
    BY <2>1 DEF ToSet
<1>1. PICK usable : usable = Usable(s, excluded)
  OBVIOUS
<1>2. PICK kept : kept = {st \in usable : st.delay > 0}
  OBVIOUS
<1>3. PICK best : best = FirstLeast(s, kept)
  OBVIOUS
<1>4. best \in 0..Len(s)
  BY <1>3, FirstLeastFacts
<1> DEFINE I == {j \in 1..Len(s) : s[j] \in usable}
           i == IF I # {} THEN Min(I) ELSE 0
<1>5. SelectInSeq(s, LAMBDA st : st \in usable) = i
  BY DEF SelectInSeq
<1>6. I \subseteq 1..Len(s)
  OBVIOUS
<1>7. i \in I \cup {0}
  <2> HIDE DEF I
  <2> QED
    BY <1>0, <1>6, FirstPlace
<1> HIDE DEF i
<1>8. i \in 0..Len(s)
  BY <1>0, <1>7
<1>9. FindBestAvailableNode(s, excluded) = IF best # 0 THEN s[best].tag ELSE TagAt(s, i)
  BY <1>1, <1>2, <1>3, <1>5 DEF FindBestAvailableNode
<1>10. \A k \in 0..Len(s) : k # 0 => k \in 1..Len(s)
  BY <1>0
<1> HIDE DEF Tags
<1>11. best # 0 => s[best].tag \in Tags
  BY <1>0, <1>4, <1>10
<1>12. TagAt(s, i) \in {""} \cup Tags
  BY <1>0, <1>8, <1>10 DEF TagAt
<1>13. FindBestAvailableNode(s, excluded) \in {""} \cup Tags
  BY <1>9, <1>11, <1>12
<1> QED
  BY <1>13 DEF Tags

\* Delays are ordered.
LEMMA Antisymmetric == \A x, y \in Nat : x <= y /\ y <= x => x = y
OBVIOUS

\* The server and the page agree on the best node when they choose among the
\* same statuses and no two of them are equally good.
LEMMA SameBest ==
  ASSUME NEW s \in Seq(OutboundStatus), NEW t \in Seq(OutboundStatus), NEW excluded,
         NEW K, K = {st \in Usable(s, excluded) : st.delay > 0},
         K = {st \in ToSet(t) : st.alive /\ st.delay > 0},
         \A a, b \in K : a.delay = b.delay => a = b,
         FindBestNode(t) # ""
  PROVE  FindBestAvailableNode(s, excluded) = FindBestNode(t)
<1>1. PICK i : i = FirstLeast(t, K)
  OBVIOUS
<1>2. FindBestNode(t) = TagAt(t, i)
  BY <1>1 DEF FindBestNode
<1>3. i # 0
  BY <1>2 DEF TagAt
<1>4. Least(t, K, i) /\ FindBestNode(t) = t[i].tag
  BY <1>1, <1>2, <1>3, FirstLeastFacts DEF TagAt
<1>5. K \subseteq ToSet(s) /\ K # {}
  BY <1>4 DEF Usable, Least
<1>6. PICK j : j = FirstLeast(s, K)
  OBVIOUS
<1>7. j # 0 /\ Least(s, K, j)
  BY <1>5, <1>6, FirstLeastFacts, LeastExists
<1>8. FindBestAvailableNode(s, excluded) = s[j].tag
  BY <1>6, <1>7 DEF FindBestAvailableNode
<1>9. \A st \in K : st.delay \in Nat
  <2>1. \A st \in ToSet(s) : st \in OutboundStatus
    <3>1. DOMAIN s = 1..Len(s) /\ \A n \in 1..Len(s) : s[n] \in OutboundStatus
      BY LenProperties, ElementOfSeq
    <3> QED
      BY <3>1 DEF ToSet
  <2> QED
    BY <1>5, <2>1 DEF OutboundStatus
<1>10. s[j].delay = t[i].delay
  <2>1. s[j] \in K /\ t[i] \in K
    BY <1>4, <1>7 DEF Least
  <2>2. PICK a \in Nat, b \in Nat : a = s[j].delay /\ b = t[i].delay
    BY <2>1, <1>9
  <2>3. a <= b /\ b <= a
    BY <2>1, <2>2, <1>4, <1>7 DEF Least
  <2>4. a = b
    BY <2>3, Antisymmetric
  <2> QED
    BY <2>2, <2>4
<1>11. s[j] = t[i]
  BY <1>4, <1>7, <1>10 DEF Least
<1> QED
  BY <1>4, <1>8, <1>11

\* The statuses the page gives to its nodes: those that are alive are the
\* reported ones of the nodes of the list.
LEMMA OfNodesFacts ==
  ASSUME NEW list \in Seq(STRING), NEW reported \in Seq(OutboundStatus),
         \A a, b \in ToSet(reported) : a.tag = b.tag => a = b
  PROVE  /\ OfNodes(list, reported) \in Seq(OutboundStatus)
         /\ {st \in ToSet(OfNodes(list, reported)) : st.alive /\ st.delay > 0}
              = {st \in ToSet(reported) : st.alive /\ st.delay > 0 /\ st.tag \in ToSet(list)}
<1>0. /\ Len(list) \in Nat /\ DOMAIN list = 1..Len(list)
      /\ \A i \in 1..Len(list) : list[i] \in STRING
      /\ Len(reported) \in Nat /\ DOMAIN reported = 1..Len(reported)
      /\ \A j \in 1..Len(reported) : reported[j] \in OutboundStatus
  BY LenProperties, ElementOfSeq
<1> DEFINE I(i) == {j \in 1..Len(reported) : reported[j].tag = list[i]}
           k(i) == IF I(i) # {} THEN Min(I(i)) ELSE 0
           e(i) == IF k(i) = 0 THEN [tag |-> list[i], alive |-> FALSE, delay |-> 0]
                   ELSE reported[k(i)]
<1>1. OfNodes(list, reported) = [i \in 1..Len(list) |-> e(i)]
  BY DEF OfNodes, SelectInSeq
<1>2. ASSUME NEW i \in 1..Len(list)
      PROVE  /\ k(i) \in I(i) \cup {0}
             /\ k(i) = 0 <=> I(i) = {}
  <2>1. I(i) \subseteq 1..Len(reported)
    OBVIOUS
  <2>2. PICK J : J = I(i)
    OBVIOUS
  <2>3. k(i) = IF J # {} THEN Min(J) ELSE 0
    BY <2>2
  <2> HIDE DEF I, k
  <2> QED
    BY <1>0, <2>1, <2>2, <2>3, FirstPlace
<1> HIDE DEF k
<1>3. ASSUME NEW i \in 1..Len(list)
      PROVE  /\ e(i) \in OutboundStatus
             /\ e(i).alive => e(i) \in ToSet(reported) /\ e(i).tag = list[i]
             /\ \A st \in ToSet(reported) : st.tag = list[i] => e(i) = st
  <2>1. CASE k(i) = 0
    <3>1. e(i) = [tag |-> list[i], alive |-> FALSE, delay |-> 0]
      BY <2>1
    <3>2. I(i) = {}
      BY <2>1, <1>2
    <3>3. \A st \in ToSet(reported) : st.tag # list[i]
      BY <3>2, <1>0 DEF ToSet
    <3> HIDE DEF e
    <3>4. e(i) \in OutboundStatus
      BY <3>1, <1>0 DEF OutboundStatus
    <3>5. ~e(i).alive
      BY <3>1
    <3> QED
      BY <3>3, <3>4, <3>5
  <2>2. CASE k(i) # 0
    <3>1. k(i) \in 1..Len(reported) /\ reported[k(i)].tag = list[i]
      BY <2>2, <1>2
    <3>2. e(i) = reported[k(i)]
      BY <2>2
    <3> HIDE DEF e
    <3>3. e(i) \in ToSet(reported) /\ e(i) \in OutboundStatus /\ e(i).tag = list[i]
      BY <3>1, <3>2, <1>0 DEF ToSet
    <3> QED
      BY <3>3
  <2> QED
    BY <2>1, <2>2
<1> HIDE DEF e, I
<1>4. PICK f : f = [i \in 1..Len(list) |-> e(i)]
  OBVIOUS
<1>5. f \in [1..Len(list) -> OutboundStatus]
  BY <1>3, <1>4
<1>6. f \in Seq(OutboundStatus) /\ DOMAIN f = 1..Len(list)
  BY <1>0, <1>5
<1>7. \A st : st \in ToSet(f) <=> \E i \in 1..Len(list) : st = e(i)
  BY <1>4, <1>6 DEF ToSet
<1>8. ASSUME NEW st, st \in ToSet(f), st.alive
      PROVE  st \in ToSet(reported) /\ st.tag \in ToSet(list)
  <2>1. PICK i \in 1..Len(list) : st = e(i)
    BY <1>7, <1>8
  <2>2. st \in ToSet(reported) /\ st.tag = list[i]
    BY <2>1, <1>3, <1>8
  <2> QED
    BY <2>2, <1>0 DEF ToSet
<1>9. ASSUME NEW st \in ToSet(reported), st.tag \in ToSet(list)
      PROVE  st \in ToSet(f)
  <2>1. PICK i \in 1..Len(list) : st.tag = list[i]
    BY <1>9, <1>0 DEF ToSet
  <2> QED
    BY <2>1, <1>3, <1>7
<1> QED
  BY <1>1, <1>4, <1>6, <1>8, <1>9

\* No statuses at all are statuses too.
LEMMA EmptyStatuses == <<>> \in Seq(OutboundStatus) /\ ToSet(<<>>) = {}
<1>1. <<>> \in Seq(OutboundStatus) /\ Len(<<>>) = 0
  BY EmptySeq
<1>2. PICK z \in Seq(OutboundStatus) : z = <<>>
  BY <1>1
<1>3. DOMAIN z = 1..Len(z)
  BY LenProperties
<1>4. Len(z) = 0 /\ 1..0 = {}
  BY <1>1, <1>2
<1>5. ToSet(z) = {}
  BY <1>3, <1>4 DEF ToSet
<1> QED
  BY <1>1, <1>2, <1>5

\* What the server reports: one status for each tag the observatory knows.
LEMMA StatusesReported ==
  ASSUME NEW now \in [ToSet(Observed) -> Statuses], NEW reported,
         reported = [i \in 1..Len(Observed) |->
                       [tag |-> Observed[i], alive |-> now[Observed[i]].alive,
                        delay |-> now[Observed[i]].delay]]
  PROVE  /\ reported \in Seq(OutboundStatus)
         /\ \A a, b \in ToSet(reported) : a.tag = b.tag => a = b
         /\ \A st \in ToSet(reported) : st.tag \in ToSet(Observed)
<1>0. /\ Len(Observed) \in Nat /\ DOMAIN Observed = 1..Len(Observed)
      /\ \A i \in 1..Len(Observed) : Observed[i] \in STRING
  BY BrowserAssumption, LenProperties, ElementOfSeq
<1>1. \A st \in Statuses : st.alive \in BOOLEAN /\ st.delay \in Nat
  BY DEF Statuses
<1> DEFINE e(i) == [tag |-> Observed[i], alive |-> now[Observed[i]].alive,
                    delay |-> now[Observed[i]].delay]
<1>2. ASSUME NEW i \in 1..Len(Observed)
      PROVE  /\ e(i) \in OutboundStatus
             /\ e(i).tag = Observed[i] /\ Observed[i] \in ToSet(Observed)
  <2>1. Observed[i] \in ToSet(Observed)
    BY <1>0 DEF ToSet
  <2>2. PICK a \in BOOLEAN, d \in Nat :
          a = now[Observed[i]].alive /\ d = now[Observed[i]].delay
    BY <2>1, <1>1
  <2>3. e(i) = [tag |-> Observed[i], alive |-> a, delay |-> d]
    BY <2>2
  <2> HIDE DEF e
  <2>4. e(i) \in OutboundStatus
    BY <2>3, <1>0 DEF OutboundStatus
  <2> QED
    BY <2>1, <2>3, <2>4
<1>3. \A i, j \in 1..Len(Observed) : Observed[i] = Observed[j] => e(i) = e(j)
  OBVIOUS
<1>4. reported = [i \in 1..Len(Observed) |-> e(i)]
  OBVIOUS
<1> HIDE DEF e
<1>5. PICK f : f = [i \in 1..Len(Observed) |-> e(i)]
  OBVIOUS
<1>6. f \in [1..Len(Observed) -> OutboundStatus]
  BY <1>2, <1>5
<1>7. f \in Seq(OutboundStatus) /\ DOMAIN f = 1..Len(Observed)
  BY <1>0, <1>6
<1>8. \A st \in ToSet(f) : \E i \in 1..Len(Observed) : st = e(i)
  BY <1>5, <1>7 DEF ToSet
<1>9. ASSUME NEW a \in ToSet(f), NEW b \in ToSet(f), a.tag = b.tag
      PROVE  a = b
  <2>1. PICK i \in 1..Len(Observed), j \in 1..Len(Observed) : a = e(i) /\ b = e(j)
    BY <1>8
  <2>2. Observed[i] = Observed[j]
    BY <2>1, <1>2, <1>9
  <2> QED
    BY <2>1, <2>2, <1>3
<1>10. \A st \in ToSet(f) : st.tag \in ToSet(Observed)
  BY <1>2, <1>8
<1>11. f = reported
  BY <1>4, <1>5
<1> QED
  BY <1>7, <1>9, <1>10, <1>11

\* What the observatory has found, and so its bounds.
LEMMA FoundFacts ==
  ASSUME TypeOK
  PROVE  /\ found \in Seq([ToSet(Observed) -> Statuses])
         /\ Len(found) \in Nat /\ Len(found) > 0
         /\ \A n \in 1..Len(found) : found[n] \in [ToSet(Observed) -> Statuses]
<1>1. found \in Seq([ToSet(Observed) -> Statuses])
  BY DEF TypeOK
<1>2. Len(found) \in Nat /\ Len(found) > 0
  BY BrowserAssumption DEF TypeOK
<1> QED
  BY <1>1, <1>2, ElementOfSeq

\* The places of what has been found, with 0 for no data, are numbers.
LEMMA Places ==
  ASSUME TypeOK
  PROVE  Len(found) \in Nat /\ \A n \in 0..Len(found) : n \in Nat /\ n <= Len(found)
<1>1. PICK k \in Nat : k = Len(found)
  BY FoundFacts
<1>2. \A n \in 0..k : n \in Nat /\ n <= k
  BY <1>1
<1> QED
  BY <1>1, <1>2

\* What the server reports, at any time, and without data.
LEMMA ReportedFacts ==
  ASSUME TypeOK, NEW n \in 0..Len(found)
  PROVE  /\ Reported(n) \in Seq(OutboundStatus)
         /\ \A a, b \in ToSet(Reported(n)) : a.tag = b.tag => a = b
         /\ \A st \in ToSet(Reported(n)) : st.tag \in ToSet(Observed)
<1>1. CASE n = 0
  <2>1. Reported(n) = <<>>
    BY <1>1 DEF Reported
  <2> QED
    BY <2>1, EmptyStatuses
<1>2. CASE n # 0
  <2>1. found[n] \in [ToSet(Observed) -> Statuses]
    BY <1>2, FoundFacts
  <2>2. Reported(n) = [i \in 1..Len(Observed) |->
                         [tag |-> Observed[i], alive |-> found[n][Observed[i]].alive,
                          delay |-> found[n][Observed[i]].delay]]
    BY <1>2 DEF Reported
  <2> QED
    BY <2>1, <2>2, StatusesReported
<1> QED
  BY <1>1, <1>2

\* Of the outbounds the observatory knows, the listed ones are those that are not
\* excluded.
LEMMA ListedOrExcluded ==
  ASSUME NEW t \in ToSet(Observed)
  PROVE  t \in Listed(XrayOutbounds) <=> t \notin ExcludedTags(XrayOutbounds)
<1>1. PICK o \in ToSet(XrayOutbounds) : o.tag = t
  BY XrayAssumption
<1>2. t # ""
  BY XrayAssumption
<1>3. \A p \in ToSet(XrayOutbounds) : p.tag = t => p = o
  BY <1>1, <1>2, XrayAssumption
<1>4. t \in Listed(XrayOutbounds) <=> IsValidOutbound(o)
  BY <1>1, <1>2, <1>3 DEF Listed
<1>5. t \in ExcludedTags(XrayOutbounds) <=> ~IsValidOutbound(o)
  BY <1>1, <1>3 DEF ExcludedTags
<1> QED
  BY <1>4, <1>5

\* Whoever asks for the best node of the list, the page or the server, gets the
\* same answer from the same statuses, unless two nodes are equally good.
LEMMA Agreement ==
  ASSUME TypeOK, NEW n \in 0..Len(found),
         NEW list, list = Ordered(Listed(XrayOutbounds)), Clear(list, n),
         FindBestNode(OfNodes(list, Reported(n))) # ""
  PROVE  FindBestNode(OfNodes(list, Reported(n)))
           = FindBestAvailableNode(Reported(n), ExcludedTags(XrayOutbounds))
<1>1. list \in Seq(STRING) /\ ToSet(list) = Listed(XrayOutbounds)
  BY OrderedFacts, XrayAssumption
<1>2. PICK R \in Seq(OutboundStatus) : R = Reported(n)
  BY ReportedFacts
<1>3. /\ \A a, b \in ToSet(R) : a.tag = b.tag => a = b
      /\ \A st \in ToSet(R) : st.tag \in ToSet(Observed)
  BY <1>2, ReportedFacts
<1>4. PICK N : N = OfNodes(list, R)
  OBVIOUS
<1>5. PICK K : K = {st \in ToSet(N) : st.alive /\ st.delay > 0}
  OBVIOUS
<1>6. /\ N \in Seq(OutboundStatus)
      /\ K = {st \in ToSet(R) : st.alive /\ st.delay > 0 /\ st.tag \in ToSet(list)}
  BY <1>1, <1>3, <1>4, <1>5, OfNodesFacts
<1>7. PICK ex : ex = ExcludedTags(XrayOutbounds)
  OBVIOUS
<1>8. \A st \in ToSet(R) : st.tag \in ToSet(list) <=> st.tag \notin ex
  BY <1>1, <1>3, <1>7, ListedOrExcluded
<1>9. K = {st \in Usable(R, ex) : st.delay > 0}
  BY <1>6, <1>8 DEF Usable
<1>10. \A a, b \in K : a.delay = b.delay => a = b
  BY <1>2, <1>4, <1>5 DEF Clear
<1>11. FindBestNode(N) # ""
  BY <1>2, <1>4
<1>12. FindBestAvailableNode(R, ex) = FindBestNode(N)
  BY <1>5, <1>6, <1>9, <1>10, <1>11, SameBest
<1> QED
  BY <1>2, <1>4, <1>7, <1>12

-----------------------------------------------------------------------------
(* Types *)

CallPcs == {"none", "load", "statuses", "modal", "apply", "again", "done"}

\* The types of a call's fields.
LEMMA CallFields ==
  \A c \in Call : /\ c.pc \in CallPcs
                  /\ c.current \in BOOLEAN
                  /\ c.listed \in BOOLEAN
                  /\ c.list \in Seq(STRING)
                  /\ c.auto \in BOOLEAN
                  /\ c.active \in {""} \cup ToSet(Observed)
                  /\ c.button \in BOOLEAN
                  /\ c.failed \in BOOLEAN
                  /\ c.blind \in BOOLEAN
                  /\ c.asOf \in Nat
                  /\ c.seen \in Nat
BY DEF Call, CallPcs

\* A call that goes on is one.
LEMMA CallGoesOn ==
  ASSUME NEW c \in Call, NEW pc \in CallPcs
  PROVE  /\ [c EXCEPT !.pc = pc] \in Call
         /\ \A button \in BOOLEAN : [c EXCEPT !.pc = pc, !.button = button] \in Call
         /\ \A n \in Nat : [c EXCEPT !.pc = pc, !.seen = n] \in Call
<1>1. [c EXCEPT !.pc = pc] \in Call
  BY DEF Call, CallPcs
<1>2. \A button \in BOOLEAN : [c EXCEPT !.pc = pc, !.button = button] \in Call
  BY DEF Call, CallPcs
<1>3. \A n \in Nat : [c EXCEPT !.pc = pc, !.seen = n] \in Call
  BY DEF Call, CallPcs
<1> QED
  BY <1>1, <1>2, <1>3

\* So is one that has had the answer with the current outbound, or the list.
LEMMA CallAnswered ==
  ASSUME NEW c \in Call, NEW pc \in CallPcs
  PROVE  /\ \A active \in {""} \cup ToSet(Observed), blind \in BOOLEAN, asOf \in Nat :
              [c EXCEPT !.current = TRUE, !.pc = pc, !.active = active,
                        !.blind = blind, !.asOf = asOf] \in Call
         /\ [c EXCEPT !.current = TRUE, !.pc = pc, !.auto = FALSE] \in Call
         /\ [c EXCEPT !.current = TRUE, !.pc = pc, !.failed = TRUE] \in Call
         /\ \A list \in Seq(STRING) :
              [c EXCEPT !.listed = TRUE, !.pc = pc, !.list = list] \in Call
<1>1. \A active \in {""} \cup ToSet(Observed), blind \in BOOLEAN, asOf \in Nat :
        [c EXCEPT !.current = TRUE, !.pc = pc, !.active = active,
                  !.blind = blind, !.asOf = asOf] \in Call
  BY DEF Call, CallPcs
<1>2. [c EXCEPT !.current = TRUE, !.pc = pc, !.auto = FALSE] \in Call
  BY DEF Call, CallPcs
<1>3. [c EXCEPT !.current = TRUE, !.pc = pc, !.failed = TRUE] \in Call
  BY DEF Call, CallPcs
<1>4. \A list \in Seq(STRING) : [c EXCEPT !.listed = TRUE, !.pc = pc, !.list = list] \in Call
  BY DEF Call, CallPcs
<1> QED
  BY <1>1, <1>2, <1>3, <1>4

\* A call that is over, or has not begun, is one.
LEMMA NoCallType ==
  /\ NoCall \in Call
  /\ \A pc \in CallPcs : [NoCall EXCEPT !.pc = pc] \in Call
  /\ \A pc \in CallPcs, button \in BOOLEAN :
       [NoCall EXCEPT !.pc = pc, !.button = button] \in Call
  /\ \A pc \in CallPcs, list \in Seq(STRING) :
       [NoCall EXCEPT !.pc = pc, !.list = list] \in Call
<1>1. <<>> \in Seq(STRING)
  BY EmptySeq
<1>2. NoCall \in Call
  BY <1>1 DEF NoCall, Call
<1>3. ASSUME NEW c \in Call, NEW pc \in CallPcs, NEW list \in Seq(STRING)
      PROVE  [c EXCEPT !.pc = pc, !.list = list] \in Call
  BY DEF Call, CallPcs
<1> QED
  BY <1>2, <1>3, CallGoesOn

\* So is what is left of one that has asked.
LEMMA AskedType ==
  ASSUME NEW c \in Call, NEW pc \in CallPcs
  PROVE  Asked(c, pc) \in Call /\ Asked(c, pc).pc = pc
<1>1. PICK no \in Call : no = NoCall
  BY NoCallType
<1>2. c.list \in Seq(STRING) /\ c.button \in BOOLEAN
  BY DEF Call
<1>3. PICK d : d = [no EXCEPT !.pc = pc, !.list = c.list, !.button = c.button]
  OBVIOUS
<1>4. d \in Call /\ d.pc = pc
  BY <1>2, <1>3 DEF Call, CallPcs
<1> QED
  BY <1>1, <1>3, <1>4, Zenon DEF Asked

\* A polling that goes on, ends or escapes is one.
LEMMA PollingGoesOn ==
  /\ NoPolling \in Polling
  /\ \A p \in Polling : /\ p.pc \in {"none", "timer", "round", "ended"}
                        /\ p.round \in 0..MaxRounds
                        /\ \A pc \in {"none", "timer", "round", "ended"} :
                             [p EXCEPT !.pc = pc] \in Polling
                        /\ [p EXCEPT !.escaped = TRUE] \in Polling
                        /\ \A n \in 0..MaxRounds :
                             [p EXCEPT !.pc = "round", !.round = n] \in Polling
<1>1. NoPolling \in Polling
  BY BrowserAssumption DEF NoPolling, Polling
<1> SUFFICES ASSUME NEW p \in Polling
             PROVE  /\ p.pc \in {"none", "timer", "round", "ended"}
                    /\ p.round \in 0..MaxRounds
                    /\ \A pc \in {"none", "timer", "round", "ended"} :
                         [p EXCEPT !.pc = pc] \in Polling
                    /\ [p EXCEPT !.escaped = TRUE] \in Polling
                    /\ \A n \in 0..MaxRounds :
                         [p EXCEPT !.pc = "round", !.round = n] \in Polling
  BY <1>1
<1>2. p.pc \in {"none", "timer", "round", "ended"} /\ p.round \in 0..MaxRounds
  BY DEF Polling
<1>3. \A pc \in {"none", "timer", "round", "ended"} : [p EXCEPT !.pc = pc] \in Polling
  BY DEF Polling
<1>4. [p EXCEPT !.escaped = TRUE] \in Polling
  BY DEF Polling
<1>5. \A n \in 0..MaxRounds : [p EXCEPT !.pc = "round", !.round = n] \in Polling
  BY DEF Polling
<1> QED
  BY <1>2, <1>3, <1>4, <1>5

\* stopPostInitPolling leaves pollings.
LEMMA StopPollingType ==
  ASSUME NEW p \in [Inits -> Polling]
  PROVE  StopPolling(p) \in [Inits -> Polling]
<1>1. ASSUME NEW i \in Inits
      PROVE  [p[i] EXCEPT !.pc = "ended"] \in Polling /\ [p[i] EXCEPT !.escaped = TRUE] \in Polling
  BY PollingGoesOn
<1> QED
  BY <1>1 DEF StopPolling

\* A call of initializePage begins.
LEMMA EnterType ==
  ASSUME TypeOK, NEW i \in Inits, NEW button \in BOOLEAN, Enter(i, button)
  PROVE  /\ init' \in [Inits -> Call]
         /\ pageReady' \in BOOLEAN /\ didInitialAutoSelect' \in BOOLEAN
         /\ polling' \in [Inits -> Polling]
         /\ postInit' \in Inits \cup {None}
         /\ UNCHANGED serverVars
<1>1. init' \in [Inits -> Call]
  <2>1. [NoCall EXCEPT !.pc = "load", !.button = button] \in Call
    BY NoCallType DEF CallPcs
  <2> QED
    BY <2>1 DEF Enter, TypeOK
<1>2. polling' \in [Inits -> Polling]
  <2>1. [polling EXCEPT ![i] = NoPolling] \in [Inits -> Polling]
    BY PollingGoesOn DEF TypeOK
  <2> QED
    BY <2>1, StopPollingType DEF Enter
<1>3. pageReady' \in BOOLEAN /\ didInitialAutoSelect' \in BOOLEAN
  BY DEF Enter
<1> QED
  BY <1>1, <1>2, <1>3 DEF Enter

\* A call of initializePage ends.
LEMMA FinishType ==
  ASSUME TypeOK, NEW i \in Inits, Finish(i)
  PROVE  /\ init' \in [Inits -> Call]
         /\ pageReady' \in BOOLEAN
         /\ polling' \in [Inits -> Polling]
         /\ postInit' \in Inits \cup {None}
<1>1. init' \in [Inits -> Call]
  <2>1. init[i].list \in Seq(STRING)
    BY CallFields DEF TypeOK
  <2>2. [NoCall EXCEPT !.pc = "done", !.list = init[i].list] \in Call
    BY <2>1, NoCallType DEF CallPcs
  <2> QED
    BY <2>2 DEF Finish, TypeOK
<1>2. PICK stopped \in [Inits -> Polling] : stopped = StopPolling(polling)
  BY StopPollingType DEF TypeOK
<1>3. polling' \in [Inits -> Polling]
  <2>1. [stopped EXCEPT ![i].pc = "timer"] \in [Inits -> Polling]
    <3>1. [stopped[i] EXCEPT !.pc = "timer"] \in Polling
      BY PollingGoesOn
    <3> QED
      BY <3>1
  <2> QED
    BY <1>2, <2>1 DEF Finish
<1>4. pageReady' \in BOOLEAN
  BY DEF Finish
<1>5. postInit' \in Inits \cup {None}
  BY DEF Finish
<1> QED
  BY <1>1, <1>3, <1>4, <1>5

\* The bounds of the probes and of the reloads.
LEMMA Bounds ==
  /\ 1 \in 1..(MaxProbes + 1) /\ 1 \in 0..MaxReloads
  /\ \A n \in 1..(MaxProbes + 1) : n <= MaxProbes => n + 1 \in 1..(MaxProbes + 1)
  /\ \A n \in 0..MaxReloads : /\ n > 0 => n - 1 \in 0..MaxReloads
                             /\ n < MaxReloads => n + 1 \in 0..MaxReloads
<1>1. MaxProbes \in Nat /\ MaxReloads \in Nat /\ MaxReloads > 0
  BY BrowserAssumption
<1> QED
  BY <1>1

\* What obsCache may hold.
CachedType == {{}} \cup {{n} : n \in 0..Len(found)}

\* An answer about the statuses is one of what has been found, is as new as what
\* the cache holds, and leaves in the cache what it held, nothing, or the last.
LEMMA AllStatusesFacts ==
  ASSUME TypeOK, NEW n \in 0..Len(found), AllStatuses(n)
  PROVE  /\ cached' \in CachedType
         /\ n = 0 \/ n = Len(found) \/ n \in cached
         /\ \A m \in cached' : m = 0 \/ m = Len(found) \/ m \in cached
         /\ \A m \in cached' : m = n
BY DEF TypeOK, AllStatuses, CachedType

LEMMA OutboundsStatusFacts ==
  ASSUME TypeOK, NEW n \in 0..Len(found), OutboundsStatus(n)
  PROVE  /\ cached' \in CachedType
         /\ n = 0 \/ n = Len(found) \/ n \in cached
         /\ \A m \in cached' : m = 0 \/ m = Len(found) \/ m \in cached
<1>1. CASE AllStatuses(n)
  BY <1>1, AllStatusesFacts
<1>2. CASE n = 0 /\ UNCHANGED cached
  BY <1>2 DEF TypeOK, CachedType
<1>3. CASE n = 0 /\ \E m \in 0..Len(found) : AllStatuses(m)
  BY <1>3, AllStatusesFacts
<1> QED
  BY <1>1, <1>2, <1>3 DEF OutboundsStatus

\* A probe adds to what has been found.
LEMMA ProbeFacts ==
  ASSUME TypeOK, NEW tag \in ToSet(Observed), NEW st \in Finds[tag], Probe(tag, st)
  PROVE  /\ found' \in Seq([ToSet(Observed) -> Statuses])
         /\ Len(found') = Len(found) + 1
         /\ \A n \in 1..Len(found) : found'[n] = found[n]
<1>1. PICK m \in Nat : m = Len(found) /\ m > 0
  BY FoundFacts
<1>2. found[m] \in [ToSet(Observed) -> Statuses] /\ Last(found) = found[m]
  BY <1>1, FoundFacts DEF Last
<1>3. st \in Statuses
  BY FoundAssumption
<1>4. PICK now \in [ToSet(Observed) -> Statuses] : now = [Last(found) EXCEPT ![tag] = st]
  BY <1>2, <1>3
<1>5. found' = Append(found, now)
  BY <1>4 DEF Probe
<1> QED
  BY <1>5, FoundFacts, AppendProperties

\* The page keeps its types when the observatory finds nothing new.
LEMMA TypeKept ==
  ASSUME TypeOK, UNCHANGED found,
         override' \in OverrideInfo, cached' \in CachedType, init' \in [Inits -> Call],
         pageReady' \in BOOLEAN, didInitialAutoSelect' \in BOOLEAN,
         polling' \in [Inits -> Polling], postInit' \in Inits \cup {None},
         retryTimer' \in BOOLEAN, reloads' \in 0..MaxReloads
  PROVE  TypeOK'
BY DEF TypeOK, CachedType

\* A call after the answer with the node the server has found.
WithCurrent(c, pc, active, blind, n) ==
  [c EXCEPT !.current = TRUE, !.pc = pc, !.active = active, !.blind = blind, !.asOf = n]

\* That answer: the call's fields after it.
LEMMA CurrentAnswer ==
  ASSUME TypeOK, NEW i \in Inits, CurrentArrives(i), override = ""
  PROVE  \E n \in 0..Len(found), excluded \in {ExcludedTags(XrayOutbounds), {}},
            pc \in CallPcs, active \in {""} \cup ToSet(Observed), blind \in BOOLEAN :
           /\ AllStatuses(n)
           /\ pc = Awaiting("load", init[i].listed)
           /\ active = FindBestAvailableNode(Reported(n), excluded)
           /\ ~blind => excluded = ExcludedTags(XrayOutbounds)
           /\ init' = [init EXCEPT ![i] = WithCurrent(init[i], pc, active, blind, n)]
<1>0. init \in [Inits -> Call]
  BY DEF TypeOK
<1>1. PICK n \in 0..Len(found), excluded \in {ExcludedTags(XrayOutbounds), {}} :
        /\ AllStatuses(n)
        /\ init' = [init EXCEPT ![i] =
             [init[i] EXCEPT
                    !.current = TRUE, !.pc = Awaiting(@, init[i].listed),
                    !.active = FindBestAvailableNode(Reported(n), excluded),
                    !.blind = excluded # ExcludedTags(XrayOutbounds),
                    !.asOf = n]]
  BY DEF CurrentArrives
<1>2. PICK blind \in BOOLEAN : blind = (excluded # ExcludedTags(XrayOutbounds))
  OBVIOUS
<1>3. PICK active \in {""} \cup ToSet(Observed) :
        active = FindBestAvailableNode(Reported(n), excluded)
  <2>1. Reported(n) \in Seq(OutboundStatus)
    BY ReportedFacts
  <2>2. {st.tag : st \in ToSet(Reported(n))} \subseteq ToSet(Observed)
    BY ReportedFacts
  <2>3. FindBestAvailableNode(Reported(n), excluded) \in {""} \cup ToSet(Observed)
    BY <2>1, <2>2, BestIsATag
  <2> QED
    BY <2>3
<1>4. PICK pc \in CallPcs : pc = Awaiting(init[i].pc, init[i].listed)
  BY <1>0, CallFields DEF Awaiting, CallPcs
<1>5. init' = [init EXCEPT ![i] = WithCurrent(init[i], pc, active, blind, n)]
  <2> DEFINE answer(p, ac, bl) ==
        [init EXCEPT ![i] =
           [init[i] EXCEPT !.current = TRUE, !.pc = p, !.active = ac, !.blind = bl,
                           !.asOf = n]]
  <2>1. init' = answer(Awaiting(init[i].pc, init[i].listed),
                       FindBestAvailableNode(Reported(n), excluded),
                       excluded # ExcludedTags(XrayOutbounds))
    BY <1>1, <1>0
  <2>2. init' = answer(pc, active, blind)
    BY <2>1, <1>2, <1>3, <1>4, Zenon
  <2> QED
    BY <2>2 DEF WithCurrent
<1>6. pc = Awaiting("load", init[i].listed)
  BY <1>4 DEF CurrentArrives
<1>7. ~blind => excluded = ExcludedTags(XrayOutbounds)
  BY <1>2
<1> QED
  BY <1>1, <1>2, <1>3, <1>4, <1>5, <1>6, <1>7, ZenonT(30)

\* The other answers with the current outbound: an override, or a failure.
LEMMA OtherAnswer ==
  ASSUME TypeOK, NEW i \in Inits,
         CurrentFails(i) \/ (CurrentArrives(i) /\ override # "")
  PROVE  \E pc \in CallPcs, d \in Call :
           /\ pc = Awaiting("load", init[i].listed)
           /\ \/ d = [init[i] EXCEPT !.current = TRUE, !.pc = pc, !.auto = FALSE]
              \/ d = [init[i] EXCEPT !.current = TRUE, !.pc = pc, !.failed = TRUE]
           /\ init' = [init EXCEPT ![i] = d]
           /\ UNCHANGED cached
<1>0. init \in [Inits -> Call]
  BY DEF TypeOK
<1>1. PICK pc \in CallPcs : pc = Awaiting(init[i].pc, init[i].listed)
  BY <1>0, CallFields DEF Awaiting, CallPcs
<1>2. pc = Awaiting("load", init[i].listed)
  BY <1>1 DEF CurrentFails, CurrentArrives
<1>3. /\ [init[i] EXCEPT !.current = TRUE, !.pc = pc, !.auto = FALSE] \in Call
      /\ [init[i] EXCEPT !.current = TRUE, !.pc = pc, !.failed = TRUE] \in Call
  BY <1>0, CallAnswered
<1>4. CASE CurrentFails(i)
  <2>1. init' = [init EXCEPT ![i] =
                   [init[i] EXCEPT !.current = TRUE, !.pc = pc, !.failed = TRUE]]
    BY <1>0, <1>1, <1>4 DEF CurrentFails
  <2> QED
    BY <1>1, <1>2, <1>3, <1>4, <2>1 DEF CurrentFails, serverVars
<1>5. CASE CurrentArrives(i) /\ override # ""
  <2>1. init' = [init EXCEPT ![i] =
                   [init[i] EXCEPT !.current = TRUE, !.pc = pc, !.auto = FALSE]]
    BY <1>0, <1>1, <1>5 DEF CurrentArrives
  <2> QED
    BY <1>1, <1>2, <1>3, <1>5, <2>1 DEF CurrentArrives
<1> QED
  BY <1>4, <1>5

\* Every step of the page, of its user and of Xray keeps the types.
LEMMA TypeStep == TypeOK /\ [Next]_vars => TypeOK'
<1> SUFFICES ASSUME TypeOK, [Next]_vars PROVE TypeOK'
  OBVIOUS
<1>0. /\ override \in OverrideInfo
      /\ cached \in CachedType
      /\ init \in [Inits -> Call]
      /\ pageReady \in BOOLEAN
      /\ didInitialAutoSelect \in BOOLEAN
      /\ polling \in [Inits -> Polling]
      /\ postInit \in Inits \cup {None}
      /\ retryTimer \in BOOLEAN
      /\ reloads \in 0..MaxReloads
      /\ MaxProbes \in Nat /\ MaxReloads \in Nat /\ MaxRounds \in Nat
  BY BrowserAssumption DEF TypeOK, CachedType
<1>1. ASSUME NEW i \in Inits, PollTimer(i) PROVE TypeOK'
  <2>1. polling' \in [Inits -> Polling]
    <3>1. [polling[i] EXCEPT !.pc = "ended"] \in Polling
      BY <1>0, PollingGoesOn
    <3>2. MayPoll(polling[i]) =>
            [polling[i] EXCEPT !.pc = "round", !.round = NextRound(polling[i])] \in Polling
      <4>1. polling[i].round \in 0..MaxRounds
        BY <1>0, PollingGoesOn
      <4>2. MayPoll(polling[i]) => NextRound(polling[i]) \in 0..MaxRounds
        BY <4>1, <1>0 DEF MayPoll, NextRound
      <4> QED
        BY <4>2, <1>0, PollingGoesOn
    <3> QED
      BY <3>1, <3>2, <1>0, <1>1 DEF PollTimer
  <2> QED
    BY <1>0, <1>1, <2>1, TypeKept DEF PollTimer, serverVars
<1>2. ASSUME NEW i \in Inits, PollAnswered(i) PROVE TypeOK'
  <2>1. \A k \in Inits : /\ [polling[k] EXCEPT !.pc = "ended"] \in Polling
                         /\ [polling[k] EXCEPT !.pc = "timer"] \in Polling
                         /\ [polling[k] EXCEPT !.escaped = TRUE] \in Polling
                         /\ polling[k] \in Polling
    BY <1>0, PollingGoesOn
  <2>2. polling' \in [Inits -> Polling] /\ postInit' \in Inits \cup {None}
    <3>1. CASE polling' = [polling EXCEPT ![i].pc = "ended"] /\ UNCHANGED postInit
      BY <3>1, <2>1, <1>0
    <3>2. CASE /\ polling' = [k \in Inits |->
                    CASE k = i -> [polling[k] EXCEPT !.pc = "timer"]
                      [] k # i /\ k = postInit -> [polling[k] EXCEPT !.escaped = TRUE]
                      [] OTHER -> polling[k]]
               /\ postInit' = i
      BY <3>2, <2>1
    <3> QED
      BY <1>2, <3>1, <3>2 DEF PollAnswered
  <2>3. cached' \in CachedType
    BY <1>2, OutboundsStatusFacts DEF PollAnswered
  <2> QED
    BY <1>0, <1>2, <2>2, <2>3, TypeKept DEF PollAnswered
<1>3. ASSUME NEW i \in Inits, Reload(i) PROVE TypeOK'
  <2>1. reloads' \in 0..MaxReloads
    BY <1>0, <1>3 DEF Reload
  <2> QED
    BY <1>0, <1>3, <2>1, EnterType, TypeKept DEF Reload, serverVars
<1>4. ASSUME NEW i \in Inits, Retry(i) PROVE TypeOK'
  <2>1. retryTimer' \in BOOLEAN
    BY <1>4 DEF Retry
  <2> QED
    BY <1>0, <1>4, <2>1, EnterType, TypeKept DEF Retry, serverVars
<1>5. ASSUME NEW i \in Inits, Refresh(i) PROVE TypeOK'
  BY <1>0, <1>5, EnterType, TypeKept DEF Refresh, serverVars
<1>6. ASSUME NEW i \in Inits, CurrentArrives(i) \/ CurrentFails(i) PROVE TypeOK'
  <2>1. CASE CurrentArrives(i) /\ override = ""
    <3>1. PICK n \in 0..Len(found), pc \in CallPcs, active \in {""} \cup ToSet(Observed),
               blind \in BOOLEAN :
            /\ AllStatuses(n)
            /\ init' = [init EXCEPT ![i] = WithCurrent(init[i], pc, active, blind, n)]
      BY <2>1, CurrentAnswer
    <3>2. n \in Nat
      BY <3>1, Places
    <3>3. WithCurrent(init[i], pc, active, blind, n) \in Call
      BY <1>0, <3>2, CallAnswered DEF WithCurrent
    <3>4. init' \in [Inits -> Call] /\ cached' \in CachedType
      BY <3>1, <3>3, <1>0, AllStatusesFacts
    <3> QED
      BY <1>0, <2>1, <3>4, TypeKept DEF CurrentArrives
  <2>2. CASE CurrentFails(i) \/ (CurrentArrives(i) /\ override # "")
    <3>1. PICK pc \in CallPcs, d \in Call :
            /\ \/ d = [init[i] EXCEPT !.current = TRUE, !.pc = pc, !.auto = FALSE]
               \/ d = [init[i] EXCEPT !.current = TRUE, !.pc = pc, !.failed = TRUE]
            /\ init' = [init EXCEPT ![i] = d]
            /\ UNCHANGED cached
      BY <2>2, OtherAnswer
    <3>2. init' \in [Inits -> Call]
      BY <1>0, <3>1
    <3> QED
      BY <1>0, <2>2, <3>1, <3>2, TypeKept DEF CurrentArrives, CurrentFails, serverVars
  <2> QED
    BY <1>6, <2>1, <2>2
<1>7. ASSUME NEW i \in Inits, ListArrives(i) PROVE TypeOK'
  <2>1. init' \in [Inits -> Call]
    <3>1. PICK list \in Seq(STRING) : list = Ordered(Listed(XrayOutbounds))
      BY OrderedFacts
    <3>2. PICK pc \in CallPcs : pc = Awaiting(init[i].pc, init[i].current)
      BY <1>0, CallFields DEF Awaiting, CallPcs
    <3>3. [init[i] EXCEPT !.listed = TRUE, !.pc = pc, !.list = list] \in Call
      BY <1>0, CallAnswered
    <3>4. init' = [init EXCEPT ![i] =
                     [init[i] EXCEPT !.listed = TRUE, !.pc = pc, !.list = list]]
      BY <1>0, <1>7, <3>1, <3>2 DEF ListArrives
    <3> QED
      BY <1>0, <3>3, <3>4
  <2> QED
    BY <1>0, <1>7, <2>1, TypeKept DEF ListArrives, serverVars
<1>8. ASSUME NEW i \in Inits, ListFails(i) PROVE TypeOK'
  <2>1. init' \in [Inits -> Call]
    <3>1. [NoCall EXCEPT !.pc = "done"] \in Call
      BY NoCallType DEF CallPcs
    <3> QED
      BY <1>0, <1>8, <3>1 DEF ListFails
  <2>2. retryTimer' \in BOOLEAN
    BY <1>8 DEF ListFails, ShowRetryUI
  <2> QED
    BY <1>0, <1>8, <2>1, <2>2, TypeKept DEF ListFails, serverVars
<1>9. ASSUME NEW i \in Inits, NEW pc \in CallPcs, init' = [init EXCEPT ![i].pc = pc]
      PROVE  init' \in [Inits -> Call]
  <2>1. [init[i] EXCEPT !.pc = pc] \in Call
    BY <1>0, CallGoesOn
  <2> QED
    BY <1>0, <1>9, <2>1
<1>10. ASSUME NEW i \in Inits, StatusesArrive(i) PROVE TypeOK'
  <2>1. PICK n \in 0..Len(found) :
          /\ OutboundsStatus(n)
          /\ \/ /\ init' = [init EXCEPT ![i] =
                              [init[i] EXCEPT !.pc = "modal", !.seen = n]]
                /\ UNCHANGED <<pageReady, didInitialAutoSelect, polling, postInit>>
             \/ Finish(i) /\ didInitialAutoSelect' \in BOOLEAN
    <3>1. \A select : (didInitialAutoSelect \/ select) \in BOOLEAN
      OBVIOUS
    <3> QED
      BY <1>10, <3>1, Zenon DEF StatusesArrive
  <2>2. cached' \in CachedType
    BY <2>1, OutboundsStatusFacts
  <2>3. CASE /\ init' = [init EXCEPT ![i] = [init[i] EXCEPT !.pc = "modal", !.seen = n]]
             /\ UNCHANGED <<pageReady, didInitialAutoSelect, polling, postInit>>
    <3>1. n \in Nat
      BY FoundFacts
    <3>2. [init[i] EXCEPT !.pc = "modal", !.seen = n] \in Call
      BY <1>0, <3>1, CallGoesOn DEF CallPcs
    <3>3. init' \in [Inits -> Call]
      BY <1>0, <2>3, <3>2
    <3> QED
      BY <1>0, <1>10, <2>2, <2>3, <3>3, TypeKept DEF StatusesArrive
  <2>4. CASE Finish(i) /\ didInitialAutoSelect' \in BOOLEAN
    BY <1>0, <1>10, <2>2, <2>4, FinishType, TypeKept DEF StatusesArrive
  <2> QED
    BY <2>1, <2>3, <2>4
<1>11. ASSUME NEW i \in Inits, Answered(i) PROVE TypeOK'
  <2>1. PICK pc \in {"apply", "again"} : init' = [init EXCEPT ![i] = Asked(init[i], pc)]
    BY <1>11 DEF Answered
  <2>2. Asked(init[i], pc) \in Call
    BY <1>0, AskedType DEF CallPcs
  <2>3. init' \in [Inits -> Call]
    BY <1>0, <2>1, <2>2
  <2> QED
    BY <1>0, <1>11, <2>3, TypeKept DEF Answered, serverVars
<1>12. ASSUME NEW i \in Inits, Applied(i) PROVE TypeOK'
  <2>1. override' \in OverrideInfo /\ cached' \in CachedType
    BY <1>0, <1>12 DEF Applied, OverrideInfo, SwitchDone, SwitchFailed, CachedType
  <2> QED
    BY <1>0, <1>9, <1>12, <2>1, TypeKept DEF Applied, CallPcs
<1>13. ASSUME NEW i \in Inits, StatusesAgain(i) PROVE TypeOK'
  <2>1. cached' \in CachedType
    BY <1>13, OutboundsStatusFacts DEF StatusesAgain
  <2>2. didInitialAutoSelect' \in BOOLEAN
    BY <1>13 DEF StatusesAgain
  <2> QED
    BY <1>0, <1>13, <2>1, <2>2, FinishType, TypeKept DEF StatusesAgain
<1>14. ASSUME NEW tag \in Targets, Switch(tag) PROVE TypeOK'
  <2>1. override' \in OverrideInfo /\ cached' \in CachedType
    BY <1>0, <1>14 DEF Switch, OverrideInfo, SwitchDone, SwitchFailed, CachedType
  <2>2. reloads' \in 0..MaxReloads
    BY <1>0, <1>14, Bounds DEF Switch
  <2> QED
    BY <1>0, <1>14, <2>1, <2>2, TypeKept DEF Switch
<1>15. ASSUME NEW tag \in ToSet(Observed), NEW st \in Finds[tag], Probe(tag, st) PROVE TypeOK'
  <2>1. PICK m \in Nat : m = Len(found) /\ m > 0
    BY FoundFacts
  <2>2. found' \in Seq([ToSet(Observed) -> Statuses]) /\ Len(found') = m + 1
    BY <1>15, <2>1, ProbeFacts
  <2>3. Len(found') \in 1..(MaxProbes + 1)
    BY <1>0, <1>15, <2>1, <2>2 DEF Probe
  <2>4. cached' \in {{}} \cup {{n} : n \in 0..Len(found')}
    <3>1. 0..Len(found) \subseteq 0..Len(found')
      BY <2>1, <2>2
    <3>2. cached' \in {{}} \cup {{n} : n \in 0..Len(found)}
      BY <1>0, <1>15 DEF Probe, CachedType
    <3> QED
      BY <3>1, <3>2
  <2> QED
    BY <1>0, <1>15, <2>2, <2>3, <2>4 DEF Probe, pageVars, TypeOK
<1>16. CASE UNCHANGED vars
  BY <1>0, <1>16, TypeKept DEF vars, pageVars, serverVars, CachedType
<1>17. ASSUME ObsExpires PROVE TypeOK'
  BY <1>0, <1>17, TypeKept DEF ObsExpires, pageVars, CachedType
<1> QED
  BY <1>1, <1>2, <1>3, <1>4, <1>5, <1>6, <1>7, <1>8, <1>10, <1>11, <1>12, <1>13, <1>14,
     <1>15, <1>16, <1>17
  DEF Next, PageWork, PollWork

\* The types hold initially.
LEMMA TypeInit == Init => TypeOK
<1> SUFFICES ASSUME Init PROVE TypeOK
  OBVIOUS
<1>1. PICK first \in FirstFound : found = <<first>>
  BY DEF Init
<1>2. /\ found \in Seq([ToSet(Observed) -> Statuses])
      /\ Len(found) \in 1..(MaxProbes + 1)
      /\ cached \in CachedType
  <2>1. first \in [ToSet(Observed) -> Statuses]
    BY FoundAssumption
  <2>2. found \in Seq([ToSet(Observed) -> Statuses]) /\ Len(found) = 1
    BY <1>1, <2>1
  <2> QED
    BY <2>2, Bounds DEF Init, CachedType
<1>3. init \in [Inits -> Call] /\ polling \in [Inits -> Polling]
  BY NoCallType, PollingGoesOn DEF Init
<1>4. pageReady \in BOOLEAN /\ didInitialAutoSelect \in BOOLEAN /\ retryTimer \in BOOLEAN
  BY DEF Init
<1>5. reloads \in 0..MaxReloads
  BY Bounds DEF Init
<1>6. override \in OverrideInfo /\ postInit \in Inits \cup {None}
  BY DEF Init, OverrideInfo
<1> QED
  BY <1>2, <1>3, <1>4, <1>5, <1>6 DEF TypeOK, CachedType

\* The types are an invariant of the page.
THEOREM BrowserTypes == Spec => []TypeOK
<1>1. Init => TypeOK
  BY TypeInit
<1>2. TypeOK /\ [Next]_vars => TypeOK'
  BY TypeStep
<1> QED
  BY <1>1, <1>2, PTL DEF Spec

-----------------------------------------------------------------------------
(* Never stuck half loaded *)

\* A call of initializePage is under way.
Busy(i) == init[i].pc \notin {"none", "done"}

\* Somebody will go on with the page.
Alive == pageReady \/ (\E i \in Inits : Busy(i)) \/ retryTimer \/ reloads > 0

\* A call's place after it has gone on.
LEMMA CallPlace ==
  ASSUME NEW c \in Call, NEW pc
  PROVE  [c EXCEPT !.pc = pc].pc = pc
BY DEF Call

\* A call that begins is under way.
LEMMA EnterBusy ==
  ASSUME TypeOK, NEW i \in Inits, NEW button, Enter(i, button)
  PROVE  Busy(i)'
<1>1. init' = [init EXCEPT ![i] = [NoCall EXCEPT !.pc = "load", !.button = button]]
  BY DEF Enter
<1>2. init'[i].pc = "load"
  BY <1>1 DEF TypeOK, NoCall
<1> QED
  BY <1>2 DEF Busy

\* Whatever falls in a step, something else holds the page up.
LEMMA AliveStep == TypeOK /\ Alive /\ [Next]_vars => Alive'
<1> SUFFICES ASSUME TypeOK, Alive, [Next]_vars PROVE Alive'
  OBVIOUS
<1>0. init \in [Inits -> Call] /\ reloads \in 0..MaxReloads /\ MaxReloads \in Nat
  BY BrowserAssumption DEF TypeOK
<1>1. ASSUME NEW i \in Inits, PollWork(i) PROVE Alive'
  BY <1>1 DEF PollWork, PollTimer, PollAnswered, Alive, Busy
<1>2. ASSUME NEW i \in Inits, NEW button, Enter(i, button) PROVE Alive'
  BY <1>2, EnterBusy DEF Alive
<1>3. ASSUME NEW i \in Inits, NEW pc \in CallPcs \ {"none", "done"}, init'[i].pc = pc
      PROVE  Alive'
  BY <1>3 DEF Alive, Busy
<1>4. ASSUME NEW i \in Inits, CurrentArrives(i) \/ CurrentFails(i) PROVE Alive'
  <2>1. init'[i].pc = Awaiting("load", init[i].listed)
    <3>1. PICK c \in Call : c = init[i]
      BY <1>0
    <3>2. CASE CurrentArrives(i) /\ override = ""
      <4>1. PICK n \in 0..Len(found), pc \in CallPcs, active \in {""} \cup ToSet(Observed),
                 blind \in BOOLEAN :
              /\ pc = Awaiting("load", init[i].listed)
              /\ init' = [init EXCEPT ![i] = WithCurrent(init[i], pc, active, blind, n)]
        BY <3>2, CurrentAnswer
      <4>2. init'[i] = WithCurrent(c, pc, active, blind, n)
        BY <1>0, <3>1, <4>1
      <4>3. \A m : WithCurrent(c, pc, active, blind, m).pc = pc
        BY DEF WithCurrent, Call
      <4>4. init'[i].pc = pc
        BY <4>2, <4>3, Zenon
      <4> QED
        BY <4>1, <4>4
    <3>3. CASE CurrentFails(i) \/ (CurrentArrives(i) /\ override # "")
      <4>1. PICK pc \in CallPcs, d \in Call :
              /\ pc = Awaiting("load", init[i].listed)
              /\ \/ d = [c EXCEPT !.current = TRUE, !.pc = pc, !.auto = FALSE]
                 \/ d = [c EXCEPT !.current = TRUE, !.pc = pc, !.failed = TRUE]
              /\ init' = [init EXCEPT ![i] = d]
        BY <3>1, <3>3, OtherAnswer, ZenonT(40)
      <4>2. d.pc = pc
        BY <4>1 DEF Call
      <4> QED
        BY <1>0, <4>1, <4>2
    <3> QED
      BY <1>4, <3>2, <3>3
  <2>2. Awaiting("load", init[i].listed) \in CallPcs \ {"none", "done"}
    BY DEF Awaiting, CallPcs
  <2> QED
    BY <1>3, <2>1, <2>2
<1>5. ASSUME NEW i \in Inits, ListArrives(i) PROVE Alive'
  <2>1. init'[i].pc = Awaiting("load", init[i].current)
    BY <1>0, <1>5 DEF ListArrives, Call
  <2>2. Awaiting("load", init[i].current) \in CallPcs \ {"none", "done"}
    BY DEF Awaiting, CallPcs
  <2> QED
    BY <1>3, <2>1, <2>2
<1>6. ASSUME NEW i \in Inits, ListFails(i) PROVE Alive'
  BY <1>6 DEF ListFails, ShowRetryUI, Alive
<1>7. ASSUME NEW i \in Inits, Finish(i) PROVE Alive'
  BY <1>7 DEF Finish, Alive
<1>8. ASSUME NEW i \in Inits, NEW pc \in CallPcs \ {"none", "done"},
             init' = [init EXCEPT ![i].pc = pc]
      PROVE  Alive'
  <2>1. init'[i] = [init[i] EXCEPT !.pc = pc]
    BY <1>0, <1>8
  <2>2. init'[i].pc = pc
    BY <1>0, <2>1, CallPlace
  <2> QED
    BY <1>3, <2>2
<1>9. ASSUME NEW i \in Inits, StatusesArrive(i) PROVE Alive'
  <2>1. ASSUME NEW n, init' = [init EXCEPT ![i] = [init[i] EXCEPT !.pc = "modal", !.seen = n]]
        PROVE  Alive'
    <3>1. PICK c \in Call : c = init[i]
      BY <1>0
    <3>2. init'[i] = [c EXCEPT !.pc = "modal", !.seen = n]
      BY <1>0, <2>1, <3>1
    <3>3. init'[i].pc = "modal"
      BY <3>2 DEF Call
    <3> QED
      BY <1>3, <3>3 DEF CallPcs
  <2>2. CASE Finish(i)
    BY <1>7, <2>2
  <2> QED
    BY <1>9, <2>1, <2>2 DEF StatusesArrive
<1>10. ASSUME NEW i \in Inits, Answered(i) PROVE Alive'
  <2>1. PICK pc \in {"apply", "again"} : init' = [init EXCEPT ![i] = Asked(init[i], pc)]
    BY <1>10 DEF Answered
  <2>2. init'[i].pc = pc
    BY <1>0, <2>1, AskedType DEF CallPcs
  <2> QED
    BY <1>3, <2>2 DEF CallPcs
<1>11. ASSUME NEW i \in Inits, Applied(i) PROVE Alive'
  BY <1>8, <1>11 DEF Applied, CallPcs
<1>12. ASSUME UNCHANGED pageVars PROVE Alive'
  BY <1>12 DEF pageVars, Alive, Busy
<1>13. ASSUME NEW tag \in Targets, Switch(tag) PROVE Alive'
  <2>1. CASE reloads' = reloads + 1
    <3>1. reloads' > 0
      BY <1>0, <2>1
    <3> QED
      BY <3>1 DEF Alive
  <2>2. CASE UNCHANGED reloads
    BY <1>13, <1>12, <2>2 DEF Switch, pageVars
  <2> QED
    BY <1>13, <2>1, <2>2 DEF Switch
<1>14. ASSUME NEW tag \in ToSet(Observed), NEW st \in Finds[tag], Probe(tag, st) PROVE Alive'
  BY <1>12, <1>14 DEF Probe
<1>15. CASE UNCHANGED vars
  BY <1>12, <1>15 DEF vars
<1>16. ASSUME ObsExpires PROVE Alive'
  BY <1>12, <1>16 DEF ObsExpires
<1> QED
  BY <1>1, <1>2, <1>4, <1>5, <1>6, <1>7, <1>9, <1>10, <1>11, <1>13, <1>14, <1>15, <1>16
  DEF Next, PageWork, Reload, Retry, Refresh, StatusesAgain

\* The page is never stuck half loaded: it is ready, or a call of initializePage
\* is under way, or a timer will start one (network.js:95-151).
THEOREM PageNeverStuck == Spec => []NeverStuck
<1>1. Init => Alive
  <2>1. 1 > 0
    OBVIOUS
  <2> QED
    BY <2>1 DEF Init, Alive
<1>2. TypeOK /\ Alive /\ [Next]_vars => Alive'
  BY AliveStep
<1>3. TypeOK /\ Alive => NeverStuck
  BY DEF Alive, Busy, NeverStuck
<1> QED
  BY <1>1, <1>2, <1>3, BrowserTypes, PTL DEF Spec

-----------------------------------------------------------------------------
(* One polling *)

\* A polling's timer runs, or its round waits for its answers.
Armed(p) == p.pc \in {"timer", "round"}

\* Only the polling that _postInitTimer names is armed and can still be stopped.
PollInv == \A i \in Inits : Armed(polling[i]) /\ ~polling[i].escaped => i = postInit

\* What the steps of a polling do to its fields.
LEMMA PollingUpdates ==
  ASSUME NEW p \in Polling
  PROVE  /\ \A pc : /\ [p EXCEPT !.pc = pc].pc = pc
                    /\ [p EXCEPT !.pc = pc].escaped = p.escaped
         /\ [p EXCEPT !.escaped = TRUE].escaped
         /\ \A n : /\ [p EXCEPT !.pc = "round", !.round = n].pc = "round"
                   /\ [p EXCEPT !.pc = "round", !.round = n].escaped = p.escaped
BY DEF Polling

\* After stopPostInitPolling every polling that is still armed has escaped.
LEMMA StopEscapes ==
  ASSUME NEW p \in [Inits -> Polling],
         \A k \in Inits : Armed(p[k]) /\ ~p[k].escaped => k = postInit,
         NEW i \in Inits, Armed(StopPolling(p)[i])
  PROVE  StopPolling(p)[i].escaped
<1>1. p[i] \in Polling
  OBVIOUS
<1>2. CASE i = postInit /\ p[i].pc = "timer"
  <2>1. StopPolling(p)[i] = [p[i] EXCEPT !.pc = "ended"]
    BY <1>2 DEF StopPolling
  <2>2. StopPolling(p)[i].pc = "ended"
    BY <1>1, <2>1, PollingUpdates
  <2> QED
    BY <2>2 DEF Armed
<1>3. CASE p[i].pc = "round"
  <2>1. StopPolling(p)[i] = [p[i] EXCEPT !.escaped = TRUE]
    BY <1>3 DEF StopPolling
  <2> QED
    BY <1>1, <2>1, PollingUpdates
<1>4. CASE ~(i = postInit /\ p[i].pc = "timer") /\ p[i].pc # "round"
  <2>1. StopPolling(p)[i] = p[i]
    BY <1>4 DEF StopPolling
  <2> QED
    BY <1>4, <2>1 DEF Armed
<1> QED
  BY <1>2, <1>3, <1>4

\* A call that begins stops the polling, or lets it escape.
LEMMA EnterPolling ==
  ASSUME TypeOK, PollInv, NEW i \in Inits, NEW button, Enter(i, button)
  PROVE  PollInv'
<1>1. PICK p : p = [polling EXCEPT ![i] = NoPolling]
  OBVIOUS
<1>2. p \in [Inits -> Polling] /\ \A k \in Inits : p[k] = IF k = i THEN NoPolling ELSE polling[k]
  BY <1>1, PollingGoesOn DEF TypeOK
<1>3. \A k \in Inits : Armed(p[k]) /\ ~p[k].escaped => k = postInit
  BY <1>2 DEF PollInv, Armed, NoPolling
<1>4. polling' = StopPolling(p)
  BY <1>1 DEF Enter
<1> QED
  BY <1>2, <1>3, <1>4, StopEscapes DEF PollInv

\* A call that ends stops the polling and may start its own.
LEMMA FinishPolling ==
  ASSUME TypeOK, PollInv, NEW i \in Inits, Finish(i)
  PROVE  PollInv'
<1>1. PICK s : s = StopPolling(polling)
  OBVIOUS
<1>2. s \in [Inits -> Polling]
  BY <1>1, StopPollingType DEF TypeOK
<1>3. \A k \in Inits : Armed(s[k]) => s[k].escaped
  BY <1>1, StopEscapes DEF PollInv, TypeOK
<1>4. CASE polling' = s
  BY <1>3, <1>4 DEF PollInv
<1>5. CASE polling' = [s EXCEPT ![i].pc = "timer"] /\ postInit' = i
  <2>1. \A k \in Inits : k # i => polling'[k] = s[k]
    BY <1>2, <1>5
  <2> QED
    BY <1>3, <1>5, <2>1 DEF PollInv
<1> QED
  BY <1>1, <1>4, <1>5 DEF Finish

\* Every step of the page leaves the invariant of the pollings true.
LEMMA PollStep == TypeOK /\ PollInv /\ [Next]_vars => PollInv'
<1> SUFFICES ASSUME TypeOK, PollInv, [Next]_vars PROVE PollInv'
  OBVIOUS
<1>0. polling \in [Inits -> Polling]
  BY DEF TypeOK
<1>1. ASSUME NEW i \in Inits, PollTimer(i) PROVE PollInv'
  <2>1. Armed(polling[i]) /\ UNCHANGED postInit
    BY <1>1 DEF PollTimer, Armed
  <2>2. \A k \in Inits : k # i => polling'[k] = polling[k]
    BY <1>0, <1>1 DEF PollTimer
  <2>3. polling'[i].escaped = polling[i].escaped
    BY <1>0, <1>1, PollingUpdates DEF PollTimer
  <2> QED
    BY <2>1, <2>2, <2>3 DEF PollInv
<1>2. ASSUME NEW i \in Inits, PollAnswered(i) PROVE PollInv'
  <2>1. polling[i].pc = "round"
    BY <1>2 DEF PollAnswered
  <2>2. CASE polling' = [polling EXCEPT ![i].pc = "ended"] /\ UNCHANGED postInit
    <3>1. \A k \in Inits : k # i => polling'[k] = polling[k]
      BY <1>0, <2>2
    <3>2. polling'[i] = [polling[i] EXCEPT !.pc = "ended"]
      BY <1>0, <2>2
    <3>3. polling'[i].pc = "ended"
      BY <1>0, <3>2, PollingUpdates
    <3> QED
      BY <2>2, <3>1, <3>3 DEF PollInv, Armed
  <2>3. CASE /\ polling' = [k \in Inits |->
                  CASE k = i -> [polling[k] EXCEPT !.pc = "timer"]
                    [] k # i /\ k = postInit -> [polling[k] EXCEPT !.escaped = TRUE]
                    [] OTHER -> polling[k]]
             /\ postInit' = i
    <3>1. ASSUME NEW k \in Inits, Armed(polling'[k]), k # i
          PROVE  polling'[k].escaped
      <4>1. CASE k = postInit
        <5>1. polling'[k] = [polling[k] EXCEPT !.escaped = TRUE]
          BY <2>3, <3>1, <4>1
        <5> QED
          BY <1>0, <5>1, PollingUpdates
      <4>2. CASE k # postInit
        <5>1. polling'[k] = polling[k]
          BY <2>3, <3>1, <4>2
        <5> QED
          BY <3>1, <4>2, <5>1 DEF PollInv
      <4> QED
        BY <4>1, <4>2
    <3> QED
      BY <2>3, <3>1 DEF PollInv
  <2> QED
    BY <1>2, <2>2, <2>3 DEF PollAnswered
<1>3. ASSUME NEW i \in Inits, NEW button, Enter(i, button) PROVE PollInv'
  BY <1>3, EnterPolling
<1>4. ASSUME NEW i \in Inits, Finish(i) PROVE PollInv'
  BY <1>4, FinishPolling
<1>5. ASSUME UNCHANGED <<polling, postInit>> PROVE PollInv'
  BY <1>5 DEF PollInv
<1>6. ASSUME NEW i \in Inits,
             \/ CurrentArrives(i) \/ CurrentFails(i) \/ ListArrives(i) \/ ListFails(i)
             \/ Answered(i) \/ Applied(i)
      PROVE  PollInv'
  BY <1>5, <1>6 DEF CurrentArrives, CurrentFails, ListArrives, ListFails, Answered, Applied
<1>7. ASSUME NEW i \in Inits, StatusesArrive(i) PROVE PollInv'
  <2>1. CASE UNCHANGED <<pageReady, didInitialAutoSelect, polling, postInit>>
    BY <1>5, <2>1
  <2>2. CASE Finish(i)
    BY <1>4, <2>2
  <2> QED
    BY <1>7, <2>1, <2>2 DEF StatusesArrive
<1>8. ASSUME NEW tag \in Targets, Switch(tag) PROVE PollInv'
  BY <1>5, <1>8 DEF Switch
<1>9. ASSUME NEW tag \in ToSet(Observed), NEW st \in Finds[tag], Probe(tag, st) PROVE PollInv'
  BY <1>5, <1>9 DEF Probe, pageVars
<1>10. CASE UNCHANGED vars
  BY <1>5, <1>10 DEF vars, pageVars
<1>11. ASSUME ObsExpires PROVE PollInv'
  BY <1>5, <1>11 DEF ObsExpires, pageVars
<1> QED
  BY <1>1, <1>2, <1>3, <1>4, <1>6, <1>7, <1>8, <1>9, <1>10, <1>11
  DEF Next, PageWork, PollWork, Reload, Retry, Refresh, StatusesAgain

\* Of the pollings that have not escaped at most one is armed.
LEMMA ArmedOnce == PollInv => OnePolling
<1> SUFFICES ASSUME PollInv, \A i \in Inits : ~polling[i].escaped
             PROVE  ~(Cardinality({i \in Inits : polling[i].pc \in {"timer", "round"}}) > 1)
  BY DEF OnePolling
<1> DEFINE A == {i \in Inits : polling[i].pc \in {"timer", "round"}}
<1>1. A = {} \/ A = {postInit}
  BY DEF PollInv, Armed
<1> HIDE DEF A
<1>2. Cardinality(A) = 0 \/ Cardinality(A) = 1
  BY <1>1, FS_EmptySet, FS_Singleton
<1>3. ~(Cardinality(A) > 1)
  BY <1>2
<1> QED
  BY <1>3 DEF A

\* At most one polling is armed, unless the call that should have stopped it met
\* it in the middle of a round (network.js:160-174).
THEOREM PollingStopped == Spec => []OnePolling
<1>1. Init => PollInv
  <2>1. Init => \A i \in Inits : polling[i].pc = "none"
    <3>1. NoPolling.pc = "none"
      BY DEF NoPolling
    <3> QED
      BY <3>1 DEF Init
  <2> QED
    BY <2>1 DEF PollInv, Armed
<1>2. TypeOK /\ PollInv /\ [Next]_vars => PollInv'
  BY PollStep
<1> QED
  BY <1>1, <1>2, ArmedOnce, BrowserTypes, PTL DEF Spec

-----------------------------------------------------------------------------
(* The prompt *)

\* A number that is not below its bound is the bound.
LEMMA NotLess == \A m, n \in Nat : m <= m /\ (m <= n /\ ~(m < n) => m = n)
OBVIOUS

\* Clear, of given statuses.
ClearOf(list, reported) ==
  LET sts == {st \in ToSet(OfNodes(list, reported)) : st.alive /\ st.delay > 0} IN
  \A s, t \in sts : s.delay = t.delay => s = t

\* What the observatory has found so far, as the server reports it.
Past == [n \in 0..Len(found) |-> Reported(n)]

\* What a call knows of the past while the cache holds held: its list is the
\* page's, the cache holds nothing older than what the server has chosen from, and
\* if the server answered and knew the excluded tags, its node is the best one of
\* those statuses; when the call asks it has a reason to.
Knows(c, past, held) ==
  /\ c.asOf \in DOMAIN past /\ c.seen \in DOMAIN past
  /\ \A n \in held : n = 0 \/ c.asOf <= n
  /\ c.listed => c.list = Ordered(Listed(XrayOutbounds))
  /\ c.pc \in {"statuses", "modal"} => c.listed /\ c.current
  /\ c.pc \in {"load", "statuses"} /\ c.current /\ c.auto /\ ~c.failed /\ ~c.blind
       => c.active = FindBestAvailableNode(past[c.asOf], ExcludedTags(XrayOutbounds))
  /\ c.pc = "modal" /\ ClearOf(c.list, past[c.seen])
       => c.failed \/ c.blind \/ c.asOf < c.seen

PromptInv == \A i \in Inits : Knows(init[i], Past, cached)

\* The page finds no best node without statuses.
LEMMA NothingBest ==
  ASSUME NEW list \in Seq(STRING)
  PROVE  FindBestNode(OfNodes(list, <<>>)) = ""
<1>1. <<>> \in Seq(OutboundStatus) /\ ToSet(<<>>) = {}
  BY EmptyStatuses
<1>2. PICK N : N = OfNodes(list, <<>>)
  OBVIOUS
<1>3. N \in Seq(OutboundStatus) /\ {st \in ToSet(N) : st.alive /\ st.delay > 0} = {}
  BY <1>1, <1>2, OfNodesFacts
<1>4. FirstLeast(N, {}) = 0
  BY <1>3, FirstLeastFacts DEF Least
<1>5. FindBestNode(N) = ""
  BY <1>3, <1>4 DEF FindBestNode, TagAt
<1> QED
  BY <1>2, <1>5

\* A call that asks nothing and awaits nothing knows nothing.
LEMMA KnowsNothing ==
  ASSUME NEW past, 0 \in DOMAIN past, NEW held, held \subseteq Nat
  PROVE  /\ Knows(NoCall, past, held)
         /\ \A button : Knows([NoCall EXCEPT !.pc = "load", !.button = button], past, held)
         /\ Knows([NoCall EXCEPT !.pc = "done"], past, held)
         /\ \A list : Knows([NoCall EXCEPT !.pc = "done", !.list = list], past, held)
<1>0. \A n \in held : n = 0 \/ 0 <= n
  OBVIOUS
<1>1. Knows(NoCall, past, held)
  BY <1>0 DEF Knows, NoCall
<1>2. ASSUME NEW button
      PROVE  Knows([NoCall EXCEPT !.pc = "load", !.button = button], past, held)
  BY <1>0 DEF Knows, NoCall
<1>3. Knows([NoCall EXCEPT !.pc = "done"], past, held)
  BY <1>0 DEF Knows, NoCall
<1>4. ASSUME NEW list
      PROVE  Knows([NoCall EXCEPT !.pc = "done", !.list = list], past, held)
  BY <1>0 DEF Knows, NoCall
<1> QED
  BY <1>1, <1>2, <1>3, <1>4

\* What is left of a call that has asked knows nothing.
LEMMA KnowsAsked ==
  ASSUME NEW c, NEW pc \in {"apply", "again"},
         NEW past, 0 \in DOMAIN past, NEW held, held \subseteq Nat
  PROVE  Knows(Asked(c, pc), past, held)
<1>0. \A n \in held : n = 0 \/ 0 <= n
  OBVIOUS
<1> QED
  BY <1>0 DEF Knows, Asked, NoCall

\* A call that goes on without asking keeps what it knows.
LEMMA KnowsOn ==
  ASSUME NEW c \in Call, NEW past, NEW held, Knows(c, past, held)
  PROVE  \A pc \in {"apply", "again"} : Knows([c EXCEPT !.pc = pc], past, held)
<1> SUFFICES ASSUME NEW pc \in {"apply", "again"}
             PROVE  Knows([c EXCEPT !.pc = pc], past, held)
  OBVIOUS
<1>1. PICK d : d = [c EXCEPT !.pc = pc]
  OBVIOUS
<1>2. /\ d.pc = pc /\ d.asOf = c.asOf /\ d.seen = c.seen
      /\ d.listed = c.listed /\ d.list = c.list
  BY <1>1 DEF Call
<1>3. Knows(d, past, held)
  BY <1>2 DEF Knows
<1> QED
  BY <1>1, <1>3

\* What a call knows stays true while the past only grows, and the cache takes in
\* nothing but the last of it.
LEMMA KnowsLater ==
  ASSUME NEW c, NEW past, NEW more, NEW held, NEW kept, Knows(c, past, held),
         DOMAIN past \subseteq DOMAIN more, \A n \in DOMAIN past : more[n] = past[n],
         \A m \in kept : m = 0 \/ m \in held \/ \A n \in DOMAIN past : n <= m
  PROVE  Knows(c, more, kept)
BY DEF Knows

\* So is it in every step that finds nothing new.
LEMMA KnowsCached ==
  ASSUME TypeOK, UNCHANGED found,
         \A m \in cached' : m = 0 \/ m = Len(found) \/ m \in cached,
         NEW c, Knows(c, Past, cached)
  PROVE  Knows(c, Past, cached')
<1>1. DOMAIN Past = 0..Len(found) /\ Len(found) \in Nat
  BY FoundFacts DEF Past
<1>2. \A n \in DOMAIN Past : n <= Len(found)
  BY <1>1
<1> QED
  BY <1>2, KnowsLater

\* The server's answer is the best node of the statuses it has.
LEMMA CurrentKnows ==
  ASSUME TypeOK, PromptInv, NEW i \in Inits, CurrentArrives(i), override = ""
  PROVE  Knows(init'[i], Past, cached')
<1>1. PICK n \in 0..Len(found), excluded \in {ExcludedTags(XrayOutbounds), {}},
           pc \in CallPcs, active \in {""} \cup ToSet(Observed), blind \in BOOLEAN :
        /\ AllStatuses(n)
        /\ pc = Awaiting("load", init[i].listed)
        /\ active = FindBestAvailableNode(Reported(n), excluded)
        /\ ~blind => excluded = ExcludedTags(XrayOutbounds)
        /\ init' = [init EXCEPT ![i] = WithCurrent(init[i], pc, active, blind, n)]
  BY CurrentAnswer
<1>2. PICK c \in Call : c = init[i]
  BY DEF TypeOK
<1>3. PICK d : d = init'[i]
  OBVIOUS
<1>4. d = WithCurrent(c, pc, active, blind, n)
  BY <1>1, <1>2, <1>3 DEF TypeOK
<1> DEFINE W(m) == WithCurrent(c, pc, active, blind, m)
<1>5. d.pc = pc /\ d.active = active /\ d.asOf = n /\ d.seen = c.seen
  <2>1. \A m : W(m).pc = pc /\ W(m).active = active /\ W(m).asOf = m /\ W(m).seen = c.seen
    BY DEF WithCurrent, Call
  <2>2. d = W(n)
    BY <1>4
  <2> QED
    BY <2>1, <2>2, Zenon
<1>6. d.current /\ d.listed = c.listed /\ d.list = c.list /\ d.blind = blind
  <2>1. \A m : W(m).current /\ W(m).listed = c.listed /\ W(m).list = c.list /\ W(m).blind = blind
    BY DEF WithCurrent, Call
  <2>2. d = W(n)
    BY <1>4
  <2> QED
    BY <2>1, <2>2, Zenon
<1> HIDE DEF W
<1>7. n \in Nat
  BY <1>1, Places
<1>8. Knows(c, Past, cached)
  BY <1>2 DEF PromptInv
<1>9. pc = IF c.listed THEN "statuses" ELSE "load"
  BY <1>1, <1>2 DEF Awaiting
<1>10. d.asOf \in DOMAIN Past /\ Past[d.asOf] = Reported(n) /\ d.seen \in DOMAIN Past
  BY <1>5, <1>8 DEF Past, Knows
<1>11. \A m \in cached' : m = 0 \/ d.asOf <= m
  <2>1. \A m \in cached' : m = n
    BY <1>1, AllStatusesFacts
  <2>2. n <= n
    BY <1>7, NotLess
  <2> QED
    BY <1>5, <2>1, <2>2
<1>12. d.listed => d.list = Ordered(Listed(XrayOutbounds))
  BY <1>6, <1>8, Zenon DEF Knows
<1>13. d.pc # "modal" /\ (d.pc = "statuses" => d.listed)
  BY <1>5, <1>6, <1>9
<1>14. d.pc \in {"statuses", "modal"} => d.listed /\ d.current
  BY <1>6, <1>13
<1>15. ~d.blind => d.active = FindBestAvailableNode(Past[d.asOf], ExcludedTags(XrayOutbounds))
  BY <1>1, <1>5, <1>6, <1>10
<1>16. Knows(d, Past, cached')
  BY <1>10, <1>11, <1>12, <1>13, <1>14, <1>15, Zenon DEF Knows
<1> QED
  BY <1>3, <1>16

\* After an override or a failure there is nothing that would have to agree.
LEMMA OtherKnows ==
  ASSUME TypeOK, PromptInv, NEW i \in Inits,
         CurrentFails(i) \/ (CurrentArrives(i) /\ override # "")
  PROVE  Knows(init'[i], Past, cached')
<1>1. PICK c \in Call : c = init[i]
  BY DEF TypeOK
<1>2. PICK pc \in CallPcs, d \in Call :
        /\ pc = Awaiting("load", c.listed)
        /\ \/ d = [c EXCEPT !.current = TRUE, !.pc = pc, !.auto = FALSE]
           \/ d = [c EXCEPT !.current = TRUE, !.pc = pc, !.failed = TRUE]
        /\ init' = [init EXCEPT ![i] = d]
        /\ UNCHANGED cached
  BY <1>1, OtherAnswer
<1>3. init'[i] = d
  BY <1>2 DEF TypeOK
<1>4. /\ d.pc = pc /\ d.asOf = c.asOf /\ d.seen = c.seen
      /\ d.listed = c.listed /\ d.list = c.list /\ d.current
  BY <1>2, ZenonT(40) DEF Call
<1>5. ~d.auto \/ d.failed
  BY <1>2 DEF Call
<1>6. pc = IF c.listed THEN "statuses" ELSE "load"
  BY <1>2 DEF Awaiting
<1>7. Knows(c, Past, cached)
  BY <1>1 DEF PromptInv
<1>8. d.pc # "modal" /\ (d.pc = "statuses" => d.listed)
  BY <1>4, <1>6
<1>9. Knows(d, Past, cached)
  BY <1>4, <1>5, <1>7, <1>8 DEF Knows
<1> QED
  BY <1>2, <1>3, <1>9

\* The list is the page's.
LEMMA ListKnows ==
  ASSUME TypeOK, PromptInv, NEW i \in Inits, ListArrives(i)
  PROVE  Knows(init'[i], Past, cached)
<1>1. PICK c \in Call : c = init[i]
  BY DEF TypeOK
<1>2. PICK list : list = Ordered(Listed(XrayOutbounds))
  OBVIOUS
<1>3. PICK pc : pc = Awaiting("load", c.current)
  OBVIOUS
<1>4. c.pc = "load"
  BY <1>1 DEF ListArrives
<1>5. init'[i] = [c EXCEPT !.listed = TRUE, !.pc = pc, !.list = list]
  BY <1>1, <1>2, <1>3, <1>4 DEF ListArrives, TypeOK
<1>6. PICK d : d = init'[i]
  OBVIOUS
<1>7. /\ d.pc = pc /\ d.active = c.active /\ d.asOf = c.asOf /\ d.seen = c.seen
      /\ d.list = list
  BY <1>5, <1>6 DEF Call
<1>8. /\ d.listed /\ d.current = c.current /\ d.auto = c.auto
      /\ d.failed = c.failed /\ d.blind = c.blind
  BY <1>5, <1>6 DEF Call
<1>9. pc = IF c.current THEN "statuses" ELSE "load"
  BY <1>3 DEF Awaiting
<1>10. Knows(c, Past, cached)
  BY <1>1 DEF PromptInv
<1>11. Knows(d, Past, cached)
  BY <1>2, <1>4, <1>7, <1>8, <1>9, <1>10 DEF Knows
<1> QED
  BY <1>6, <1>11

\* A call that asks has a reason to: it found another node than the server.
LEMMA ModalKnows ==
  ASSUME TypeOK, PromptInv, NEW i \in Inits, init[i].pc = "statuses", UNCHANGED found,
         NEW n \in 0..Len(found), OutboundsStatus(n),
         FindBestNode(OfNodes(init[i].list, Reported(n))) # "",
         init[i].auto,
         FindBestNode(OfNodes(init[i].list, Reported(n))) # init[i].active
  PROVE  Knows([init[i] EXCEPT !.pc = "modal", !.seen = n], Past, cached')
<1>1. PICK c \in Call : c = init[i]
  BY DEF TypeOK
<1>2. PICK d : d = [c EXCEPT !.pc = "modal", !.seen = n]
  OBVIOUS
<1>3. d.pc = "modal" /\ d.asOf = c.asOf /\ d.seen = n /\ d.list = c.list
  BY <1>2 DEF Call
<1>4. /\ d.listed = c.listed /\ d.current = c.current
      /\ d.failed = c.failed /\ d.blind = c.blind
  BY <1>2 DEF Call
<1>5. Knows(c, Past, cached) /\ Knows(c, Past, cached')
  <2>1. \A m \in cached' : m = 0 \/ m = Len(found) \/ m \in cached
    BY OutboundsStatusFacts
  <2> QED
    BY <1>1, <2>1, KnowsCached DEF PromptInv
<1>6. c.listed /\ c.current /\ c.list = Ordered(Listed(XrayOutbounds))
  BY <1>1, <1>5 DEF Knows
<1>7. n \in Nat /\ DOMAIN Past = 0..Len(found) /\ Past[n] = Reported(n)
  BY Places DEF Past
<1>8. c.asOf \in Nat /\ c.asOf <= n
  <2>1. n # 0
    <3>1. c.list \in Seq(STRING)
      BY CallFields
    <3> QED
      BY <1>1, <3>1, NothingBest DEF Reported
  <2>2. c.asOf \in Nat /\ c.asOf <= Len(found) /\ \A m \in cached : m = 0 \/ c.asOf <= m
    BY <1>5, <1>7, Places DEF Knows
  <2>3. n = Len(found) \/ n \in cached
    BY <2>1, OutboundsStatusFacts
  <2> QED
    BY <2>1, <2>2, <2>3
<1>9. ASSUME ClearOf(c.list, Reported(n)), ~c.failed, ~c.blind, ~(c.asOf < n)
      PROVE  FALSE
  <2>1. c.asOf = n
    BY <1>7, <1>8, <1>9, NotLess, Zenon
  <2>2. c.active = FindBestAvailableNode(Reported(n), ExcludedTags(XrayOutbounds))
    BY <1>1, <1>5, <1>6, <1>7, <1>9, <2>1 DEF Knows
  <2>3. Clear(c.list, n)
    BY <1>9 DEF Clear, ClearOf
  <2>4. FindBestNode(OfNodes(c.list, Reported(n))) # ""
    BY <1>1
  <2>5. FindBestNode(OfNodes(c.list, Reported(n))) = c.active
    BY <1>6, <2>2, <2>3, <2>4, Agreement
  <2> QED
    BY <1>1, <2>5
<1>10. n \in DOMAIN Past
  BY <1>7
<1>11. Knows(d, Past, cached')
  BY <1>3, <1>4, <1>5, <1>6, <1>7, <1>9, <1>10 DEF Knows
<1> QED
  BY <1>1, <1>2, <1>11

\* Every step keeps what the calls know.
LEMMA PromptStep == TypeOK /\ PromptInv /\ [Next]_vars => PromptInv'
<1> SUFFICES ASSUME TypeOK, PromptInv, [Next]_vars PROVE PromptInv'
  OBVIOUS
<1>0. init \in [Inits -> Call] /\ Len(found) \in Nat /\ 0 \in DOMAIN Past
  BY FoundFacts DEF TypeOK, Past
<1> DEFINE Held == \A m \in cached' : m = 0 \/ m = Len(found) \/ m \in cached
<1>1. ASSUME UNCHANGED <<init, found>>, Held PROVE PromptInv'
  <2>1. Past' = Past
    BY <1>1 DEF Past, Reported
  <2> QED
    BY <1>1, <2>1, KnowsCached DEF PromptInv
<1>2. ASSUME NEW i \in Inits, NEW c, init' = [init EXCEPT ![i] = c], UNCHANGED found,
             Held, Knows(c, Past, cached')
      PROVE  PromptInv'
  <2>1. Past' = Past
    BY <1>2 DEF Past, Reported
  <2>2. \A k \in Inits : init'[k] = IF k = i THEN c ELSE init[k]
    BY <1>0, <1>2
  <2>3. \A k \in Inits : Knows(init[k], Past, cached')
    BY <1>2, KnowsCached DEF PromptInv
  <2> QED
    BY <1>2, <2>1, <2>2, <2>3 DEF PromptInv
<1>3. UNCHANGED cached => Held
  OBVIOUS
<1>4. \A n \in 0..Len(found) : AllStatuses(n) \/ OutboundsStatus(n) => Held
  BY AllStatusesFacts, OutboundsStatusFacts
<1>5. cached' \subseteq Nat
  <2>1. ASSUME Held PROVE cached' \subseteq Nat
    <3>1. cached \subseteq Nat
      BY <1>0 DEF TypeOK
    <3> QED
      BY <1>0, <2>1, <3>1
  <2>2. TypeOK'
    BY TypeStep
  <2>3. Len(found') \in Nat
    BY <2>2, BrowserAssumption DEF TypeOK
  <2> QED
    BY <2>2, <2>3 DEF TypeOK
<1> HIDE DEF Held
<1>6. ASSUME NEW i \in Inits, NEW button, Enter(i, button) PROVE PromptInv'
  <2>1. Knows([NoCall EXCEPT !.pc = "load", !.button = button], Past, cached')
    BY <1>0, <1>5, KnowsNothing
  <2> QED
    BY <1>2, <1>3, <1>6, <2>1 DEF Enter, serverVars
<1>7. ASSUME NEW i \in Inits, Finish(i), UNCHANGED found, Held PROVE PromptInv'
  <2>1. Knows([NoCall EXCEPT !.pc = "done", !.list = init[i].list], Past, cached')
    BY <1>0, <1>5, KnowsNothing
  <2> QED
    BY <1>2, <1>7, <2>1 DEF Finish
<1>8. ASSUME NEW i \in Inits, PollTimer(i) PROVE PromptInv'
  BY <1>1, <1>3, <1>8 DEF PollTimer, serverVars
<1>9. ASSUME NEW i \in Inits, PollAnswered(i) PROVE PromptInv'
  BY <1>1, <1>4, <1>9 DEF PollAnswered
<1>10. ASSUME NEW i \in Inits, CurrentArrives(i) \/ CurrentFails(i) PROVE PromptInv'
  <2>1. PICK d : d = init'[i]
    OBVIOUS
  <2>2. init' = [init EXCEPT ![i] = d] /\ UNCHANGED found /\ Held
    <3>1. CASE CurrentArrives(i) /\ override = ""
      <4>1. PICK n \in 0..Len(found) : \E e :
              AllStatuses(n) /\ init' = [init EXCEPT ![i] = e]
        BY <3>1 DEF CurrentArrives
      <4> QED
        BY <1>0, <1>4, <2>1, <3>1, <4>1 DEF CurrentArrives
    <3>2. CASE CurrentFails(i) \/ (CurrentArrives(i) /\ override # "")
      <4>1. PICK e : init' = [init EXCEPT ![i] = e]
        BY <3>2 DEF CurrentArrives, CurrentFails
      <4>2. UNCHANGED <<found, cached>>
        BY <3>2 DEF CurrentArrives, CurrentFails, serverVars
      <4> QED
        BY <1>0, <1>3, <2>1, <4>1, <4>2
    <3> QED
      BY <1>10, <3>1, <3>2
  <2>3. Knows(d, Past, cached')
    BY <1>10, <2>1, CurrentKnows, OtherKnows
  <2> QED
    BY <1>2, <2>2, <2>3
<1>11. ASSUME NEW i \in Inits, ListArrives(i) PROVE PromptInv'
  <2>1. PICK d : d = init'[i]
    OBVIOUS
  <2>2. init' = [init EXCEPT ![i] = d]
    <3>1. \E e : init' = [init EXCEPT ![i] = e]
      BY <1>11 DEF ListArrives
    <3> QED
      BY <1>0, <2>1, <3>1
  <2>3. Knows(d, Past, cached') /\ UNCHANGED <<found, cached>>
    BY <1>11, <2>1, ListKnows DEF ListArrives, serverVars
  <2> QED
    BY <1>2, <1>3, <2>2, <2>3
<1>12. ASSUME NEW i \in Inits, ListFails(i) PROVE PromptInv'
  <2>1. Knows([NoCall EXCEPT !.pc = "done"], Past, cached')
    BY <1>0, <1>5, KnowsNothing
  <2> QED
    BY <1>2, <1>3, <1>12, <2>1 DEF ListFails, serverVars
<1>13. ASSUME NEW i \in Inits, StatusesArrive(i) PROVE PromptInv'
  <2>1. UNCHANGED found /\ init[i].pc = "statuses"
    BY <1>13 DEF StatusesArrive
  <2>2. PICK n \in 0..Len(found) :
          /\ OutboundsStatus(n)
          /\ \/ /\ FindBestNode(OfNodes(init[i].list, Reported(n))) # ""
                /\ init[i].auto
                /\ FindBestNode(OfNodes(init[i].list, Reported(n))) # init[i].active
                /\ init' = [init EXCEPT ![i] =
                              [init[i] EXCEPT !.pc = "modal", !.seen = n]]
             \/ Finish(i)
    BY <1>13, Zenon DEF StatusesArrive
  <2>3. Held
    BY <1>4, <2>2
  <2>4. CASE Finish(i)
    BY <1>7, <2>1, <2>3, <2>4
  <2>5. CASE /\ FindBestNode(OfNodes(init[i].list, Reported(n))) # ""
             /\ init[i].auto
             /\ FindBestNode(OfNodes(init[i].list, Reported(n))) # init[i].active
             /\ init' = [init EXCEPT ![i] = [init[i] EXCEPT !.pc = "modal", !.seen = n]]
    <3>1. Knows([init[i] EXCEPT !.pc = "modal", !.seen = n], Past, cached')
      BY <2>1, <2>2, <2>5, ModalKnows
    <3> QED
      BY <1>2, <2>1, <2>3, <2>5, <3>1
  <2> QED
    BY <2>2, <2>4, <2>5
<1>14. ASSUME NEW i \in Inits, NEW pc \in {"apply", "again"},
              init' = [init EXCEPT ![i].pc = pc], UNCHANGED found, Held
       PROVE  PromptInv'
  <2>1. init' = [init EXCEPT ![i] = [init[i] EXCEPT !.pc = pc]]
    BY <1>14
  <2>2. Knows(init[i], Past, cached')
    BY <1>14, KnowsCached DEF PromptInv, Held
  <2>3. Knows([init[i] EXCEPT !.pc = pc], Past, cached')
    BY <1>0, <2>2, KnowsOn
  <2> QED
    BY <1>2, <1>14, <2>1, <2>3
<1>15. ASSUME NEW i \in Inits, Answered(i) PROVE PromptInv'
  <2>1. PICK pc \in {"apply", "again"} : init' = [init EXCEPT ![i] = Asked(init[i], pc)]
    BY <1>15 DEF Answered
  <2>2. Held /\ UNCHANGED found
    BY <1>3, <1>15 DEF Answered, serverVars
  <2>3. Knows(Asked(init[i], pc), Past, cached')
    BY <1>0, <1>5, KnowsAsked
  <2> QED
    BY <1>2, <2>1, <2>2, <2>3
<1>16. ASSUME NEW i \in Inits, Applied(i) PROVE PromptInv'
  <2>1. Held
    BY <1>16 DEF Applied, SwitchDone, SwitchFailed, Held
  <2> QED
    BY <1>14, <1>16, <2>1 DEF Applied
<1>17. ASSUME NEW i \in Inits, StatusesAgain(i) PROVE PromptInv'
  BY <1>4, <1>7, <1>17 DEF StatusesAgain
<1>18. ASSUME NEW tag \in Targets, Switch(tag) PROVE PromptInv'
  <2>1. Held
    BY <1>18 DEF Switch, SwitchDone, SwitchFailed, Held
  <2> QED
    BY <1>1, <1>18, <2>1 DEF Switch
<1>19. ASSUME NEW tag \in ToSet(Observed), NEW st \in Finds[tag], Probe(tag, st)
       PROVE  PromptInv'
  <2>1. UNCHANGED <<init, cached>>
    BY <1>19 DEF Probe, pageVars
  <2>2. /\ \A n \in 1..Len(found) : found'[n] = found[n]
        /\ Len(found') = Len(found) + 1
    BY <1>19, ProbeFacts
  <2>3. PICK more : more = Past'
    OBVIOUS
  <2>4. DOMAIN Past \subseteq DOMAIN more /\ \A n \in DOMAIN Past : more[n] = Past[n]
    <3>1. DOMAIN Past = 0..Len(found) /\ DOMAIN more = 0..Len(found')
      BY <2>3 DEF Past
    <3>2. ASSUME NEW n \in 0..Len(found) PROVE more[n] = Past[n]
      <4>1. n \in 0..Len(found')
        BY <1>0, <2>2
      <4>2. more[n] = Reported(n)' /\ Past[n] = Reported(n)
        BY <2>3, <4>1 DEF Past
      <4>3. n # 0 => found'[n] = found[n]
        BY <1>0, <2>2
      <4> QED
        BY <4>2, <4>3 DEF Reported
    <3> QED
      BY <1>0, <2>2, <3>1, <3>2
  <2>5. \A i \in Inits : Knows(init[i], more, cached)
    BY <2>4, KnowsLater DEF PromptInv
  <2> QED
    BY <2>1, <2>3, <2>5 DEF PromptInv
<1>20. ASSUME ObsExpires PROVE PromptInv'
  <2>1. Held
    BY <1>20 DEF ObsExpires, Held
  <2> QED
    BY <1>1, <1>20, <2>1 DEF ObsExpires, pageVars
<1>21. CASE UNCHANGED vars
  BY <1>1, <1>3, <1>21 DEF vars, pageVars, serverVars
<1> QED
  BY <1>6, <1>8, <1>9, <1>10, <1>11, <1>12, <1>13, <1>15, <1>16, <1>17, <1>18, <1>19,
     <1>20, <1>21
  DEF Next, PageWork, PollWork, Reload, Retry, Refresh

\* The page asks whether to go to the best node only when the server has not
\* chosen that very node: if it answered, knew the excluded tags, and chose from
\* statuses as new as those the page compares with, and no two nodes are equally
\* good in them, the page does not ask (network.js:57-76, 129-147 against
\* handleroutbound.go:95-170, with its cache of statuses).
THEOREM PromptsJustified == Spec => []PromptJustified
<1>1. Init => PromptInv
  <2> SUFFICES ASSUME Init PROVE PromptInv
    OBVIOUS
  <2>1. cached = {} /\ \A i \in Inits : init[i] = NoCall
    BY DEF Init
  <2>2. 0 \in DOMAIN Past
    BY TypeInit, FoundFacts DEF Past
  <2> QED
    BY <2>1, <2>2, KnowsNothing DEF PromptInv
<1>2. TypeOK /\ PromptInv /\ [Next]_vars => PromptInv'
  BY PromptStep
<1>3. TypeOK /\ PromptInv => PromptJustified
  <2> SUFFICES ASSUME TypeOK, PromptInv, NEW i \in Inits,
                      init[i].pc = "modal", Clear(init[i].list, init[i].seen)
               PROVE  init[i].failed \/ init[i].blind \/ init[i].asOf < init[i].seen
    BY DEF PromptJustified
  <2>1. Knows(init[i], Past, cached)
    BY DEF PromptInv
  <2>2. Past[init[i].seen] = Reported(init[i].seen)
    BY <2>1 DEF Past, Knows
  <2> QED
    BY <2>1, <2>2 DEF Knows, Clear, ClearOf
<1> QED
  BY <1>1, <1>2, <1>3, BrowserTypes, PTL DEF Spec

=============================================================================

------------------------- MODULE ServerStreamProofs -------------------------
EXTENDS ServerStream, SegmentPoolProofs, FiniteSetTheorems, WellFoundedInduction, TLAPS

-----------------------------------------------------------------------------
(* Induction over the natural numbers, for a set.                          *)

\* A set of natural numbers that is not empty has a least element.
LEMMA LeastNumber ==
    ASSUME NEW T \in SUBSET Nat, T # {}
    PROVE  \E x \in T : \A y \in T : x <= y
<1> DEFINE R == {ss \in Nat \X Nat : ss[1] < ss[2]}
<1>0. IsWellFoundedOn(R, Nat)
  BY NatLessThanWellFounded DEF OpToRel
<1> HIDE DEF R
<1>1. PICK x \in T : \A y \in T : ~(<<y, x>> \in R)
  BY <1>0, WFMin
<1>2. ASSUME NEW y \in T, ~(x <= y)
      PROVE  FALSE
  <2>1. y < x /\ x \in Nat /\ y \in Nat
    BY <1>2
  <2>2. <<y, x>> \in R
    BY <2>1 DEF R
  <2> QED
    BY <1>1, <2>2
<1> QED
  BY <1>2

\* A set that contains 0 and the successors of its numbers contains them all.
LEMMA InductiveSet ==
    ASSUME NEW T, 0 \in T, \A k \in Nat : k \in T => k + 1 \in T
    PROVE  Nat \subseteq T
<1>1. SUFFICES ASSUME Nat \ T # {}
               PROVE  FALSE
  OBVIOUS
<1>2. PICK x \in Nat \ T : \A y \in Nat \ T : x <= y
  BY <1>1, LeastNumber
<1>3. x # 0
  BY <1>2
<1>4. x - 1 \in Nat /\ ~(x <= x - 1)
  BY <1>2, <1>3
<1>5. x - 1 \in T
  BY <1>2, <1>4
<1>6. (x - 1) + 1 \in T
  BY <1>4, <1>5
<1> QED
  BY <1>2, <1>6

\* Min(S) and Max(S) are members of S.
LEMMA MinIsLeast ==
    ASSUME NEW S \in SUBSET Nat, S # {}
    PROVE  Min(S) \in S /\ \A y \in S : Min(S) <= y
<1>1. PICK x \in S : \A y \in S : x <= y
  BY LeastNumber
<1>2. \E z \in S : \A y \in S : z <= y
  BY <1>1
<1> QED
  BY <1>2 DEF Min

\* The greatest element of a set of numbers that is bounded and not empty.
LEMMA MaxIsGreatest ==
    ASSUME NEW k \in Nat, NEW S \in SUBSET (0..k), S # {}
    PROVE  Max(S) \in S /\ \A y \in S : Max(S) >= y
<1> DEFINE U == {u \in Nat : \A y \in S : u >= y}
<1>1. U \in SUBSET Nat /\ k \in U
  OBVIOUS
<1>2. PICK x \in U : \A y \in U : x <= y
  BY <1>1, LeastNumber
<1>3. x \in S
  <2>1. SUFFICES ASSUME x \notin S
                 PROVE  FALSE
    OBVIOUS
  <2>2. x # 0
    <3>1. PICK z \in S : TRUE
      OBVIOUS
    <3> QED
      BY <1>2, <2>1, <3>1
  <2>3. x - 1 \in U
    BY <1>2, <2>1, <2>2
  <2> QED
    BY <1>2, <2>3
<1>4. \E z \in S : \A y \in S : z >= y
  BY <1>2, <1>3
<1> QED
  BY <1>4 DEF Max

-----------------------------------------------------------------------------
(* referenceCount and the referenceMap.                                    *)

\* The sum of a map over the sessions
SumOf(f) == MapThenSumSet(LAMBDA c : f[c], Sessions)

Pick(t) == CHOOSE x \in t : TRUE

\* h[t] is the sum of f over the sessions in t.
Sums(f, h) ==
    h = [t \in SUBSET Sessions |->
            IF t = {} THEN 0 ELSE f[Pick(t)] + h[t \ {Pick(t)}]]

\* Taking the chosen session out of a set of sessions makes it smaller.
LEMMA PickSmaller ==
    ASSUME NEW t \in SUBSET Sessions, t # {}
    PROVE  /\ Pick(t) \in t
           /\ t \ {Pick(t)} \in SUBSET Sessions
           /\ IsFiniteSet(t) /\ Cardinality(t) \in Nat
           /\ Cardinality(t) = Cardinality(t \ {Pick(t)}) + 1
           /\ Cardinality(t \ {Pick(t)}) \in Nat
<1>1. IsFiniteSet(t)
  BY StreamAssumption, FS_Subset
<1>2. Pick(t) \in t
  BY DEF Pick
<1>3. /\ IsFiniteSet(t \ {Pick(t)})
      /\ Cardinality(t \ {Pick(t)}) = Cardinality(t) - 1
  BY <1>1, <1>2, FS_RemoveElement
<1> QED
  BY <1>1, <1>2, <1>3, FS_CardinalityType

\* The sum over the sessions is well defined.
LEMMA SumsExist ==
    ASSUME NEW f
    PROVE  \E h : Sums(f, h) /\ SumOf(f) = h[Sessions]
<1> DEFINE D(k) == {t \in SUBSET Sessions : Cardinality(t) <= k}
           R(h, k) == h = [t \in D(k) |->
                             IF t = {} THEN 0 ELSE f[Pick(t)] + h[t \ {Pick(t)}]]
           T == {k \in Nat : \E h : R(h, k)}
<1>1. \A t \in SUBSET Sessions : Cardinality(t) \in Nat
  BY StreamAssumption, FS_Subset, FS_CardinalityType
<1>2. 0 \in T
  <2>1. PICK h : h = [t \in D(0) |-> 0]
    OBVIOUS
  <2>2. \A t \in D(0) : t = {}
    BY <1>1, StreamAssumption, FS_Subset, FS_EmptySet
  <2>3. R(h, 0)
    BY <2>1, <2>2
  <2> QED
    BY <2>3
<1>3. ASSUME NEW k \in Nat, k \in T
      PROVE  k + 1 \in T
  <2>1. PICK h : R(h, k)
    BY <1>3
  <2>2. PICK g : g = [t \in D(k + 1) |->
                        IF t = {} THEN 0 ELSE f[Pick(t)] + h[t \ {Pick(t)}]]
    OBVIOUS
  <2>3. ASSUME NEW t \in D(k + 1), t # {}
        PROVE  h[t \ {Pick(t)}] = g[t \ {Pick(t)}]
    <3>1. t \ {Pick(t)} \in D(k) /\ t \ {Pick(t)} \in D(k + 1)
      BY <1>1, <2>3, PickSmaller
    <3> QED
      BY <2>1, <2>2, <3>1
  <2>4. R(g, k + 1)
    BY <2>2, <2>3
  <2> HIDE DEF R
  <2> QED
    BY <2>4
<1>4. Cardinality(Sessions) \in T
  <2>1. Cardinality(Sessions) \in Nat
    BY <1>1
  <2> HIDE DEF T
  <2> QED
    BY <1>2, <1>3, <2>1, InductiveSet
<1>5. D(Cardinality(Sessions)) = SUBSET Sessions
  BY StreamAssumption, FS_Subset
<1>6. \E h : Sums(f, h)
  BY <1>4, <1>5 DEF Sums
<1>7. SumOf(f) = (CHOOSE h : Sums(f, h))[Sessions]
  BY DEF SumOf, MapThenSumSet, MapThenFoldSet, Sums, Pick
<1> QED
  BY <1>6, <1>7

\* The sum is a natural number, and bounded by the bound of the map.
LEMMA SumBound ==
    ASSUME NEW b \in Nat, NEW f \in [Sessions -> 0..b]
    PROVE  SumOf(f) \in Nat /\ SumOf(f) <= b * Cardinality(Sessions)
<1>1. PICK h : Sums(f, h) /\ SumOf(f) = h[Sessions]
  BY SumsExist
<1> DEFINE T == {k \in Nat : \A t \in SUBSET Sessions :
                    Cardinality(t) = k => h[t] \in Nat /\ h[t] <= b * k}
<1>2. 0 \in T
  <2>1. ASSUME NEW t \in SUBSET Sessions, Cardinality(t) = 0
        PROVE  h[t] = 0
    <3>1. t = {}
      BY <2>1, StreamAssumption, FS_Subset, FS_EmptySet
    <3> QED
      BY <1>1, <3>1 DEF Sums
  <2> QED
    BY <2>1
<1>3. ASSUME NEW k \in Nat, k \in T
      PROVE  k + 1 \in T
  <2>1. ASSUME NEW t \in SUBSET Sessions, Cardinality(t) = k + 1
        PROVE  h[t] \in Nat /\ h[t] <= b * (k + 1)
    <3>1. t # {}
      BY <2>1, FS_EmptySet
    <3>2. PICK x : x = Pick(t)
      OBVIOUS
    <3>3. PICK u : u = t \ {x}
      OBVIOUS
    <3>4. u \in SUBSET Sessions /\ x \in Sessions /\ Cardinality(u) = k
      BY <2>1, <3>1, <3>2, <3>3, PickSmaller
    <3>5. h[u] \in Nat /\ h[u] <= b * k
      BY <1>3, <3>4
    <3>6. h[t] = f[x] + h[u]
      BY <1>1, <3>1, <3>2, <3>3 DEF Sums
    <3>7. f[x] \in Nat /\ f[x] <= b
      BY <3>4
    <3>8. b * (k + 1) = b * k + b /\ b * k \in Nat
      OBVIOUS
    <3> QED
      BY <3>5, <3>6, <3>7, <3>8
  <2> QED
    BY <2>1
<1>4. Cardinality(Sessions) \in T
  <2>1. Cardinality(Sessions) \in Nat
    BY StreamAssumption, FS_CardinalityType
  <2> HIDE DEF T
  <2> QED
    BY <1>2, <1>3, <2>1, InductiveSet
<1> QED
  BY <1>1, <1>4

\* A change of the map at one session changes the sum by the difference.
LEMMA SumUpdate ==
    ASSUME NEW f \in [Sessions -> Nat], NEW g \in [Sessions -> Nat],
           NEW c \in Sessions, \A x \in Sessions \ {c} : g[x] = f[x]
    PROVE  /\ SumOf(f) \in Nat /\ SumOf(g) \in Nat
           /\ SumOf(g) = SumOf(f) - f[c] + g[c]
<1>1. PICK h : Sums(f, h) /\ SumOf(f) = h[Sessions]
  BY SumsExist
<1>2. PICK j : Sums(g, j) /\ SumOf(g) = j[Sessions]
  BY SumsExist
<1> DEFINE Same(t) == /\ h[t] \in Nat /\ j[t] \in Nat
                      /\ j[t] = IF c \in t THEN h[t] - f[c] + g[c] ELSE h[t]
           T == {k \in Nat : \A t \in SUBSET Sessions :
                    Cardinality(t) = k => Same(t)}
<1>3. 0 \in T
  <2>1. ASSUME NEW t \in SUBSET Sessions, Cardinality(t) = 0
        PROVE  Same(t)
    <3>1. t = {}
      BY <2>1, StreamAssumption, FS_Subset, FS_EmptySet
    <3>2. h[t] = 0 /\ j[t] = 0
      BY <1>1, <1>2, <3>1 DEF Sums
    <3> QED
      BY <3>1, <3>2
  <2> QED
    BY <2>1
<1>4. ASSUME NEW k \in Nat, k \in T
      PROVE  k + 1 \in T
  <2>1. ASSUME NEW t \in SUBSET Sessions, Cardinality(t) = k + 1
        PROVE  Same(t)
    <3>1. t # {}
      BY <2>1, FS_EmptySet
    <3>2. PICK x : x = Pick(t)
      OBVIOUS
    <3>3. PICK u : u = t \ {x}
      OBVIOUS
    <3>4. u \in SUBSET Sessions /\ x \in t /\ x \in Sessions /\ Cardinality(u) = k
      BY <2>1, <3>1, <3>2, <3>3, PickSmaller
    <3>5. Same(u)
      BY <1>4, <3>4
    <3>6. h[t] = f[x] + h[u] /\ j[t] = g[x] + j[u]
      BY <1>1, <1>2, <3>1, <3>2, <3>3 DEF Sums
    <3>7. f[x] \in Nat /\ g[x] \in Nat /\ f[c] \in Nat /\ g[c] \in Nat
      BY <3>4
    <3>8. CASE x = c
      <4>1. c \notin u /\ c \in t
        BY <3>3, <3>4, <3>8
      <4> QED
        BY <3>5, <3>6, <3>7, <3>8, <4>1
    <3>9. CASE x # c
      <4>1. (c \in u <=> c \in t) /\ g[x] = f[x]
        BY <3>3, <3>4, <3>9
      <4>2. j[t] = IF c \in t THEN h[t] - f[c] + g[c] ELSE h[t]
        BY <3>5, <3>6, <3>7, <4>1
      <4> QED
        BY <3>5, <3>6, <3>7, <4>2
    <3> QED
      BY <3>8, <3>9
  <2> HIDE DEF Same
  <2> QED
    BY <2>1
<1>5. Cardinality(Sessions) \in T
  <2>1. Cardinality(Sessions) \in Nat
    BY StreamAssumption, FS_CardinalityType
  <2> HIDE DEF T
  <2> QED
    BY <1>3, <1>4, <2>1, InductiveSet
<1>6. Same(Sessions)
  <2> HIDE DEF Same
  <2> QED
    BY <1>5
<1> QED
  BY <1>1, <1>2, <1>6

\* No member and no two members of the map exceed the sum.
LEMMA SumMember ==
    ASSUME NEW f \in [Sessions -> Nat], NEW a \in Sessions, NEW b \in Sessions
    PROVE  f[a] <= SumOf(f) /\ (a # b => f[a] + f[b] <= SumOf(f))
<1>1. PICK g : g = [f EXCEPT ![a] = 0]
  OBVIOUS
<1>2. PICK j : j = [g EXCEPT ![b] = 0]
  OBVIOUS
<1>3. g \in [Sessions -> Nat] /\ j \in [Sessions -> Nat]
  BY <1>1, <1>2
<1>4. SumOf(f) \in Nat /\ SumOf(g) \in Nat /\ SumOf(g) = SumOf(f) - f[a] + 0
  <2>1. g[a] = 0 /\ \A x \in Sessions \ {a} : g[x] = f[x]
    BY <1>1
  <2> QED
    BY <1>3, <2>1, SumUpdate
<1>5. SumOf(j) \in Nat /\ SumOf(j) = SumOf(g) - g[b] + 0
  <2>1. j[b] = 0 /\ \A x \in Sessions \ {b} : j[x] = g[x]
    BY <1>2, <1>3
  <2> QED
    BY <1>3, <2>1, SumUpdate
<1>6. a # b => g[b] = f[b]
  BY <1>1
<1>7. f[a] \in Nat /\ f[b] \in Nat /\ g[b] \in Nat
  BY <1>3
<1> QED
  BY <1>4, <1>5, <1>6, <1>7

\* Nobody has a reference: the sum is zero.
LEMMA SumNoRefs == SumOf(NoRefs) = 0
<1>1. NoRefs \in [Sessions -> 0..0]
  BY DEF NoRefs
<1>2. SumOf(NoRefs) \in Nat /\ SumOf(NoRefs) <= 0 * Cardinality(Sessions)
  BY <1>1, SumBound
<1>3. Cardinality(Sessions) \in Nat
  BY StreamAssumption, FS_CardinalityType
<1> QED
  BY <1>2, <1>3

-----------------------------------------------------------------------------
(* The list of segments to read ahead.                                     *)

\* The segment that follows n is a later one.
LEMMA NextIsLater ==
    ASSUME NEW n \in Sqns
    PROVE  NextSegment(n) = NoSqn \/ (NextSegment(n) \in Sqns /\ NextSegment(n) > n)
<1> DEFINE later == {m \in Sqns : m > n /\ loc[m] # NoLoc}
<1>1. later \in SUBSET Nat
  BY StreamAssumption DEF Sqns
<1>2. NextSegment(n) = IF later = {} THEN NoSqn ELSE Min(later)
  BY DEF NextSegment
<1>3. later # {} => Min(later) \in later
  <2> HIDE DEF later
  <2> QED
    BY <1>1, MinIsLeast
<1> QED
  BY <1>2, <1>3

\* h[k] is the k-th segment after n, or NoSqn behind the end of the stream.
Follow(n, h, last) ==
    h = [k \in 0..last |->
            IF k = 0 THEN n
            ELSE IF h[k - 1] = NoSqn THEN NoSqn ELSE NextSegment(h[k - 1])]

\* A list of the segments that follow n exists, for every length.
LEMMA FollowExists ==
    ASSUME NEW n, NEW last \in Nat
    PROVE  \E h : Follow(n, h, last)
<1> DEFINE T == {k \in Nat : \E h : Follow(n, h, k)}
<1>1. 0 \in T
  <2>1. PICK h : h = [k \in 0..0 |-> n]
    OBVIOUS
  <2>2. Follow(n, h, 0)
    BY <2>1 DEF Follow
  <2> QED
    BY <2>2
<1>2. ASSUME NEW k \in Nat, k \in T
      PROVE  k + 1 \in T
  <2>1. PICK h : Follow(n, h, k)
    BY <1>2
  <2>2. PICK g : g = [i \in 0..(k + 1) |->
                        IF i = 0 THEN n
                        ELSE IF h[i - 1] = NoSqn THEN NoSqn ELSE NextSegment(h[i - 1])]
    OBVIOUS
  <2>3. ASSUME NEW i \in 0..(k + 1), i # 0
        PROVE  h[i - 1] = g[i - 1]
    <3>1. i - 1 \in 0..k /\ i - 1 \in 0..(k + 1)
      BY <2>3
    <3> QED
      BY <2>1, <2>2, <3>1 DEF Follow
  <2>4. Follow(n, g, k + 1)
    BY <2>2, <2>3 DEF Follow
  <2> QED
    BY <2>4
<1> HIDE DEF T
<1>3. last \in T
  BY <1>1, <1>2, InductiveSet
<1> QED
  BY <1>3 DEF T

\* A list of at most ReadAheadAmount segments, all behind n.
LEMMA ReadAheadMembers ==
    ASSUME NEW n \in Sqns
    PROVE  \E k \in 0..ReadAheadAmount :
              /\ ReadAheadList(n) \in [1..k -> Sqns]
              /\ \A i \in 1..k : ReadAheadList(n)[i] > n
<1> DEFINE R == ReadAheadAmount
<1>1. R \in Nat
  BY StreamAssumption
<1>2. PICK h : /\ Follow(n, h, R)
               /\ ReadAheadList(n) =
                    [k \in 1..Cardinality({k \in 1..R : h[k] # NoSqn}) |-> h[k]]
  <2>1. \E h : Follow(n, h, R)
    BY <1>1, FollowExists
  <2>2. PICK h : h = CHOOSE g : Follow(n, g, R)
    OBVIOUS
  <2>3. ReadAheadList(n) =
                    [k \in 1..Cardinality({k \in 1..R : h[k] # NoSqn}) |-> h[k]]
    BY <2>2 DEF ReadAheadList, Follow
  <2> QED
    BY <2>1, <2>2, <2>3
<1> DEFINE found == {k \in 1..R : h[k] # NoSqn}
           T == {k \in Nat : k <= R =>
                   \/ h[k] = NoSqn
                   \/ h[k] \in Sqns /\ h[k] >= n /\ (k > 0 => h[k] > n)}
           U == {k \in Nat : \A i \in 0..R : i - k \in 0..R /\ h[i] # NoSqn => h[i - k] # NoSqn}
<1>3. 0 \in T
  BY <1>1, <1>2, StreamAssumption DEF Follow, Sqns
<1>4. ASSUME NEW k \in Nat, k \in T
      PROVE  k + 1 \in T
  <2>1. SUFFICES ASSUME k + 1 <= R
                 PROVE  \/ h[k + 1] = NoSqn
                        \/ h[k + 1] \in Sqns /\ h[k + 1] > n
    BY StreamAssumption DEF Sqns
  <2>2. /\ k \in 0..R /\ k + 1 \in 0..R
        /\ h[k + 1] = IF h[k] = NoSqn THEN NoSqn ELSE NextSegment(h[k])
    BY <1>1, <1>2, <2>1 DEF Follow
  <2>3. CASE h[k] = NoSqn
    BY <2>2, <2>3
  <2>4. CASE h[k] # NoSqn
    <3>1. h[k] \in Sqns /\ h[k] >= n
      BY <1>4, <2>2, <2>4
    <3>2. PICK x : x = h[k]
      OBVIOUS
    <3>3. x \in Sqns /\ x >= n /\ h[k + 1] = NextSegment(x)
      BY <2>2, <2>4, <3>1, <3>2
    <3>4. NextSegment(x) = NoSqn \/ (NextSegment(x) \in Sqns /\ NextSegment(x) > x)
      BY <3>3, NextIsLater
    <3> QED
      BY <3>3, <3>4, StreamAssumption DEF Sqns
  <2> QED
    BY <2>3, <2>4
<1>5. \A k \in found : h[k] \in Sqns /\ h[k] > n
  <2> HIDE DEF T
  <2>1. Nat \subseteq T
    BY <1>3, <1>4, InductiveSet
  <2> QED
    BY <1>1, <2>1 DEF T
<1>6. 0 \in U
  OBVIOUS
<1>7. ASSUME NEW k \in Nat, k \in U
      PROVE  k + 1 \in U
  <2>1. SUFFICES ASSUME NEW i \in 0..R, i - (k + 1) \in 0..R, h[i] # NoSqn
                 PROVE  h[i - (k + 1)] # NoSqn
    OBVIOUS
  <2>2. i - k \in 0..R /\ i - k # 0 /\ (i - k) - 1 = i - (k + 1)
    BY <1>1, <2>1
  <2>3. h[i - k] # NoSqn
    BY <1>7, <2>1, <2>2
  <2>4. h[i - k] = IF i - k = 0 THEN n
                   ELSE IF h[(i - k) - 1] = NoSqn THEN NoSqn ELSE NextSegment(h[(i - k) - 1])
    BY <1>2, <2>2 DEF Follow
  <2> QED
    BY <2>2, <2>3, <2>4
<1>8. ASSUME NEW i \in found, NEW k \in 1..i
      PROVE  k \in found
  <2> HIDE DEF U
  <2>1. Nat \subseteq U
    BY <1>6, <1>7, InductiveSet
  <2>2. i - k \in Nat /\ i - (i - k) = k /\ i \in 0..R /\ k \in 0..R
    BY <1>1, <1>8
  <2>3. i - k \in U
    BY <2>1, <2>2
  <2> QED
    BY <1>1, <1>8, <2>2, <2>3 DEF U
<1>9. Cardinality(found) \in 0..R
  <2>1. IsFiniteSet(1..R) /\ Cardinality(1..R) = R
    BY <1>1, FS_Interval
  <2>2. found \in SUBSET (1..R)
    OBVIOUS
  <2> HIDE DEF found
  <2>3. IsFiniteSet(found) /\ Cardinality(found) <= R
    BY <2>1, <2>2, FS_Subset
  <2> QED
    BY <1>1, <2>3, FS_CardinalityType
<1>10. ASSUME NEW k \in 1..Cardinality(found), k \notin found
       PROVE  FALSE
  <2>1. found \in SUBSET (1..(k - 1))
    <3>1. ASSUME NEW i \in found
          PROVE  i \in 1..(k - 1)
      <4>1. k \notin 1..i
        BY <1>8, <1>10
      <4> QED
        BY <1>1, <1>9, <1>10, <4>1
    <3> QED
      BY <3>1
  <2>2. k \in Nat /\ k >= 1 /\ k <= Cardinality(found) /\ Cardinality(found) \in Nat
    BY <1>1, <1>9, <1>10
  <2> HIDE DEF found
  <2>3. PICK m \in Nat : m = k - 1
    BY <2>2
  <2>4. /\ IsFiniteSet(1..m)
        /\ Cardinality(1..m) = IF 1 > m THEN 0 ELSE m - 1 + 1
    BY <2>3, FS_Interval
  <2>5. Cardinality(found) <= Cardinality(1..m)
    BY <2>1, <2>3, <2>4, FS_Subset
  <2> QED
    BY <2>2, <2>3, <2>4, <2>5
<1>11. PICK k \in 0..R : k = Cardinality(found)
  BY <1>9
<1>12. \A i \in 1..k : i \in found
  BY <1>10, <1>11
<1>13. ReadAheadList(n) = [i \in 1..k |-> h[i]]
  BY <1>2, <1>11
<1> HIDE DEF found
<1>14. /\ ReadAheadList(n) \in [1..k -> Sqns]
       /\ \A i \in 1..k : ReadAheadList(n)[i] > n
  BY <1>5, <1>12, <1>13
<1> QED
  BY <1>14

-----------------------------------------------------------------------------
(* One location: what holds of it, and what the operations do to it.       *)

\* What is always true of the location l of segment n, if ol is the open
\* list, ts are the work items, and "busy" says what the holder of _openLock
\* is doing with n: "no", or it is in _open for a read ahead or for an open,
\* and the load is complete or not.
LocGood(l, n, ol, ts, busy) ==
    /\ l \in LocType
    /\ l.count = SumOf(l.refs)
    /\ n \in ol <=> l.count > 0
    /\ l.id = NoSegment \/ l.sideId = NoSegment
    /\ l.count > 0 => l.id # NoSegment \/ l.sideId # NoSegment
    /\ l.id # NoSegment => ~l.cancel /\ ~l.prefetched
    /\ l.prefetched /\ l.sideId # NoSegment => l.cancel
    /\ l.prefetched => l.count <= 1
    /\ ~l.stored => l.count = 1 /\ ~l.prefetched
    /\ <<"write", n>> \in ts <=> ~l.stored /\ l.sideId # NoSegment
    /\ <<"read", n>> \in ts => l.stored /\ l.sideId # NoSegment
    /\ l.stored /\ l.sideId # NoSegment =>
          \/ <<"read", n>> \in ts \/ <<"failed", n>> \in ts
          \/ busy \in {"openDone", "aheadDone"}
    /\ <<"failed", n>> \in ts =>
          l.stored /\ l.sideId # NoSegment /\ <<"read", n>> \notin ts
    /\ busy # "no" => l.stored /\ l.count = 0
    /\ busy = "no" /\ l.count = 0 => l.id = NoSegment /\ l.sideId = NoSegment
    /\ busy \in {"openDone", "aheadDone"} => l.id = NoSegment /\ <<"read", n>> \notin ts /\ <<"failed", n>> \notin ts
    /\ busy \in {"open", "openDone"} => ~l.cancel /\ ~l.prefetched
    /\ busy \in {"ahead", "aheadDone"} => l.prefetched /\ l.id = NoSegment

\* The fields of a location.
LEMMA LocFields ==
    ASSUME NEW l \in LocType
    PROVE  /\ l.stored \in BOOLEAN /\ l.cancel \in BOOLEAN /\ l.prefetched \in BOOLEAN
           /\ l.id \in Segments \cup {NoSegment} /\ l.sideId \in Segments \cup {NoSegment}
           /\ l.count \in Nat /\ l.refs \in [Sessions -> 0..MaxRefs]
           /\ l.refs \in [Sessions -> Nat]
           /\ l.waits \in SUBSET Sessions
<1>1. MaxRefs \in Nat
  BY StreamAssumption
<1>2. Cardinality(Sessions) \in Nat
  BY StreamAssumption, FS_CardinalityType
<1>3. MaxRefs * Cardinality(Sessions) \in Nat
  BY <1>1, <1>2
<1>4. l.refs \in [Sessions -> 0..MaxRefs] => l.refs \in [Sessions -> Nat]
  BY <1>1
<1> QED
  BY <1>3, <1>4 DEF LocType

\* The count of references is in its bounds.
LEMMA CountBound ==
    ASSUME NEW refs \in [Sessions -> 0..MaxRefs]
    PROVE  SumOf(refs) \in 0..(MaxRefs * Cardinality(Sessions))
<1>1. SumOf(refs) \in Nat /\ SumOf(refs) <= MaxRefs * Cardinality(Sessions)
  BY SumBound, StreamAssumption
<1>2. MaxRefs * Cardinality(Sessions) \in Nat
  BY StreamAssumption, FS_CardinalityType
<1> QED
  BY <1>1, <1>2

\* A record of the fields of a location is one, if its count is its sum.
LEMMA LocOfFields ==
    ASSUME NEW st \in BOOLEAN, NEW i \in Segments \cup {NoSegment},
           NEW d \in Segments \cup {NoSegment}, NEW ca \in BOOLEAN,
           NEW pr \in BOOLEAN, NEW refs \in [Sessions -> 0..MaxRefs],
           NEW w \in SUBSET Sessions
    PROVE  [stored |-> st, id |-> i, sideId |-> d, cancel |-> ca, prefetched |-> pr,
            count |-> SumOf(refs), refs |-> refs, waits |-> w] \in LocType
  BY CountBound DEF LocType

\* NewLoc
LEMMA NewLocGood ==
    ASSUME NEW c \in Sessions, NEW s \in Segments, NEW n \in Sqns,
           NEW ol, n \in ol, NEW ts,
           <<"write", n>> \notin ts, <<"read", n>> \notin ts, <<"failed", n>> \notin ts,
           NEW l, l = NewLoc(c, s)
    PROVE  /\ LocGood(l, n, ol, ts, "no")
           /\ ~l.stored /\ l.id = s /\ l.sideId = NoSegment /\ l.waits = {}
           /\ l.refs[c] = 1 /\ \A d \in Sessions \ {c} : l.refs[d] = 0
<1>1. PICK r : r = [NoRefs EXCEPT ![c] = 1]
  OBVIOUS
<1>2. /\ r \in [Sessions -> 0..MaxRefs] /\ r \in [Sessions -> Nat]
      /\ NoRefs \in [Sessions -> Nat] /\ NoRefs[c] = 0
      /\ r[c] = 1 /\ \A d \in Sessions \ {c} : r[d] = 0 /\ r[d] = NoRefs[d]
  BY <1>1, StreamAssumption DEF NoRefs
<1>3. SumOf(r) = 1
  <2>1. SumOf(r) = SumOf(NoRefs) - NoRefs[c] + r[c]
    BY <1>2, SumUpdate
  <2> QED
    BY <1>2, <2>1, SumNoRefs
<1>4. l = [stored |-> FALSE, id |-> s, sideId |-> NoSegment, cancel |-> FALSE,
           prefetched |-> FALSE, count |-> SumOf(r), refs |-> r, waits |-> {}]
  BY <1>1, <1>3 DEF NewLoc
<1>5. l \in LocType
  <2>1. SumOf(r) \in 0..(MaxRefs * Cardinality(Sessions))
    BY <1>2, CountBound
  <2> QED
    BY <1>2, <1>4, <2>1 DEF LocType
<1> QED
  BY <1>2, <1>3, <1>4, <1>5, PoolAssumption DEF LocGood

\* StoredLoc
LEMMA StoredLocGood ==
    ASSUME NEW n \in Sqns
    PROVE  LocGood(StoredLoc, n, {}, {}, "no")
<1>1. NoRefs \in [Sessions -> 0..MaxRefs]
  BY StreamAssumption DEF NoRefs
<1>2. StoredLoc \in LocType
  BY <1>1, SumNoRefs, LocOfFields DEF StoredLoc
<1> QED
  BY <1>2, SumNoRefs DEF LocGood, StoredLoc

\* Reference
LEMMA ReferenceFields ==
    ASSUME NEW l \in LocType, l.count = SumOf(l.refs), NEW c \in Sessions,
           l.refs[c] < MaxRefs, NEW m, m = Reference(l, c)
    PROVE  /\ m \in LocType /\ m.count = l.count + 1 /\ m.count = SumOf(m.refs)
           /\ m.refs[c] = l.refs[c] + 1
           /\ \A d \in Sessions \ {c} : m.refs[d] = l.refs[d]
           /\ m.stored = l.stored /\ m.id = l.id /\ m.sideId = l.sideId
           /\ m.cancel = l.cancel /\ m.prefetched = l.prefetched /\ m.waits = l.waits
<1>1. PICK r : r = [l.refs EXCEPT ![c] = l.refs[c] + 1]
  OBVIOUS
<1>2. /\ l.refs \in [Sessions -> Nat] /\ l.refs \in [Sessions -> 0..MaxRefs]
      /\ l.count \in Nat
  BY LocFields
<1>3. /\ r \in [Sessions -> 0..MaxRefs] /\ r \in [Sessions -> Nat]
      /\ r[c] = l.refs[c] + 1 /\ \A d \in Sessions \ {c} : r[d] = l.refs[d]
  BY <1>1, <1>2, StreamAssumption
<1>4. SumOf(r) = l.count + 1
  <2>1. SumOf(r) = SumOf(l.refs) - l.refs[c] + r[c]
    BY <1>2, <1>3, SumUpdate
  <2>2. l.refs[c] \in Nat
    BY <1>2
  <2> QED
    BY <1>2, <1>3, <2>1, <2>2
<1>5. m = [stored |-> l.stored, id |-> l.id, sideId |-> l.sideId, cancel |-> l.cancel,
           prefetched |-> l.prefetched, count |-> SumOf(r), refs |-> r,
           waits |-> l.waits]
  BY <1>1, <1>4 DEF Reference, LocType
<1>6. m \in LocType
  BY <1>3, <1>4, <1>5, LocFields, LocOfFields
<1> QED
  BY <1>3, <1>4, <1>5, <1>6

\* Unreferenced
LEMMA UnreferencedFields ==
    ASSUME NEW l \in LocType, NEW m, m = Unreferenced(l)
    PROVE  /\ m \in LocType /\ m.count = 0 /\ m.count = SumOf(m.refs)
           /\ \A d \in Sessions : m.refs[d] = 0
           /\ m.stored = l.stored /\ m.id = NoSegment /\ m.sideId = NoSegment
           /\ ~m.cancel /\ m.prefetched = l.prefetched /\ m.waits = l.waits
<1>1. /\ NoRefs \in [Sessions -> 0..MaxRefs]
      /\ \A d \in Sessions : NoRefs[d] = 0
  BY StreamAssumption DEF NoRefs
<1>2. m = [stored |-> l.stored, id |-> NoSegment, sideId |-> NoSegment,
           cancel |-> FALSE, prefetched |-> l.prefetched, count |-> 0,
           refs |-> NoRefs, waits |-> l.waits]
  BY DEF Unreferenced, LocType
<1>3. 0 \in 0..(MaxRefs * Cardinality(Sessions))
  BY <1>1, CountBound, SumNoRefs
<1>4. m \in LocType
  BY <1>1, <1>2, <1>3, LocFields DEF LocType
<1> QED
  BY <1>1, <1>2, <1>4, SumNoRefs

\* The waiters of a location can be anybody.
LEMMA WaitsFields ==
    ASSUME NEW l \in LocType, NEW w \in SUBSET Sessions,
           NEW m, m = [l EXCEPT !.waits = w]
    PROVE  /\ m \in LocType /\ m.waits = w
           /\ m.stored = l.stored /\ m.id = l.id /\ m.sideId = l.sideId
           /\ m.cancel = l.cancel /\ m.prefetched = l.prefetched
           /\ m.count = l.count /\ m.refs = l.refs
  BY DEF LocType

\* A location that is referenced: some of the references of c are dropped.
Released(l, c, k) == [l EXCEPT !.count = @ - k, !.refs[c] = @ - k]

\* Releasing k references of a session takes k from its own count and from the
\* count of the location, and leaves the rest (StreamSegmentLocation).
LEMMA ReleasedFields ==
    ASSUME NEW l \in LocType, l.count = SumOf(l.refs), NEW c \in Sessions,
           NEW k \in 1..l.refs[c],
           NEW m, m = Released(l, c, k)
    PROVE  /\ m \in LocType /\ m.count = l.count - k /\ m.count = SumOf(m.refs)
           /\ m.refs[c] = l.refs[c] - k
           /\ \A d \in Sessions \ {c} : m.refs[d] = l.refs[d]
           /\ m.stored = l.stored /\ m.id = l.id /\ m.sideId = l.sideId
           /\ m.cancel = l.cancel /\ m.prefetched = l.prefetched /\ m.waits = l.waits
<1>1. PICK r : r = [l.refs EXCEPT ![c] = l.refs[c] - k]
  OBVIOUS
<1>2. /\ l.refs \in [Sessions -> Nat] /\ l.refs \in [Sessions -> 0..MaxRefs]
      /\ l.count \in Nat
  BY LocFields
<1>3. /\ r \in [Sessions -> 0..MaxRefs] /\ r \in [Sessions -> Nat]
      /\ r[c] = l.refs[c] - k /\ \A d \in Sessions \ {c} : r[d] = l.refs[d]
  BY <1>1, <1>2, StreamAssumption
<1>4. SumOf(r) = l.count - k
  <2>1. SumOf(r) = SumOf(l.refs) - l.refs[c] + r[c]
    BY <1>2, <1>3, SumUpdate
  <2>2. l.refs[c] \in Nat
    BY <1>2
  <2> QED
    BY <1>2, <1>3, <2>1, <2>2
<1>5. m = [stored |-> l.stored, id |-> l.id, sideId |-> l.sideId, cancel |-> l.cancel,
           prefetched |-> l.prefetched, count |-> SumOf(r), refs |-> r,
           waits |-> l.waits]
  BY <1>1, <1>4 DEF Released, LocType
<1>6. m \in LocType
  BY <1>3, <1>5, LocFields, CountBound DEF LocType
<1>7. /\ m.count = SumOf(r) /\ m.refs = r
      /\ m.stored = l.stored /\ m.id = l.id /\ m.sideId = l.sideId
      /\ m.cancel = l.cancel /\ m.prefetched = l.prefetched /\ m.waits = l.waits
  BY <1>5
<1> QED
  BY <1>3, <1>4, <1>6, <1>7

\* SharedLoc, for a location that is open
LEMMA SharedFields ==
    ASSUME NEW l \in LocType, l.count = SumOf(l.refs), NEW c \in Sessions,
           l.refs[c] < MaxRefs, l.count > 0, l.prefetched => l.count <= 1,
           NEW m, m = SharedLoc(l, c)
    PROVE  /\ m \in LocType /\ m.count > 0 /\ m.count = SumOf(m.refs)
           /\ m.refs[c] > 0
           /\ ~l.prefetched => /\ m.refs[c] = l.refs[c] + 1
                               /\ \A d \in Sessions \ {c} : m.refs[d] = l.refs[d]
           /\ l.prefetched => \A d \in Sessions \ {c} : m.refs[d] = 0
           /\ m.stored = l.stored /\ m.id = l.id /\ m.sideId = l.sideId
           /\ ~m.cancel /\ ~m.prefetched /\ m.waits = l.waits
<1>1. CASE l.prefetched
  <2>1. PICK r : r = [NoRefs EXCEPT ![c] = 1]
    OBVIOUS
  <2>2. /\ r \in [Sessions -> 0..MaxRefs] /\ r \in [Sessions -> Nat]
        /\ NoRefs \in [Sessions -> Nat] /\ NoRefs[c] = 0
        /\ r[c] = 1 /\ \A d \in Sessions \ {c} : r[d] = 0 /\ r[d] = NoRefs[d]
    BY <2>1, StreamAssumption DEF NoRefs
  <2>3. SumOf(r) = 1
    <3>1. SumOf(r) = SumOf(NoRefs) - NoRefs[c] + r[c]
      BY <2>2, SumUpdate
    <3> QED
      BY <2>2, <3>1, SumNoRefs
  <2>4. l.count = 1
    BY <1>1, LocFields
  <2>5. m = [stored |-> l.stored, id |-> l.id, sideId |-> l.sideId, cancel |-> FALSE,
             prefetched |-> FALSE, count |-> SumOf(r), refs |-> r, waits |-> l.waits]
    BY <1>1, <2>1, <2>3, <2>4 DEF SharedLoc, LocType
  <2>6. m \in LocType
    BY <2>2, <2>5, LocFields, CountBound DEF LocType
  <2> QED
    BY <1>1, <2>2, <2>3, <2>5, <2>6
<1>2. CASE ~l.prefetched
  <2>1. PICK r : r = Reference(l, c)
    OBVIOUS
  <2>2. /\ r \in LocType /\ r.count = l.count + 1 /\ r.count = SumOf(r.refs)
        /\ r.refs[c] = l.refs[c] + 1
        /\ \A d \in Sessions \ {c} : r.refs[d] = l.refs[d]
        /\ r.stored = l.stored /\ r.id = l.id /\ r.sideId = l.sideId
        /\ r.cancel = l.cancel /\ r.prefetched = l.prefetched /\ r.waits = l.waits
    BY <2>1, ReferenceFields
  <2>3. m = [r EXCEPT !.cancel = FALSE]
    BY <1>2, <2>1 DEF SharedLoc
  <2>4. /\ m \in LocType /\ ~m.cancel /\ m.count = r.count /\ m.refs = r.refs
        /\ m.stored = r.stored /\ m.id = r.id /\ m.sideId = r.sideId
        /\ m.prefetched = r.prefetched /\ m.waits = r.waits
    BY <2>2, <2>3 DEF LocType
  <2>5. l.count \in Nat /\ l.refs[c] \in Nat
    BY LocFields
  <2> QED
    BY <1>2, <2>2, <2>4, <2>5
<1> QED
  BY <1>1, <1>2

-----------------------------------------------------------------------------
(* The invariant of the locations and the threads.                         *)

\* What the holder of _openLock is doing with a location between the request
\* to the buffer and the end of _open
Busy(n) ==
    LET c == openLock
    IN  IF c \in Sessions /\ th[c].pc = "openEnd" /\ th[c].sqn = n
        THEN IF th[c].complete THEN "openDone" ELSE "open"
        ELSE IF c \in Sessions /\ th[c].pc = "aheadEnd" /\ Head(th[c].ahead) = n
        THEN IF th[c].complete THEN "aheadDone" ELSE "ahead"
        ELSE "no"

LocOK(n) ==
    IF loc[n] = NoLoc
    THEN /\ n \notin openList
         /\ <<"write", n>> \notin tasks /\ <<"read", n>> \notin tasks /\ <<"failed", n>> \notin tasks
         /\ Busy(n) = "no"
    ELSE LocGood(loc[n], n, openList, tasks, Busy(n))

LocInv == \A n \in Sqns : LocOK(n)

\* The thread has its reference to the segment it opens.
Joined(t) ==
    \/ t.pc = "wait"
    \/ t.pc \in {"ahead", "aheadEnd"} /\ t.handled

ThreadGood(c) ==
    LET t == th[c]
    IN  /\ t \in ThreadType
        /\ t.pc \in {"ahead", "aheadEnd", "openEnd"} => openLock = c
        /\ t.pc \in {"append", "add"} => appendLock = c
        /\ t.pc = "detach" => lock = c /\ t.todo \subseteq openList
        /\ t.seg # NoSegment => /\ t.pc \in {"append", "add"}
                                /\ t.sqn \in Sqns /\ loc[t.sqn] = NoLoc
        /\ t.pc = "add" => t.seg # NoSegment
        /\ t.pc = "append" /\ t.seg = NoSegment => lastSqn < MaxSqn
        /\ t.pc \in {"ahead", "aheadEnd", "openEnd", "wait"} =>
              t.sqn \in Sqns /\ loc[t.sqn] # NoLoc /\ loc[t.sqn].stored
        /\ t.pc \notin {"ahead", "aheadEnd"} => t.ahead = <<>>
        /\ \A i \in DOMAIN t.ahead : t.ahead[i] # t.sqn
        /\ t.pc = "aheadEnd" => t.ahead # <<>>
        /\ t.pc = "aheadEnd" => loc[Head(t.ahead)] # NoLoc
        /\ t.pc \in {"ahead", "aheadEnd"} /\ ~t.handled => loc[t.sqn].count = 0
        /\ Joined(t) => /\ loc[t.sqn].refs[c] > 0
                        /\ ~loc[t.sqn].prefetched /\ ~loc[t.sqn].cancel

AppendInv ==
    /\ lastAppend # NoSqn => /\ loc[lastAppend] # NoLoc
                             /\ ~loc[lastAppend].stored
                             /\ loc[lastAppend].id # NoSegment
    /\ \A n \in Sqns : n > lastSqn => loc[n] = NoLoc

BaseInv ==
    /\ openList \in SUBSET Sqns
    /\ lastSqn \in Sqns \cup {NoSqn}
    /\ lastAppend \in Sqns \cup {NoSqn}
    /\ tasks \in SUBSET ({"read", "write", "failed"} \X Sqns)
    /\ openLock \in Sessions \cup {NoSession}
    /\ appendLock \in Sessions \cup {NoSession}
    /\ lock \in Sessions \cup {NoSession}
    /\ view \in [Sessions -> [Sqns -> Segments \cup {NoSegment}]]
    /\ crashed \in BOOLEAN
    /\ loc = [n \in Sqns |-> loc[n]] /\ th = [c \in Sessions |-> th[c]]

ThreadInv == \A c \in Sessions : ThreadGood(c)

StreamInv == BaseInv /\ LocInv /\ AppendInv /\ ThreadInv

-----------------------------------------------------------------------------
(* The records of the threads.                                             *)

AheadLists == UNION {[1..k -> Sqns] : k \in 0..ReadAheadAmount}

\* A sequence is a function on the numbers up to its length.
LEMMA ListIsFunction ==
    ASSUME NEW S, NEW q \in Seq(S), NEW m, m = Len(q)
    PROVE  q \in [1..m -> S]
  OBVIOUS

\* The list of segments that are still to be read ahead, and what is left of it
\* after its head.
LEMMA AheadFields ==
    ASSUME NEW a \in AheadLists
    PROVE  /\ a \in Seq(Sqns)
           /\ <<>> \in AheadLists
           /\ a # <<>> => /\ Tail(a) \in AheadLists
                          /\ Head(a) \in Sqns /\ Head(a) = a[1] /\ 1 \in DOMAIN a
                          /\ \A i \in DOMAIN Tail(a) : i + 1 \in DOMAIN a /\ Tail(a)[i] = a[i + 1]
<1>1. PICK k \in 0..ReadAheadAmount : a \in [1..k -> Sqns]
  BY DEF AheadLists
<1>2. k \in Nat
  BY <1>1, StreamAssumption
<1>3. a \in Seq(Sqns) /\ Len(a) = k
  BY <1>1, <1>2
<1>4. <<>> \in AheadLists
  <2>1. <<>> \in [1..0 -> Sqns] /\ 0 \in 0..ReadAheadAmount
    BY StreamAssumption
  <2> QED
    BY <2>1 DEF AheadLists
<1>5. ASSUME a # <<>>
      PROVE  /\ Tail(a) \in AheadLists
             /\ Head(a) \in Sqns /\ Head(a) = a[1] /\ 1 \in DOMAIN a
             /\ \A i \in DOMAIN Tail(a) : i + 1 \in DOMAIN a /\ Tail(a)[i] = a[i + 1]
  <2>1. k # 0 /\ k - 1 \in 0..ReadAheadAmount
    BY <1>1, <1>2, <1>3, <1>5, StreamAssumption
  <2>2. Tail(a) \in Seq(Sqns) /\ Len(Tail(a)) = k - 1 /\ Head(a) = a[1] /\ 1 \in DOMAIN a
    BY <1>3, <1>5, <2>1
  <2>3. PICK m \in 0..ReadAheadAmount : m = k - 1
    BY <2>1
  <2>5. Tail(a) \in [1..m -> Sqns]
    <3>1. PICK q : q = Tail(a)
      OBVIOUS
    <3>2. q \in Seq(Sqns) /\ m = Len(q)
      BY <2>2, <2>3, <3>1
    <3> QED
      BY <3>1, <3>2, ListIsFunction
  <2>4. \A i \in DOMAIN Tail(a) : i + 1 \in DOMAIN a /\ Tail(a)[i] = a[i + 1]
    BY <1>3, <1>5, <2>2
  <2> QED
    BY <1>3, <2>1, <2>2, <2>4, <2>5 DEF AheadLists
<1> QED
  BY <1>3, <1>4, <1>5

\* The fields of a thread have their types.
LEMMA ThreadFields ==
    ASSUME NEW t \in ThreadType
    PROVE  /\ t.pc \in Pcs /\ t.sqn \in Sqns \cup {NoSqn}
           /\ t.seg \in Segments \cup {NoSegment} /\ t.ahead \in AheadLists
           /\ t.handled \in BOOLEAN /\ t.complete \in BOOLEAN /\ t.todo \in SUBSET Sqns
           /\ t.ahead \in Seq(Sqns)
           /\ t = [pc |-> t.pc, sqn |-> t.sqn, seg |-> t.seg, ahead |-> t.ahead,
                   handled |-> t.handled, complete |-> t.complete, todo |-> t.todo]
  BY AheadFields DEF ThreadType, AheadLists

\* A record with fields of the right types is a thread.
LEMMA ThreadOfFields ==
    ASSUME NEW pc \in Pcs, NEW n \in Sqns \cup {NoSqn},
           NEW s \in Segments \cup {NoSegment}, NEW a \in AheadLists,
           NEW h \in BOOLEAN, NEW k \in BOOLEAN, NEW todo \in SUBSET Sqns
    PROVE  [pc |-> pc, sqn |-> n, seg |-> s, ahead |-> a, handled |-> h,
            complete |-> k, todo |-> todo] \in ThreadType
  BY DEF ThreadType, AheadLists

\* A thread that is in no call holds no segment and has nothing left to do.
LEMMA IdleFields ==
    /\ Idle \in ThreadType /\ Idle.pc = "idle" /\ Idle.seg = NoSegment /\ Idle.ahead = <<>>
    /\ Idle.todo = {} /\ Idle.sqn = NoSqn
<1>1. <<>> \in AheadLists
  <2>1. <<>> \in [1..0 -> Sqns] /\ 0 \in 0..ReadAheadAmount
    BY StreamAssumption
  <2> QED
    BY <2>1 DEF AheadLists
<1>2. Idle \in ThreadType
  BY <1>1 DEF Idle, ThreadType, AheadLists, Pcs
<1> QED
  BY <1>2 DEF Idle

-----------------------------------------------------------------------------
(* What a step leaves alone.                                               *)

\* The step changes no location but that of n.
Elsewhere(n) ==
    \A m \in Sqns \ {n} :
        /\ loc'[m] = loc[m]
        /\ m \in openList' <=> m \in openList
        /\ <<"write", m>> \in tasks' <=> <<"write", m>> \in tasks
        /\ <<"read", m>> \in tasks' <=> <<"read", m>> \in tasks
        /\ <<"failed", m>> \in tasks' <=> <<"failed", m>> \in tasks

\* A step that changes one location, and leaves it good, leaves all good.
LEMMA LocFrame ==
    ASSUME LocInv, NEW n \in Sqns, Elsewhere(n), LocOK(n)',
           \A m \in Sqns \ {n} : Busy(m)' = Busy(m)
    PROVE  LocInv'
<1>1. ASSUME NEW m \in Sqns \ {n}
      PROVE  LocOK(m)'
  <2> DEFINE b == Busy(m)
             c == Busy(m)'
  <2>1. LocOK(m) /\ c = b
    BY <1>1 DEF LocInv
  <2>2. /\ loc'[m] = loc[m]
        /\ m \in openList' <=> m \in openList
        /\ <<"write", m>> \in tasks' <=> <<"write", m>> \in tasks
        /\ <<"read", m>> \in tasks' <=> <<"read", m>> \in tasks
        /\ <<"failed", m>> \in tasks' <=> <<"failed", m>> \in tasks
    BY <1>1 DEF Elsewhere
  <2>3. LocOK(m)' = IF loc'[m] = NoLoc
                    THEN /\ m \notin openList'
                         /\ <<"write", m>> \notin tasks' /\ <<"read", m>> \notin tasks' /\ <<"failed", m>> \notin tasks'
                         /\ c = "no"
                    ELSE LocGood(loc'[m], m, openList', tasks', c)
    BY DEF LocOK
  <2>4. LocOK(m) = IF loc[m] = NoLoc
                    THEN /\ m \notin openList
                         /\ <<"write", m>> \notin tasks /\ <<"read", m>> \notin tasks /\ <<"failed", m>> \notin tasks
                         /\ b = "no"
                    ELSE LocGood(loc[m], m, openList, tasks, b)
    BY DEF LocOK
  <2> HIDE DEF b, c
  <2>5. LocGood(loc[m], m, openList, tasks, b) => LocGood(loc'[m], m, openList', tasks', c)
    BY <2>1, <2>2 DEF LocGood
  <2> QED
    BY <2>1, <2>2, <2>3, <2>4, <2>5
<1> QED
  BY <1>1 DEF LocInv

\* The same, if no location changes at all.
LEMMA LocSame ==
    ASSUME LocInv, UNCHANGED <<loc, openList, tasks>>,
           \A m \in Sqns : Busy(m)' = Busy(m)
    PROVE  LocInv'
<1>1. SUFFICES ASSUME NEW n \in Sqns
               PROVE  LocInv'
  BY DEF LocInv
<1>2. Elsewhere(n)
  BY DEF Elsewhere
<1>3. LocOK(n)'
  <2>1. LocOK(n) /\ Busy(n)' = Busy(n)
    BY DEF LocInv
  <2> QED
    BY <2>1 DEF LocOK
<1> QED
  BY <1>2, <1>3, LocFrame

\* _openLock is free, or its holder is not between the request and the end
\* of _open.
LEMMA NotBusy ==
    ASSUME openLock \in Sessions => th[openLock].pc \notin {"openEnd", "aheadEnd"}
    PROVE  \A n \in Sqns : Busy(n) = "no"
  BY DEF Busy

\* A session that enters and leaves no critical section of _open
LEMMA BusySame ==
    ASSUME openLock' = openLock,
           openLock \in Sessions =>
              \/ th'[openLock] = th[openLock]
              \/ /\ th[openLock].pc \notin {"openEnd", "aheadEnd"}
                 /\ th'[openLock].pc \notin {"openEnd", "aheadEnd"}
    PROVE  \A n \in Sqns : Busy(n)' = Busy(n)
  BY DEF Busy

\* The lock "before" is not taken from anybody but c.
NotStolen(before, after, c) == after = before \/ before \in {c, NoSession}

\* The location of n stays fit for a thread d that is neither the appender
\* nor the opener c.
Kept(n, d, c) ==
    /\ loc[n] = NoLoc => loc'[n] = NoLoc \/ appendLock \in {c, NoSession}
    /\ loc[n] # NoLoc /\ loc[n].stored =>
         /\ loc'[n] # NoLoc /\ loc'[n].stored
         /\ loc[n].count = 0 => loc'[n].count = 0 \/ openLock \in {c, NoSession}
         /\ loc[n].refs[d] > 0 /\ ~loc[n].prefetched /\ ~loc[n].cancel =>
              loc'[n].refs[d] > 0 /\ ~loc'[n].prefetched /\ ~loc'[n].cancel

\* The thread of d is not disturbed by a step of c.
LEMMA ThreadFrame ==
    ASSUME StreamInv, NEW c, NEW d \in Sessions, d # c, th'[d] = th[d],
           NotStolen(openLock, openLock', c), NotStolen(appendLock, appendLock', c),
           NotStolen(lock, lock', c),
           lastSqn' = lastSqn \/ appendLock = c,
           openList \subseteq openList' \/ lock \in {c, NoSession},
           \A n \in Sqns : loc'[n] = loc[n] \/ Kept(n, d, c)
    PROVE  ThreadGood(d)'
<1> DEFINE t == th[d]
<1>1. /\ ThreadGood(d) /\ LocInv
      /\ d \notin {c, NoSession}
  BY StreamAssumption DEF StreamInv, ThreadInv
<1>2. /\ t.pc \in {"ahead", "aheadEnd", "openEnd"} => openLock' = d /\ openLock = d
      /\ t.pc \in {"append", "add"} => appendLock' = d /\ appendLock = d
      /\ t.pc = "detach" => lock' = d /\ t.todo \subseteq openList'
  BY <1>1 DEF NotStolen, ThreadGood
<1>3. /\ t.seg # NoSegment => /\ t.pc \in {"append", "add"}
                              /\ t.sqn \in Sqns /\ loc'[t.sqn] = NoLoc
      /\ t.pc = "add" => t.seg # NoSegment
      /\ t.pc = "append" /\ t.seg = NoSegment => lastSqn' < MaxSqn
  BY <1>1, <1>2 DEF ThreadGood, Kept
<1>4. t.pc \in {"ahead", "aheadEnd", "openEnd", "wait"} =>
        /\ t.sqn \in Sqns /\ loc[t.sqn] # NoLoc /\ loc[t.sqn].stored
        /\ loc'[t.sqn] # NoLoc /\ loc'[t.sqn].stored
  BY <1>1 DEF ThreadGood, Kept
<1>5. t.pc = "aheadEnd" => t.ahead # <<>> /\ loc'[Head(t.ahead)] # NoLoc
  <2>1. SUFFICES ASSUME t.pc = "aheadEnd"
                 PROVE  loc'[Head(t.ahead)] # NoLoc
    BY <1>1 DEF ThreadGood
  <2>2. /\ t \in ThreadType /\ t.ahead # <<>> /\ openLock = d
        /\ loc[Head(t.ahead)] # NoLoc
    BY <1>1, <2>1 DEF ThreadGood
  <2>3. Head(t.ahead) \in Sqns
    BY <2>2, ThreadFields, AheadFields
  <2>4. PICK m \in Sqns : m = Head(t.ahead)
    BY <2>3
  <2>5. Busy(m) # "no"
    BY <2>1, <2>2, <2>4 DEF Busy
  <2>6. loc[m].stored
    BY <1>1, <2>2, <2>4, <2>5 DEF LocInv, LocOK, LocGood
  <2> QED
    BY <2>2, <2>4, <2>6 DEF Kept
<1>6. t.pc \in {"ahead", "aheadEnd"} /\ ~t.handled => loc'[t.sqn].count = 0
  BY <1>1, <1>2, <1>4 DEF ThreadGood, Kept
<1>7. Joined(t) => /\ loc'[t.sqn].refs[d] > 0
                   /\ ~loc'[t.sqn].prefetched /\ ~loc'[t.sqn].cancel
  BY <1>1, <1>4 DEF ThreadGood, Kept, Joined
<1>8. /\ t \in ThreadType /\ (t.pc \notin {"ahead", "aheadEnd"} => t.ahead = <<>>)
      /\ \A i \in DOMAIN t.ahead : t.ahead[i] # t.sqn
  BY <1>1 DEF ThreadGood
<1>9. /\ t.pc \in {"ahead", "aheadEnd", "openEnd"} => openLock' = d
      /\ t.pc \in {"append", "add"} => appendLock' = d
      /\ t.pc = "detach" => lock' = d /\ t.todo \subseteq openList'
  BY <1>2
<1> HIDE DEF t
<1> QED
  BY <1>3, <1>4, <1>5, <1>6, <1>7, <1>8, <1>9 DEF ThreadGood, t

-----------------------------------------------------------------------------
(* The requests to the buffer.                                             *)

\* A segment that is not free is in use, also in the cache.
UsedFlags(p) == \A s \in Segments \ p.free : "InUse" \in p.seg[s].flags

\* The segments of the cache hold the data of their links.
CacheReady(p) == \A s \in Range(p.standby) : p.seg[s].ready

PoolGood(p) == Consistent(p) /\ UsedFlags(p) /\ CacheReady(p)

\* q is p after segment s was taken from a list for link n.
Got(p, s, n, q) ==
    /\ PoolGood(q) /\ Listed(q) = Listed(p) \ {s}
    /\ q.seg[s].link = n /\ "InUse" \in q.seg[s].flags
    /\ \A x \in Segments \ {s} : SameContent(p, q, x)

\* The result of a request: nothing, or a listed segment.
Granted(p, n, r) ==
    \/ r[2] = NoSegment /\ r[1] = p /\ ~r[3]
    \/ /\ r[2] \in Listed(p) /\ r[2] \in Segments
       /\ Got(p, r[2], n, r[1])
       /\ r[3] \in BOOLEAN
       /\ r[3] => r[1].seg[r[2]].ready

\* What _requestSegment returns: a segment that no list held, with the link of
\* the location, or none.
LEMMA RequestGranted ==
    ASSUME PoolGood(pool), NEW kind \in {"write", "read", "prefetch"}, NEW n \in Sqns,
           NEW r \in Request(kind, n)
    PROVE  Granted(pool, n, r)
<1>1. PICK p : p = pool
  OBVIOUS
<1>2. /\ Consistent(p) /\ UsedFlags(p) /\ CacheReady(p) /\ p \in PoolType
      /\ n \in Links /\ KeyOf(n) = n /\ n \in Keys
      /\ Listed(p) \subseteq Segments /\ Range(p.standby) \subseteq Segments
      /\ p.free \subseteq Segments /\ p.free \cap Range(p.standby) = {}
  BY <1>1, StreamAssumption, ListedType DEF PoolGood, Consistent, PoolType, Keys
<1> DEFINE hit == FindStandbySegment(p, n)
           new(o, s) == <<AllocateSegment(o, s, kind, n, FALSE), s, FALSE>>
<1>3. CASE hit # NoSegment
  <2>1. r = <<DequeueFromStandbyList(p, hit, n), hit, TRUE>>
    BY <1>1, <1>3 DEF Request
  <2>2. PICK q : q = DequeueFromStandbyList(p, hit, n)
    OBVIOUS
  <2>3. PICK s : s = hit
    OBVIOUS
  <2>4. s \in Range(p.standby) /\ KeyOf(p.seg[s].link) = KeyOf(n) /\ p.seg[s].link = n
    BY <1>2, <1>3, <2>3, StreamAssumption DEF Consistent, Indexed, FindStandbySegment
  <2>5. s \in Segments /\ s \in Listed(p) /\ s \notin p.free
    BY <1>2, <2>4 DEF Listed
  <2>6. /\ Consistent(q) /\ Listed(q) = Listed(p) \ {s}
        /\ Range(q.standby) = Range(p.standby) \ {s}
        /\ \A x \in Segments : q.seg[x].link = p.seg[x].link
    BY <1>2, <2>2, <2>3, <2>4, DequeueConsistent
  <2>7. \A x \in Segments : SameContent(p, q, x)
    BY <1>2, <2>2, <2>3, <2>5, DequeueContent
  <2>8. q.free = p.free
    BY <2>2 DEF DequeueFromStandbyList
  <2>9. UsedFlags(q)
    BY <1>2, <2>7, <2>8 DEF UsedFlags, SameContent
  <2>10. CacheReady(q) /\ q.seg[s].ready /\ "InUse" \in q.seg[s].flags
    BY <1>2, <2>4, <2>5, <2>6, <2>7 DEF CacheReady, UsedFlags, SameContent
  <2>11. Got(p, s, n, q)
    BY <2>4, <2>5, <2>6, <2>7, <2>9, <2>10 DEF Got, PoolGood
  <2>12. r[1] = q /\ r[2] = s /\ r[3] = TRUE
    BY <2>1, <2>2, <2>3
  <2> QED
    BY <1>1, <2>5, <2>10, <2>11, <2>12 DEF Granted
<1>4. ASSUME NEW s \in Segments, s \in Listed(p), NEW q,
             Taken(p, s, n, q), TakenContent(p, s, kind, FALSE, q), r = <<q, s, FALSE>>
      PROVE  Granted(pool, n, r)
  <2>1. /\ Consistent(q) /\ Listed(q) = Listed(p) \ {s}
        /\ q.seg[s].link = n
        /\ q.seg[s].flags = RequestFlags(kind, FALSE)
        /\ \A x \in Segments \ {s} : SameContent(p, q, x)
        /\ Range(q.standby) = Range(p.standby) \ {s}
    BY <1>4 DEF Taken, TakenContent
  <2>2. "InUse" \in q.seg[s].flags
    BY <2>1 DEF RequestFlags
  <2>3. ASSUME NEW x \in Segments \ {s}, x \in p.free
        PROVE  x \in q.free
    <3>1. x \in Listed(q)
      BY <2>1, <2>3 DEF Listed
    <3>2. x \notin Range(q.standby)
      BY <1>2, <2>1, <2>3
    <3> QED
      BY <3>1, <3>2 DEF Listed
  <2>4. UsedFlags(q)
    BY <1>2, <2>1, <2>2, <2>3 DEF UsedFlags, SameContent
  <2>5. CacheReady(q)
    BY <1>2, <2>1 DEF CacheReady, SameContent
  <2>6. Got(p, s, n, q)
    BY <2>1, <2>2, <2>4, <2>5 DEF Got, PoolGood
  <2> QED
    BY <1>1, <1>4, <2>6 DEF Granted
<1>5. CASE hit = NoSegment /\ p.free # {}
  <2>1. PICK s \in p.free : r = new(DequeueFromFreeList(p, s), s)
    BY <1>1, <1>5 DEF Request
  <2>2. PICK q : q = AllocateSegment(DequeueFromFreeList(p, s), s, kind, n, FALSE)
    OBVIOUS
  <2>3. Taken(p, s, n, q)
    BY <1>2, <2>1, <2>2, AllocateConsistent
  <2>4. TakenContent(p, s, kind, FALSE, q)
    BY <1>2, <2>1, <2>2, TakeFreeContent
  <2> QED
    BY <1>2, <1>4, <2>1, <2>2, <2>3, <2>4 DEF Listed
<1>6. CASE hit = NoSegment /\ p.free = {} /\ p.standby # <<>>
  <2>1. r = new(EvictFromStandbyList(p), Last(p.standby))
    BY <1>1, <1>6 DEF Request
  <2>2. PICK s : s = Last(p.standby)
    OBVIOUS
  <2>3. PICK q : q = AllocateSegment(EvictFromStandbyList(p), s, kind, n, FALSE)
    OBVIOUS
  <2>4. s \in Range(p.standby)
    BY <1>2, <1>6, <2>2, LastOfList DEF PoolType
  <2>5. Taken(p, s, n, q)
    BY <1>2, <1>6, <2>2, <2>3, EvictConsistent
  <2>6. TakenContent(p, s, kind, FALSE, q)
    BY <1>2, <1>6, <2>2, <2>3, TakeCachedContent
  <2> QED
    BY <1>2, <1>4, <2>1, <2>2, <2>3, <2>4, <2>5, <2>6 DEF Listed
<1>7. CASE hit = NoSegment /\ p.free = {} /\ p.standby = <<>>
  <2>1. r = <<p, NoSegment, FALSE>>
    BY <1>1, <1>7 DEF Request
  <2> QED
    BY <1>1, <2>1 DEF Granted
<1> QED
  BY <1>3, <1>5, <1>6, <1>7

\* A request returns a segment or none.
LEMMA RequestType ==
    ASSUME PoolGood(pool), NEW kind \in {"write", "read", "prefetch"}, NEW n \in Sqns,
           NEW r \in Request(kind, n)
    PROVE  r[2] \in Segments \cup {NoSegment}
  BY RequestGranted DEF Granted

-----------------------------------------------------------------------------
(* Frames for the steps.                                                   *)

\* Every thread but that of c stays where it is, and so do the locks that c
\* does not hold.
OnlyThread(c) ==
    /\ \A d \in Sessions \ {c} : th'[d] = th[d]
    /\ NotStolen(openLock, openLock', c)
    /\ NotStolen(appendLock, appendLock', c)
    /\ NotStolen(lock, lock', c)
    /\ c \in Sessions => ThreadGood(c)'

\* A step of c that changes the location of n at most
LEMMA StepGood ==
    ASSUME StreamInv, NEW c \in Sessions \cup {NoSession}, NEW n \in Sqns,
           BaseInv', AppendInv', Elsewhere(n), LocOK(n)', OnlyThread(c),
           \A m \in Sqns \ {n} : Busy(m)' = Busy(m),
           lastSqn' = lastSqn \/ appendLock = c,
           openList \subseteq openList' \/ lock \in {c, NoSession},
           loc'[n] = loc[n] \/ \A d \in Sessions \ {c} : Kept(n, d, c)
    PROVE  StreamInv'
<1>1. LocInv'
  BY LocFrame DEF StreamInv
<1>2. ASSUME NEW d \in Sessions
      PROVE  ThreadGood(d)'
  <2>1. CASE d = c
    BY <2>1 DEF OnlyThread
  <2>2. CASE d # c
    <3>1. th'[d] = th[d]
      BY <2>2 DEF OnlyThread
    <3>2. \A m \in Sqns : loc'[m] = loc[m] \/ Kept(m, d, c)
      BY <2>2 DEF Elsewhere
    <3> QED
      BY <2>2, <3>1, <3>2, ThreadFrame DEF OnlyThread
  <2> QED
    BY <2>1, <2>2
<1> QED
  BY <1>1, <1>2 DEF StreamInv, ThreadInv

\* The appenders' part of the invariant, if no location is made
LEMMA AppendSame ==
    ASSUME AppendInv, lastSqn' = lastSqn, lastAppend' \in {lastAppend, NoSqn},
           \A m \in Sqns : /\ loc[m] = NoLoc => loc'[m] = NoLoc
                           /\ m = lastAppend' =>
                                \/ loc'[m] = loc[m]
                                \/ /\ loc'[m] # NoLoc /\ ~loc'[m].stored
                                   /\ loc'[m].id # NoSegment,
           lastAppend \in Sqns \cup {NoSqn}
    PROVE  AppendInv'
  BY DEF AppendInv

\* A step of c that changes no location
LEMMA StepSame ==
    ASSUME StreamInv, NEW c \in Sessions, BaseInv', OnlyThread(c),
           UNCHANGED <<loc, openList, tasks, lastSqn, lastAppend>>,
           \A m \in Sqns : Busy(m)' = Busy(m)
    PROVE  StreamInv'
<1>1. LocInv'
  BY LocSame DEF StreamInv
<1>2. AppendInv'
  BY AppendSame DEF StreamInv, BaseInv
<1>3. ASSUME NEW d \in Sessions
      PROVE  ThreadGood(d)'
  <2>1. CASE d = c
    BY <2>1 DEF OnlyThread
  <2>2. CASE d # c
    <3>1. th'[d] = th[d]
      BY <2>2 DEF OnlyThread
    <3> QED
      BY <2>2, <3>1, ThreadFrame DEF OnlyThread
  <2> QED
    BY <2>1, <2>2
<1> QED
  BY <1>1, <1>2, <1>3 DEF StreamInv, ThreadInv

-----------------------------------------------------------------------------
(* The steps that change a thread and no location.                         *)

\* What is known of the thread of c.
LEMMA ThreadFacts ==
    ASSUME StreamInv, NEW c \in Sessions
    PROVE  /\ ThreadGood(c) /\ th[c] \in ThreadType /\ c # NoSession
           /\ th[c].pc \in Pcs /\ th[c].sqn \in Sqns \cup {NoSqn}
           /\ th[c].seg \in Segments \cup {NoSegment} /\ th[c].ahead \in AheadLists
           /\ th[c].handled \in BOOLEAN /\ th[c].complete \in BOOLEAN
           /\ th[c].todo \in SUBSET Sqns
<1>1. ThreadGood(c) /\ th[c] \in ThreadType
  BY DEF StreamInv, ThreadInv, ThreadGood
<1> QED
  BY <1>1, ThreadFields, StreamAssumption

\* The thread of c gets a new state.
LEMMA ThreadChanged ==
    ASSUME BaseInv, NEW c \in Sessions, NEW t, th' = [th EXCEPT ![c] = t]
    PROVE  /\ th'[c] = t /\ \A d \in Sessions \ {c} : th'[d] = th[d]
           /\ th' = [d \in Sessions |-> th'[d]]
  BY DEF BaseInv

\* The new state of a thread with another program counter
LEMMA AtPc ==
    ASSUME NEW t \in ThreadType, NEW pc \in Pcs, NEW u, u = [t EXCEPT !.pc = pc]
    PROVE  /\ u \in ThreadType /\ u.pc = pc /\ u.sqn = t.sqn /\ u.seg = t.seg
           /\ u.ahead = t.ahead /\ u.handled = t.handled /\ u.complete = t.complete
           /\ u.todo = t.todo
  BY DEF ThreadType

\* A thread that is idle
LEMMA IdleGood ==
    ASSUME NEW c \in Sessions, th'[c] = Idle
    PROVE  ThreadGood(c)'
  BY IdleFields DEF ThreadGood, Joined

\* The frame when c changes its thread outside the sections of _open.
LEMMA StepOutside ==
    ASSUME StreamInv, NEW c \in Sessions, NEW t, th' = [th EXCEPT ![c] = t],
           UNCHANGED <<loc, openList, tasks, lastSqn, lastAppend>>,
           th[c].pc \notin {"openEnd", "aheadEnd"}, t.pc \notin {"openEnd", "aheadEnd"},
           openLock' \in {openLock, NoSession}, appendLock' \in {appendLock, c, NoSession},
           lock' \in {lock, c, NoSession},
           openLock' = openLock \/ openLock = c,
           appendLock' = appendLock \/ appendLock \in {c, NoSession},
           lock' = lock \/ lock \in {c, NoSession},
           crashed' \in BOOLEAN,
           view' \in [Sessions -> [Sqns -> Segments \cup {NoSegment}]],
           ThreadGood(c)'
    PROVE  StreamInv'
<1>1. /\ th'[c] = t /\ \A d \in Sessions \ {c} : th'[d] = th[d]
      /\ th' = [d \in Sessions |-> th'[d]]
  BY ThreadChanged DEF StreamInv
<1>2. BaseInv'
  BY <1>1 DEF StreamInv, BaseInv
<1>3. OnlyThread(c)
  BY <1>1 DEF OnlyThread, NotStolen
<1>4. ASSUME NEW m \in Sqns
      PROVE  Busy(m)' = Busy(m)
  <2>1. CASE openLock' = openLock
    BY <1>1, <2>1, BusySame DEF StreamInv, BaseInv
  <2>2. CASE openLock = c /\ openLock' = NoSession
    BY <2>2, StreamAssumption DEF Busy
  <2> QED
    BY <2>1, <2>2
<1> QED
  BY <1>2, <1>3, <1>4, StepSame

\* append() requests a segment: StreamInv holds after it.
LEMMA AppendRequestGood ==
    ASSUME StreamInv, PoolGood(pool), NEW c \in Sessions, AppendRequest(c)
    PROVE  StreamInv'
<1>1. /\ th[c].pc = "append" /\ th[c].seg = NoSegment /\ appendLock = c
      /\ lastSqn < MaxSqn /\ lastSqn \in Sqns \cup {NoSqn}
  BY ThreadFacts DEF AppendRequest, ThreadGood, StreamInv, BaseInv
<1>2. /\ lastSqn + 1 \in Sqns /\ lastSqn + 1 > lastSqn /\ loc[lastSqn + 1] = NoLoc
  BY <1>1, StreamAssumption DEF Sqns, NoSqn, StreamInv, AppendInv
<1>3. PICK n : n = lastSqn + 1
  OBVIOUS
<1>4. PICK r \in Request("write", n) :
        IF r[2] = NoSegment
        THEN appendLock' = NoSession /\ th' = [th EXCEPT ![c] = Idle]
        ELSE th' = [th EXCEPT ![c].seg = r[2], ![c].sqn = n] /\ appendLock' = appendLock
  BY <1>3 DEF AppendRequest
<1>5. r[2] \in Segments \cup {NoSegment}
  BY <1>2, <1>3, RequestType
<1>6. UNCHANGED <<loc, openList, lastSqn, lastAppend, tasks, openLock, lock, view, crashed>>
  BY DEF AppendRequest
<1>7. view \in [Sessions -> [Sqns -> Segments \cup {NoSegment}]] /\ crashed \in BOOLEAN
  BY DEF StreamInv, BaseInv
<1>8. CASE r[2] = NoSegment
  <2>1. th' = [th EXCEPT ![c] = Idle] /\ appendLock' = NoSession
    BY <1>4, <1>8
  <2>2. ThreadGood(c)'
    BY <2>1, ThreadChanged, IdleGood DEF StreamInv
  <2> QED
    BY <1>1, <1>6, <1>7, <2>1, <2>2, IdleFields, StepOutside
<1>9. CASE r[2] # NoSegment
  <2>1. PICK t : t = [th[c] EXCEPT !.seg = r[2], !.sqn = n]
    OBVIOUS
  <2>2. th' = [th EXCEPT ![c] = t] /\ appendLock' = appendLock
    BY <1>4, <1>9, <2>1
  <2>3. /\ t \in ThreadType /\ t.pc = "append" /\ t.sqn = n /\ t.seg = r[2]
        /\ t.ahead = th[c].ahead
    BY <1>1, <1>2, <1>3, <1>5, <2>1, ThreadFacts DEF ThreadType
  <2>4. t.ahead = <<>> /\ \A i \in DOMAIN t.ahead : t.ahead[i] # n
    <3>1. th[c].ahead = <<>>
      BY ThreadFacts, <1>1 DEF ThreadGood
    <3> QED
      BY <2>3, <3>1
  <2>5. ThreadGood(c)'
    <3>1. th'[c] = t
      BY <2>2, ThreadChanged DEF StreamInv
    <3> QED
      BY <1>1, <1>2, <1>3, <1>6, <1>9, <2>2, <2>3, <2>4, <3>1 DEF ThreadGood, Joined
  <2> QED
    BY <1>1, <1>6, <1>7, <2>2, <2>3, <2>5, StepOutside
<1> QED
  BY <1>8, <1>9

\* addSegment() requests a segment: StreamInv holds after it.
LEMMA AddRequestGood ==
    ASSUME StreamInv, PoolGood(pool), NEW c \in Sessions, NEW n \in Sqns, AddRequest(c, n)
    PROVE  StreamInv'
<1>1. /\ th[c].pc = "idle" /\ appendLock = NoSession /\ loc[n] = NoLoc /\ appendLock' = c
      /\ UNCHANGED <<loc, openList, lastSqn, lastAppend, tasks, openLock, lock, view, crashed>>
  BY DEF AddRequest
<1>2. PICK r \in Request("write", n) :
        /\ r[2] # NoSegment
        /\ th' = [th EXCEPT ![c] = [Idle EXCEPT !.pc = "add", !.sqn = n, !.seg = r[2]]]
  BY Zenon DEF AddRequest
<1>3. r[2] \in Segments
  BY <1>2, RequestType
<1>4. PICK t : t = [Idle EXCEPT !.pc = "add", !.sqn = n, !.seg = r[2]]
  OBVIOUS
<1>5. /\ t \in ThreadType /\ t.pc = "add" /\ t.sqn = n /\ t.seg = r[2]
      /\ t.ahead = <<>> /\ ~t.handled
  <2>1. t = [pc |-> "add", sqn |-> n, seg |-> r[2], ahead |-> <<>>, handled |-> FALSE,
             complete |-> FALSE, todo |-> {}]
    BY <1>4 DEF Idle
  <2>2. <<>> \in AheadLists
    BY IdleFields, ThreadFields
  <2>3. t \in ThreadType
    BY <1>3, <2>1, <2>2, ThreadOfFields DEF Pcs
  <2> QED
    BY <2>1, <2>3
<1>6. th' = [th EXCEPT ![c] = t]
  BY <1>2, <1>4
<1>7. ThreadGood(c)'
  <2>1. th'[c] = t
    BY <1>6, ThreadChanged DEF StreamInv
  <2>2. \A i \in DOMAIN t.ahead : t.ahead[i] # t.sqn
    BY <1>5
  <2> QED
    BY <1>1, <1>2, <1>5, <2>1, <2>2 DEF ThreadGood, Joined
<1>8. view \in [Sessions -> [Sqns -> Segments \cup {NoSegment}]] /\ crashed \in BOOLEAN
  BY DEF StreamInv, BaseInv
<1> QED
  BY <1>1, <1>5, <1>6, <1>7, <1>8, StepOutside

\* The read ahead passes over a segment that is in use: StreamInv holds after it.
LEMMA AheadSkipGood ==
    ASSUME StreamInv, NEW c \in Sessions, AheadSkip(c)
    PROVE  StreamInv'
<1>1. /\ th[c].pc = "ahead" /\ th[c].ahead # <<>>
      /\ th' = [th EXCEPT ![c].ahead = Tail(@)]
      /\ UNCHANGED <<loc, openList, lastSqn, lastAppend, tasks, openLock, appendLock,
                     lock, view, crashed>>
  BY DEF AheadSkip
<1>2. PICK a : a = Tail(th[c].ahead)
  OBVIOUS
<1>3. /\ a \in AheadLists
      /\ \A i \in DOMAIN a : i + 1 \in DOMAIN th[c].ahead /\ a[i] = th[c].ahead[i + 1]
  BY <1>1, <1>2, ThreadFacts, AheadFields
<1>4. PICK t : t = [th[c] EXCEPT !.ahead = a]
  OBVIOUS
<1>5. /\ t \in ThreadType /\ t.pc = "ahead" /\ t.sqn = th[c].sqn /\ t.seg = th[c].seg
      /\ t.ahead = a /\ t.handled = th[c].handled
  BY <1>1, <1>3, <1>4, ThreadFacts DEF ThreadType, AheadLists
<1>6. th' = [th EXCEPT ![c] = t]
  BY <1>1, <1>2, <1>4
<1>7. ThreadGood(c)'
  <2>1. th'[c] = t
    BY <1>6, ThreadChanged DEF StreamInv
  <2>2. ThreadGood(c)
    BY ThreadFacts
  <2>3. \A i \in DOMAIN a : a[i] # t.sqn
    BY <1>3, <1>5, <2>2 DEF ThreadGood
  <2> QED
    BY <1>1, <1>5, <2>1, <2>2, <2>3 DEF ThreadGood, Joined
<1>8. view \in [Sessions -> [Sqns -> Segments \cup {NoSegment}]] /\ crashed \in BOOLEAN
  BY DEF StreamInv, BaseInv
<1> QED
  BY <1>1, <1>5, <1>6, <1>7, <1>8, StepOutside

\* The read ahead ends at a segment without a location: StreamInv holds after it.
LEMMA AheadCrashGood ==
    ASSUME StreamInv, NEW c \in Sessions, AheadCrash(c)
    PROVE  StreamInv'
<1>1. /\ th[c].pc = "ahead" /\ crashed' = TRUE
      /\ UNCHANGED <<loc, openList, lastSqn, lastAppend, tasks, openLock, appendLock,
                     lock, th, view>>
  BY DEF AheadCrash
<1>2. PICK t : t = th[c]
  OBVIOUS
<1>3. th' = [th EXCEPT ![c] = t]
  BY <1>1, <1>2 DEF StreamInv, BaseInv
<1>4. ThreadGood(c)'
  <2>1. ThreadGood(c)
    BY ThreadFacts
  <2> QED
    BY <1>1, <2>1 DEF ThreadGood
<1>5. view \in [Sessions -> [Sqns -> Segments \cup {NoSegment}]]
  BY DEF StreamInv, BaseInv
<1> QED
  BY <1>1, <1>2, <1>3, <1>4, <1>5, StepOutside

\* The read ahead ends for an open that is already handled: StreamInv holds
\* after it.
LEMMA AheadDoneGood ==
    ASSUME StreamInv, NEW c \in Sessions, AheadDone(c)
    PROVE  StreamInv'
<1>1. /\ th[c].pc = "ahead" /\ th[c].handled /\ th[c].ahead = <<>>
      /\ th' = [th EXCEPT ![c].pc = "wait"]
      /\ openLock' \in {openLock, NoSession}
      /\ UNCHANGED <<loc, openList, lastSqn, lastAppend, tasks, appendLock,
                     lock, view, crashed>>
  BY DEF AheadDone, Goto
<1>2. PICK t : t = [th[c] EXCEPT !.pc = "wait"]
  OBVIOUS
<1>3. /\ t \in ThreadType /\ t.pc = "wait" /\ t.sqn = th[c].sqn /\ t.seg = th[c].seg
      /\ t.ahead = th[c].ahead
  BY <1>2, AtPc, ThreadFacts DEF Pcs
<1>4. th' = [th EXCEPT ![c] = t]
  BY <1>1, <1>2
<1>5. ThreadGood(c) /\ openLock = c
  BY <1>1, ThreadFacts DEF ThreadGood
<1>6. ThreadGood(c)'
  <2>1. th'[c] = t
    BY <1>4, ThreadChanged DEF StreamInv
  <2> QED
    BY <1>1, <1>3, <1>5, <2>1 DEF ThreadGood, Joined
<1>7. view \in [Sessions -> [Sqns -> Segments \cup {NoSegment}]] /\ crashed \in BOOLEAN
  BY DEF StreamInv, BaseInv
<1> QED
  BY <1>1, <1>3, <1>4, <1>5, <1>6, <1>7, StepOutside

\* The mapping a session is given is that of a location.
LEMMA MappedType ==
    ASSUME StreamInv, NEW n \in Sqns, loc[n] # NoLoc
    PROVE  loc[n].id \in Segments \cup {NoSegment} /\ loc[n] \in LocType
<1>1. loc[n] \in LocType
  BY DEF StreamInv, LocInv, LocOK, LocGood
<1> QED
  BY <1>1, LocFields

\* open() returns the segment or waits for it: StreamInv holds after it.
LEMMA OpenReturnGood ==
    ASSUME StreamInv, NEW c \in Sessions, OpenReturn(c)
    PROVE  StreamInv'
<1>1. /\ th[c].pc = "wait" /\ th' = [th EXCEPT ![c] = Idle]
      /\ view' = [view EXCEPT ![c][th[c].sqn] = loc[th[c].sqn].id]
      /\ openLock' = IF openLock = c THEN NoSession ELSE openLock
      /\ UNCHANGED <<loc, openList, lastSqn, lastAppend, tasks, appendLock, lock, crashed>>
  BY DEF OpenReturn
<1>2. view' \in [Sessions -> [Sqns -> Segments \cup {NoSegment}]] /\ crashed \in BOOLEAN
  <2>1. th[c].sqn \in Sqns /\ loc[th[c].sqn] # NoLoc
    BY <1>1, ThreadFacts DEF ThreadGood
  <2>2. PICK n \in Sqns : n = th[c].sqn
    BY <2>1
  <2>3. loc[n].id \in Segments \cup {NoSegment}
    BY <2>1, <2>2, MappedType
  <2>4. view \in [Sessions -> [Sqns -> Segments \cup {NoSegment}]] /\ crashed \in BOOLEAN
    BY DEF StreamInv, BaseInv
  <2> QED
    BY <1>1, <2>2, <2>3, <2>4
<1>3. ThreadGood(c)'
  BY <1>1, ThreadChanged, IdleGood DEF StreamInv
<1> QED
  BY <1>1, <1>2, <1>3, IdleFields, StepOutside

\* A session begins to detach: StreamInv holds after it.
LEMMA DetachBeginGood ==
    ASSUME StreamInv, NEW c \in Sessions, DetachBegin(c)
    PROVE  StreamInv'
<1>1. /\ th[c].pc = "idle" /\ lock = NoSession /\ lock' = c
      /\ th' = [th EXCEPT ![c] = [Idle EXCEPT !.pc = "detach", !.todo = openList]]
      /\ view' = [view EXCEPT ![c] = [n \in Sqns |-> NoSegment]]
      /\ UNCHANGED <<loc, openList, lastSqn, lastAppend, tasks, openLock, appendLock, crashed>>
  BY DEF DetachBegin, Unlocked
<1>2. PICK t : t = [Idle EXCEPT !.pc = "detach", !.todo = openList]
  OBVIOUS
<1>3. /\ t \in ThreadType /\ t.pc = "detach" /\ t.seg = NoSegment /\ t.ahead = <<>>
      /\ t.todo = openList
  <2>1. t = [pc |-> "detach", sqn |-> NoSqn, seg |-> NoSegment, ahead |-> <<>>,
             handled |-> FALSE, complete |-> FALSE, todo |-> openList]
    BY <1>2 DEF Idle
  <2>2. <<>> \in AheadLists /\ openList \in SUBSET Sqns
    BY IdleFields, ThreadFields DEF StreamInv, BaseInv
  <2>3. t \in ThreadType
    BY <2>1, <2>2, ThreadOfFields DEF Pcs
  <2> QED
    BY <2>1, <2>3
<1>4. th' = [th EXCEPT ![c] = t]
  BY <1>1, <1>2
<1>5. ThreadGood(c)'
  <2>1. th'[c] = t
    BY <1>4, ThreadChanged DEF StreamInv
  <2>2. \A i \in DOMAIN t.ahead : t.ahead[i] # t.sqn
    BY <1>3
  <2> QED
    BY <1>1, <1>3, <2>1, <2>2 DEF ThreadGood, Joined
<1>6. view' \in [Sessions -> [Sqns -> Segments \cup {NoSegment}]] /\ crashed \in BOOLEAN
  BY <1>1 DEF StreamInv, BaseInv
<1> QED
  BY <1>1, <1>3, <1>4, <1>5, <1>6, StepOutside

\* A session ends its detach: StreamInv holds after it.
LEMMA DetachEndGood ==
    ASSUME StreamInv, NEW c \in Sessions, DetachEnd(c) \/ DetachDone(c)
    PROVE  StreamInv'
<1>1. PICK pc \in {"drain", "gone"} :
        /\ th[c].pc \in {"detach", "drain"}
        /\ th' = [th EXCEPT ![c].pc = pc]
        /\ lock' = lock \/ (lock' = NoSession /\ th[c].pc = "detach")
        /\ UNCHANGED <<loc, openList, lastSqn, lastAppend, tasks, openLock, appendLock,
                       view, crashed>>
  BY DEF DetachEnd, DetachDone, Goto
<1>2. PICK t : t = [th[c] EXCEPT !.pc = pc]
  OBVIOUS
<1>3. /\ t \in ThreadType /\ t.pc = pc /\ t.seg = th[c].seg /\ t.ahead = th[c].ahead
  BY <1>2, AtPc, ThreadFacts DEF Pcs
<1>4. th' = [th EXCEPT ![c] = t]
  BY <1>1, <1>2
<1>5. ThreadGood(c) /\ lock' \in {lock, NoSession} /\ (lock' = lock \/ lock = c)
  BY <1>1, ThreadFacts DEF ThreadGood
<1>6. t.seg = NoSegment /\ t.ahead = <<>>
  BY <1>1, <1>3, <1>5 DEF ThreadGood
<1>7. ThreadGood(c)'
  <2>1. th'[c] = t
    BY <1>4, ThreadChanged DEF StreamInv
  <2>2. \A i \in DOMAIN t.ahead : t.ahead[i] # t.sqn
    BY <1>6
  <2> QED
    BY <1>1, <1>3, <1>6, <2>1, <2>2 DEF ThreadGood, Joined
<1>8. view \in [Sessions -> [Sqns -> Segments \cup {NoSegment}]] /\ crashed \in BOOLEAN
  BY DEF StreamInv, BaseInv
<1> QED
  BY <1>1, <1>3, <1>4, <1>5, <1>7, <1>8, StepOutside

-----------------------------------------------------------------------------
(* The steps of open that change a location.                               *)

\* If one session has all references, the others have none.
LEMMA OnlyReferences ==
    ASSUME NEW l \in LocType, l.count = SumOf(l.refs), NEW c \in Sessions,
           l.count = 0 \/ l.count = l.refs[c] \/ (l.count = 1 /\ l.refs[c] > 0)
    PROVE  /\ \A d \in Sessions \ {c} : l.refs[d] = 0
           /\ l.count = l.refs[c]
<1>1. /\ l.refs \in [Sessions -> Nat] /\ l.count \in Nat
  BY LocFields
<1>2. \A d \in Sessions : l.refs[d] \in Nat /\ l.refs[d] <= l.count
  BY <1>1, SumMember
<1>3. \A d \in Sessions \ {c} : l.refs[c] + l.refs[d] <= l.count
  BY <1>1, SumMember
<1> QED
  BY <1>1, <1>2, <1>3

\* The location of n, if it is allocated
LEMMA LocFacts ==
    ASSUME StreamInv, NEW n \in Sqns, loc[n] # NoLoc
    PROVE  /\ loc[n] \in LocType /\ loc[n].count = SumOf(loc[n].refs)
           /\ LocGood(loc[n], n, openList, tasks, Busy(n))
<1>1. LocGood(loc[n], n, openList, tasks, Busy(n))
  BY DEF StreamInv, LocInv, LocOK
<1> QED
  BY <1>1 DEF LocGood

\* A location that is only changed where it is stored does not matter to
\* the appender.
LEMMA AppendStored ==
    ASSUME StreamInv, NEW n \in Sqns, loc[n] # NoLoc, loc[n].stored, Elsewhere(n),
           lastSqn' = lastSqn, lastAppend' = lastAppend
    PROVE  AppendInv'
<1>1. lastAppend # n
  BY StreamAssumption DEF StreamInv, AppendInv, Sqns, NoSqn
<1> QED
  BY <1>1, AppendSame DEF StreamInv, BaseInv, Elsewhere

\* The location gets a new value.
LEMMA LocChanged ==
    ASSUME BaseInv, NEW n \in Sqns, NEW l, loc' = [loc EXCEPT ![n] = l]
    PROVE  /\ loc'[n] = l /\ \A m \in Sqns \ {n} : loc'[m] = loc[m]
           /\ loc' = [m \in Sqns |-> loc'[m]]
  BY DEF BaseInv

\* The location of a segment that openSegment starts to load
Opening(l, prefetch, s) ==
    [l EXCEPT !.prefetched = prefetch, !.cancel = prefetch, !.sideId = s]

Opened(l, prefetch, s, m) ==
    /\ m \in LocType /\ m.stored = l.stored /\ m.id = l.id /\ m.sideId = s
    /\ m.cancel = prefetch /\ m.prefetched = prefetch
    /\ m.count = l.count /\ m.refs = l.refs /\ m.waits = l.waits

\* What _openSegment makes of a location.
LEMMA OpeningFields ==
    ASSUME NEW l \in LocType, NEW prefetch \in BOOLEAN,
           NEW s \in Segments \cup {NoSegment}
    PROVE  Opened(l, prefetch, s, Opening(l, prefetch, s))
  BY DEF Opening, LocType, Opened

\* The thread that has called openSegment
Calling(t, pc, load) == [t EXCEPT !.pc = pc, !.complete = ~load]

Called(t, pc, load, u) ==
    /\ u \in ThreadType /\ u.pc = pc /\ u.complete = ~load /\ u.sqn = t.sqn
    /\ u.seg = t.seg /\ u.ahead = t.ahead /\ u.handled = t.handled

\* What calling openSegment of the encoder makes of a thread.
LEMMA CallingFields ==
    ASSUME NEW t \in ThreadType, NEW pc \in {"aheadEnd", "openEnd"}, NEW load \in BOOLEAN
    PROVE  Called(t, pc, load, Calling(t, pc, load))
  BY DEF Calling, Called, ThreadType, Pcs

\* _openSegment, for a read ahead or for an open, keeps StreamInv: the location
\* it works on was not referenced, and is busy until the call of the encoder ends.
LEMMA OpenSegmentGood ==
    ASSUME StreamInv, PoolGood(pool), NEW c \in Sessions, NEW m \in Sqns,
           NEW prefetch \in BOOLEAN, NEW async \in BOOLEAN,
           NEW pc \in {"aheadEnd", "openEnd"},
           th[c].pc = "ahead", loc[m] # NoLoc, loc[m].stored, loc[m].count = 0,
           prefetch => pc = "aheadEnd" /\ async /\ th[c].ahead # <<>> /\ Head(th[c].ahead) = m,
           ~prefetch => pc = "openEnd" /\ th[c].ahead = <<>> /\ th[c].sqn = m,
           OpenSegment(c, m, prefetch, async, pc)
    PROVE  StreamInv'
<1>1. PICK kind \in {"write", "read", "prefetch"} : kind = IF prefetch THEN "prefetch" ELSE "read"
  OBVIOUS
<1>2. PICK r \in Request(kind, m) :
        /\ loc' = [loc EXCEPT ![m].prefetched = prefetch, ![m].cancel = prefetch,
                              ![m].sideId = r[2]]
        /\ tasks' = IF r[2] # NoSegment /\ ~r[3] /\ async
                    THEN tasks \cup {<<"read", m>>} ELSE tasks
        /\ th' = [th EXCEPT ![c].pc = pc, ![c].complete = ~(r[2] # NoSegment /\ ~r[3] /\ async)]
        /\ UNCHANGED <<openList, lastSqn, lastAppend, openLock, appendLock, lock,
                       view, crashed>>
  BY <1>1 DEF OpenSegment
<1>3. r[2] \in Segments \cup {NoSegment}
  BY RequestType
<1>4. PICK load \in BOOLEAN : load <=> r[2] # NoSegment /\ ~r[3] /\ async
  OBVIOUS
<1>5. PICK s \in Segments \cup {NoSegment} : s = r[2]
  BY <1>3
<1>6. PICK t : t = Calling(th[c], pc, load)
  OBVIOUS
<1>7. PICK l : l = Opening(loc[m], prefetch, s)
  OBVIOUS
<1>8. /\ loc' = [loc EXCEPT ![m] = l]
      /\ tasks' = IF load THEN tasks \cup {<<"read", m>>} ELSE tasks
      /\ th' = [th EXCEPT ![c] = t]
      /\ load => s # NoSegment
      /\ UNCHANGED <<openList, lastSqn, lastAppend, openLock, appendLock, lock, view, crashed>>
  BY <1>2, <1>4, <1>5, <1>6, <1>7 DEF Opening, Calling
<1>9. /\ t \in ThreadType /\ t.pc = pc /\ t.complete = ~load /\ t.sqn = th[c].sqn
      /\ t.seg = th[c].seg /\ t.ahead = th[c].ahead /\ t.handled = th[c].handled
  <2>1. Called(th[c], pc, load, t)
    BY <1>6, ThreadFacts, CallingFields
  <2> QED
    BY <2>1 DEF Called
<1>10. ThreadGood(c) /\ openLock = c
  BY ThreadFacts DEF ThreadGood
<1>11. \A k \in Sqns : Busy(k) = "no"
  BY <1>10 DEF Busy
<1>12. /\ loc[m] \in LocType /\ LocGood(loc[m], m, openList, tasks, "no")
  BY <1>11, LocFacts
<1>13. /\ l \in LocType /\ l.stored = loc[m].stored /\ l.id = loc[m].id /\ l.sideId = s
       /\ l.cancel = prefetch /\ l.prefetched = prefetch
       /\ l.count = loc[m].count /\ l.refs = loc[m].refs
  <2>1. Opened(loc[m], prefetch, s, l)
    BY <1>7, <1>12, OpeningFields
  <2> QED
    BY <2>1 DEF Opened
<1>14. /\ th'[c] = t /\ \A d \in Sessions \ {c} : th'[d] = th[d]
       /\ th' = [d \in Sessions |-> th'[d]]
       /\ loc'[m] = l /\ \A k \in Sqns \ {m} : loc'[k] = loc[k]
       /\ loc' = [k \in Sqns |-> loc'[k]]
  BY <1>8, ThreadChanged, LocChanged DEF StreamInv
<1>15. Elsewhere(m)
  BY <1>8, <1>14 DEF Elsewhere
<1>16. /\ prefetch => Busy(m)' = IF load THEN "ahead" ELSE "aheadDone"
       /\ ~prefetch => Busy(m)' = IF load THEN "open" ELSE "openDone"
       /\ \A k \in Sqns \ {m} : Busy(k)' = "no"
  <2>1. openLock' = c /\ th'[c].pc = pc /\ th'[c].sqn = th[c].sqn
        /\ th'[c].ahead = th[c].ahead /\ th'[c].complete = ~load
    BY <1>8, <1>9, <1>10, <1>14
  <2>2. CASE prefetch
    <3>1. pc = "aheadEnd" /\ Head(th[c].ahead) = m
      BY <2>2
    <3> QED
      BY <2>1, <2>2, <3>1 DEF Busy
  <2>3. CASE ~prefetch
    <3>1. pc = "openEnd" /\ th[c].sqn = m
      BY <2>3
    <3> QED
      BY <2>1, <2>3, <3>1 DEF Busy
  <2> QED
    BY <2>2, <2>3
<1>17. LocOK(m)'
  <2>1. LocGood(l, m, openList, tasks', Busy(m)')
    BY <1>8, <1>12, <1>13, <1>16 DEF LocGood
  <2> QED
    BY <1>8, <1>13, <1>14, <2>1, LocationAssumption DEF LocOK
<1>18. BaseInv'
  BY <1>8, <1>14 DEF StreamInv, BaseInv
<1>19. AppendInv'
  BY <1>8, <1>15, AppendStored
<1>20. ThreadGood(c)'
  <2>1. prefetch => m # t.sqn
    BY <1>9, <1>10, ThreadFacts, AheadFields DEF ThreadGood
  <2>2. loc'[t.sqn] = loc[t.sqn] \/ (~prefetch /\ t.sqn = m)
    BY <1>9, <1>10, <1>14, <2>1 DEF ThreadGood
  <2>3. prefetch => loc'[Head(t.ahead)] # NoLoc
    BY <1>9, <1>13, <1>14, LocationAssumption
  <2>4. /\ t.sqn \in Sqns /\ loc'[t.sqn] # NoLoc /\ loc'[t.sqn].stored
        /\ loc'[t.sqn].count = loc[t.sqn].count
    <3>1. /\ t.sqn \in Sqns /\ loc[t.sqn] # NoLoc /\ loc[t.sqn].stored
      BY <1>9, <1>10 DEF ThreadGood
    <3>2. l # NoLoc /\ l.stored /\ l.count = loc[m].count /\ loc'[m] = l
      BY <1>13, <1>14, LocationAssumption
    <3> QED
      BY <2>2, <3>1, <3>2
  <2>5. /\ openLock' = c /\ t.seg = NoSegment
        /\ (t.pc \notin {"ahead", "aheadEnd"} => t.ahead = <<>>)
        /\ \A i \in DOMAIN t.ahead : t.ahead[i] # t.sqn
        /\ (t.pc = "aheadEnd" => t.ahead # <<>>)
    BY <1>8, <1>9, <1>10 DEF ThreadGood
  <2>6. t.pc \in {"ahead", "aheadEnd"} /\ ~t.handled => loc'[t.sqn].count = 0
    BY <1>9, <1>10, <2>4 DEF ThreadGood
  <2>7. Joined(t) => /\ loc'[t.sqn].refs[c] > 0
                     /\ ~loc'[t.sqn].prefetched /\ ~loc'[t.sqn].cancel
    <3>1. SUFFICES ASSUME Joined(t)
                   PROVE  loc'[t.sqn].refs[c] > 0 /\ ~loc'[t.sqn].prefetched /\ ~loc'[t.sqn].cancel
      OBVIOUS
    <3>2. pc = "aheadEnd" /\ t.handled
      BY <1>9, <3>1 DEF Joined
    <3>3. loc'[t.sqn] = loc[t.sqn] /\ Joined(th[c])
      BY <1>9, <2>2, <3>2 DEF Joined
    <3> QED
      BY <1>9, <1>10, <3>3 DEF ThreadGood
  <2>8. t.pc \in {"aheadEnd", "openEnd"} /\ (t.pc = "aheadEnd" => prefetch)
    BY <1>9
  <2> QED
    BY <1>9, <1>14, <2>3, <2>4, <2>5, <2>6, <2>7, <2>8 DEF ThreadGood, Joined
<1>21. OnlyThread(c)
  BY <1>8, <1>14, <1>20 DEF OnlyThread, NotStolen
<1>22. ASSUME NEW d \in Sessions
       PROVE  Kept(m, d, c)
  <2>1. loc[m].refs[d] = 0
    BY <1>12, OnlyReferences DEF LocGood
  <2>2. loc'[m] # NoLoc /\ loc'[m].stored /\ loc'[m].count = loc[m].count
    BY <1>13, <1>14, LocationAssumption
  <2> QED
    BY <2>1, <2>2 DEF Kept
<1> QED
  BY <1>8, <1>11, <1>15, <1>16, <1>17, <1>18, <1>19, <1>21, <1>22, StepGood

\* A read ahead starts to open a segment: StreamInv holds after it.
LEMMA AheadBeginGood ==
    ASSUME StreamInv, PoolGood(pool), NEW c \in Sessions, AheadBegin(c)
    PROVE  StreamInv'
<1>1. PICK m : m = Head(th[c].ahead)
  OBVIOUS
<1>2. /\ th[c].pc = "ahead" /\ th[c].ahead # <<>>
      /\ loc[m] # NoLoc /\ loc[m].stored /\ loc[m].count = 0
      /\ OpenSegment(c, m, TRUE, TRUE, "aheadEnd")
  BY <1>1 DEF AheadBegin
<1>3. m \in Sqns
  BY <1>1, <1>2, ThreadFacts, AheadFields
<1> QED
  BY <1>1, <1>2, <1>3, OpenSegmentGood

\* An open starts to open its segment: StreamInv holds after it.
LEMMA OpenReadGood ==
    ASSUME StreamInv, PoolGood(pool), NEW c \in Sessions, OpenRead(c)
    PROVE  StreamInv'
<1>1. PICK m : m = th[c].sqn
  OBVIOUS
<1>2. PICK async \in BOOLEAN : async <=> c \in AsyncSessions
  OBVIOUS
<1>3. /\ th[c].pc = "ahead" /\ th[c].ahead = <<>> /\ ~th[c].handled
      /\ OpenSegment(c, m, FALSE, async, "openEnd")
  BY <1>1, <1>2 DEF OpenRead
<1>4. m \in Sqns /\ loc[m] # NoLoc /\ loc[m].stored /\ loc[m].count = 0
  BY <1>1, <1>3, ThreadFacts DEF ThreadGood
<1> QED
  BY <1>1, <1>3, <1>4, OpenSegmentGood

\* A location that is good is one.
LEMMA GoodIsLoc ==
    ASSUME NEW l, NEW n, NEW ol, NEW ts, NEW busy, LocGood(l, n, ol, ts, busy)
    PROVE  l \in LocType /\ l # NoLoc /\ l.count = SumOf(l.refs)
  BY LocationAssumption DEF LocGood

\* A step of a thread c in _open on a location n that nobody refers to
LEMMA OpenStepGood ==
    ASSUME StreamInv, NEW c \in Sessions, NEW n \in Sqns, NEW l, NEW t,
           openLock = c, loc[n] # NoLoc, loc[n].stored, loc[n].count = 0,
           \A m \in Sqns \ {n} : Busy(m) = "no",
           loc' = [loc EXCEPT ![n] = l], LocGood(l, n, openList', tasks, "no"), l.stored,
           th' = [th EXCEPT ![c] = t], t.pc \notin {"aheadEnd", "openEnd"}, ThreadGood(c)',
           openLock' \in {openLock, NoSession},
           openList' \in {openList, openList \cup {n}},
           UNCHANGED <<lastSqn, lastAppend, tasks, appendLock, lock, view, crashed>>
    PROVE  StreamInv'
<1>1. /\ th'[c] = t /\ \A d \in Sessions \ {c} : th'[d] = th[d]
      /\ th' = [d \in Sessions |-> th'[d]]
      /\ loc'[n] = l /\ \A k \in Sqns \ {n} : loc'[k] = loc[k]
      /\ loc' = [k \in Sqns |-> loc'[k]]
  BY ThreadChanged, LocChanged DEF StreamInv
<1>2. l # NoLoc
  BY GoodIsLoc
<1>3. Elsewhere(n)
  BY <1>1 DEF Elsewhere
<1>4. \A k \in Sqns : Busy(k)' = "no"
  BY <1>1, StreamAssumption DEF Busy
<1>5. LocOK(n)'
  BY <1>1, <1>2, <1>4 DEF LocOK
<1>6. BaseInv'
  BY <1>1 DEF StreamInv, BaseInv
<1>7. AppendInv'
  BY <1>3, AppendStored
<1>8. OnlyThread(c)
  BY <1>1 DEF OnlyThread, NotStolen
<1>9. ASSUME NEW d \in Sessions
      PROVE  Kept(n, d, c)
  <2>1. loc[n].refs[d] = 0
    BY LocFacts, OnlyReferences
  <2> QED
    BY <1>1, <1>2, <2>1 DEF Kept
<1>10. \A m \in Sqns \ {n} : Busy(m)' = Busy(m)
  BY <1>4
<1> QED
  BY <1>3, <1>5, <1>6, <1>7, <1>8, <1>9, <1>10, StepGood

\* The location of an open that came to nothing: OpenNothing
Cleared(l) == [l EXCEPT !.cancel = FALSE, !.prefetched = FALSE]

\* A location whose load could not start is good once it is cleared.
LEMMA ClearedGood ==
    ASSUME NEW l, NEW n \in Sqns, NEW ol, NEW ts, NEW busy, LocGood(l, n, ol, ts, busy),
           l.stored, l.count = 0, l.id = NoSegment, l.sideId = NoSegment,
           NEW m, m = Cleared(l)
    PROVE  LocGood(m, n, ol, ts, "no") /\ m.stored /\ m.count = 0 /\ m.refs = l.refs
<1>1. /\ m \in LocType /\ m.stored /\ m.count = 0 /\ m.refs = l.refs
      /\ m.id = NoSegment /\ m.sideId = NoSegment /\ ~m.cancel /\ ~m.prefetched
  BY DEF LocGood, Cleared, LocType
<1> QED
  BY <1>1 DEF LocGood

\* The encoder refuses to open the segment: StreamInv holds after it.
LEMMA OpenFailGood ==
    ASSUME StreamInv, NEW c \in Sessions, OpenFail(c)
    PROVE  StreamInv'
<1>1. PICK n : n = th[c].sqn
  OBVIOUS
<1>2. /\ th[c].pc = "ahead" /\ ~th[c].handled /\ th' = [th EXCEPT ![c] = Idle]
      /\ loc' = [loc EXCEPT ![n].prefetched = FALSE, ![n].cancel = FALSE]
      /\ openLock' = NoSession
      /\ UNCHANGED <<openList, lastSqn, lastAppend, tasks, appendLock, lock, view, crashed>>
  BY <1>1 DEF OpenFail
<1>3. /\ openLock = c /\ n \in Sqns /\ loc[n] # NoLoc /\ loc[n].stored /\ loc[n].count = 0
  BY <1>1, <1>2, ThreadFacts DEF ThreadGood
<1>4. \A m \in Sqns : Busy(m) = "no"
  BY <1>2, <1>3 DEF Busy
<1>5. LocGood(loc[n], n, openList, tasks, "no")
  BY <1>3, <1>4, LocFacts
<1>6. PICK l : l = Cleared(loc[n])
  OBVIOUS
<1>7. LocGood(l, n, openList, tasks, "no") /\ l.stored
  <2>1. loc[n].id = NoSegment /\ loc[n].sideId = NoSegment
    BY <1>3, <1>5 DEF LocGood
  <2> QED
    BY <1>3, <1>5, <1>6, <2>1, ClearedGood
<1>8. loc' = [loc EXCEPT ![n] = l]
  BY <1>2, <1>6 DEF Cleared
<1>9. ThreadGood(c)'
  BY <1>2, ThreadChanged, IdleGood DEF StreamInv
<1> QED
  BY <1>2, <1>3, <1>4, <1>7, <1>8, <1>9, IdleFields, OpenStepGood

\* The location of a load that is over, for the two ways it can end
LEMMA LoadedFields ==
    ASSUME NEW l \in LocType, NEW m, m = LoadedLoc(l), l.count = SumOf(l.refs)
    PROVE  /\ m \in LocType /\ m.stored = l.stored /\ m.sideId = NoSegment
           /\ m.waits = {} /\ m.prefetched = l.prefetched /\ m.count = SumOf(m.refs)
           /\ ~m.cancel
           /\ l.cancel => /\ m.count = 0 /\ m.id = NoSegment
                          /\ \A d \in Sessions : m.refs[d] = 0
           /\ ~l.cancel => /\ m.count = l.count /\ m.refs = l.refs /\ m.id = l.sideId
<1>1. CASE l.cancel
  <2>1. PICK u : u = Unreferenced(l)
    OBVIOUS
  <2>2. m = [u EXCEPT !.waits = {}]
    BY <1>1, <2>1 DEF LoadedLoc
  <2>3. /\ u \in LocType /\ u.count = 0 /\ u.count = SumOf(u.refs)
        /\ \A d \in Sessions : u.refs[d] = 0
        /\ u.stored = l.stored /\ u.id = NoSegment /\ u.sideId = NoSegment
        /\ ~u.cancel /\ u.prefetched = l.prefetched
    BY <2>1, UnreferencedFields
  <2>4. /\ m \in LocType /\ m.waits = {}
        /\ m.stored = u.stored /\ m.id = u.id /\ m.sideId = u.sideId
        /\ m.cancel = u.cancel /\ m.prefetched = u.prefetched
        /\ m.count = u.count /\ m.refs = u.refs
    BY <2>2, <2>3, WaitsFields
  <2> QED
    BY <1>1, <2>3, <2>4
<1>2. CASE ~l.cancel
  <2>1. m = [l EXCEPT !.id = l.sideId, !.sideId = NoSegment, !.waits = {}]
    BY <1>2 DEF LoadedLoc
  <2> QED
    BY <1>2, <2>1 DEF LocType
<1> QED
  BY <1>1, <1>2

\* The state of a thread that goes on with another list
Continued(t, a) == [t EXCEPT !.pc = "ahead", !.ahead = a]

\* What the end of a call of openSegment makes of a thread.
LEMMA ContinuedFields ==
    ASSUME NEW t \in ThreadType, NEW a \in AheadLists, NEW u, u = Continued(t, a)
    PROVE  /\ u \in ThreadType /\ u.pc = "ahead" /\ u.sqn = t.sqn /\ u.seg = t.seg
           /\ u.ahead = a /\ u.handled = t.handled
  BY DEF Continued, ThreadType, Pcs, AheadLists

\* openSegment returns for a read ahead: StreamInv holds after it.
LEMMA AheadEndGood ==
    ASSUME StreamInv, NEW c \in Sessions, AheadEnd(c)
    PROVE  StreamInv'
<1>1. PICK m : m = Head(th[c].ahead)
  OBVIOUS
<1>2. PICK l : l = Reference(loc[m], c)
  OBVIOUS
<1>3. PICK k : k = LoadedLoc(l)
  OBVIOUS
<1>4. PICK a : a = IF loc[m].id = NoSegment /\ loc[m].sideId = NoSegment
                   THEN <<>> ELSE Tail(th[c].ahead)
  OBVIOUS
<1>5. PICK t : t = Continued(th[c], a)
  OBVIOUS
<1>6. /\ th[c].pc = "aheadEnd" /\ th' = [th EXCEPT ![c] = t]
      /\ UNCHANGED <<lastSqn, lastAppend, tasks, openLock, appendLock, lock, view, crashed>>
  BY <1>1, <1>4, <1>5 DEF AheadEnd, Continued
<1>7. IF loc[m].id = NoSegment /\ loc[m].sideId = NoSegment
      THEN /\ loc' = [loc EXCEPT ![m].cancel = FALSE, ![m].prefetched = FALSE]
           /\ openList' = openList
      ELSE IF th[c].complete
      THEN /\ loc' = [loc EXCEPT ![m] = k]
           /\ openList' = IF l.cancel THEN openList ELSE openList \cup {m}
      ELSE /\ loc' = [loc EXCEPT ![m] = l]
           /\ openList' = openList \cup {m}
  BY <1>1, <1>2, <1>3 DEF AheadEnd, OpenNothing
<1>8. /\ ThreadGood(c) /\ openLock = c /\ th[c].ahead # <<>> /\ m \in Sqns /\ loc[m] # NoLoc
      /\ m = th[c].ahead[1] /\ 1 \in DOMAIN th[c].ahead /\ m # th[c].sqn
  BY <1>1, <1>6, ThreadFacts, AheadFields DEF ThreadGood
<1>9. /\ Busy(m) = IF th[c].complete THEN "aheadDone" ELSE "ahead"
      /\ \A n \in Sqns \ {m} : Busy(n) = "no"
  BY <1>1, <1>6, <1>8 DEF Busy
<1>10. /\ LocGood(loc[m], m, openList, tasks, Busy(m)) /\ loc[m] \in LocType
       /\ loc[m].count = SumOf(loc[m].refs)
  BY <1>8, LocFacts
<1>11. /\ loc[m].stored /\ loc[m].count = 0 /\ loc[m].prefetched /\ loc[m].id = NoSegment
       /\ loc[m].sideId # NoSegment => loc[m].cancel
       /\ m \notin openList /\ <<"write", m>> \notin tasks
       /\ <<"read", m>> \in tasks => loc[m].sideId # NoSegment
       /\ <<"failed", m>> \in tasks =>
             loc[m].sideId # NoSegment /\ <<"read", m>> \notin tasks
  BY <1>9, <1>10 DEF LocGood
<1>12. \A d \in Sessions : loc[m].refs[d] = 0
  BY <1>10, <1>11, OnlyReferences
<1>13. /\ l \in LocType /\ l.count = 1 /\ l.count = SumOf(l.refs) /\ l.refs[c] = 1
       /\ l.stored /\ l.id = NoSegment /\ l.sideId = loc[m].sideId
       /\ l.cancel = loc[m].cancel /\ l.prefetched
  <2>1. loc[m].refs[c] = 0 /\ loc[m].refs[c] < MaxRefs
    BY <1>12, StreamAssumption
  <2>2. /\ l \in LocType /\ l.count = loc[m].count + 1 /\ l.count = SumOf(l.refs)
        /\ l.refs[c] = loc[m].refs[c] + 1
        /\ l.stored = loc[m].stored /\ l.id = loc[m].id /\ l.sideId = loc[m].sideId
        /\ l.cancel = loc[m].cancel /\ l.prefetched = loc[m].prefetched
    BY <1>2, <1>10, <2>1, ReferenceFields
  <2> QED
    BY <1>11, <2>1, <2>2
<1>14. /\ a \in AheadLists
       /\ \A i \in DOMAIN a : i + 1 \in DOMAIN th[c].ahead /\ a[i] = th[c].ahead[i + 1]
  <2>1. CASE a = <<>>
    BY <2>1, IdleFields, ThreadFields
  <2>2. CASE a = Tail(th[c].ahead)
    BY <1>8, <2>2, ThreadFacts, AheadFields
  <2> QED
    BY <1>4, <2>1, <2>2
<1>15. /\ t \in ThreadType /\ t.pc = "ahead" /\ t.sqn = th[c].sqn /\ t.seg = th[c].seg
       /\ t.ahead = a /\ t.handled = th[c].handled
  BY <1>5, <1>14, ThreadFacts, ContinuedFields
<1>16. ASSUME loc'[th[c].sqn] = loc[th[c].sqn]
       PROVE  ThreadGood(c)'
  <2>1. th'[c] = t
    BY <1>6, ThreadChanged DEF StreamInv
  <2>2. \A i \in DOMAIN a : a[i] # t.sqn
    BY <1>8, <1>14, <1>15 DEF ThreadGood
  <2> QED
    BY <1>6, <1>8, <1>15, <1>16, <2>1, <2>2 DEF ThreadGood, Joined
<1>17. ASSUME NEW v, loc' = [loc EXCEPT ![m] = v]
       PROVE  ThreadGood(c)'
  BY <1>6, <1>8, <1>16, <1>17, LocChanged DEF StreamInv, ThreadGood
<1>18. CASE loc[m].sideId = NoSegment
  <2>1. PICK v : v = Cleared(loc[m])
    OBVIOUS
  <2>2. loc' = [loc EXCEPT ![m] = v] /\ openList' = openList
    BY <1>7, <1>11, <1>18, <2>1 DEF Cleared
  <2>3. LocGood(v, m, openList', tasks, "no") /\ v.stored
    BY <1>10, <1>11, <1>18, <1>8, <2>1, <2>2, ClearedGood
  <2> QED
    BY <1>6, <1>8, <1>9, <1>11, <1>15, <1>17, <2>2, <2>3, OpenStepGood
<1>19. CASE loc[m].sideId # NoSegment /\ th[c].complete
  <2>1. loc' = [loc EXCEPT ![m] = k] /\ openList' = openList
    BY <1>7, <1>11, <1>13, <1>19
  <2>2. /\ k \in LocType /\ k.stored /\ k.sideId = NoSegment /\ k.prefetched
        /\ k.count = SumOf(k.refs) /\ ~k.cancel /\ k.count = 0 /\ k.id = NoSegment
    BY <1>3, <1>11, <1>13, <1>19, LoadedFields
  <2>3. <<"read", m>> \notin tasks /\ <<"failed", m>> \notin tasks
    BY <1>9, <1>10, <1>19 DEF LocGood
  <2>4. LocGood(k, m, openList', tasks, "no")
    BY <1>11, <2>1, <2>2, <2>3 DEF LocGood
  <2> QED
    BY <1>6, <1>8, <1>9, <1>11, <1>15, <1>17, <2>1, <2>2, <2>4, OpenStepGood
<1>20. CASE loc[m].sideId # NoSegment /\ ~th[c].complete
  <2>1. loc' = [loc EXCEPT ![m] = l] /\ openList' = openList \cup {m}
    BY <1>7, <1>20
  <2>2. <<"read", m>> \in tasks \/ <<"failed", m>> \in tasks
    BY <1>9, <1>10, <1>11, <1>20 DEF LocGood
  <2>3. LocGood(l, m, openList', tasks, "no")
    BY <1>11, <1>13, <1>20, <2>1, <2>2 DEF LocGood
  <2> QED
    BY <1>6, <1>8, <1>9, <1>11, <1>13, <1>15, <1>17, <2>1, <2>3, OpenStepGood
<1> QED
  BY <1>18, <1>19, <1>20

\* openSegment returns for an open: StreamInv holds after it.
LEMMA OpenEndGood ==
    ASSUME StreamInv, NEW c \in Sessions, OpenEnd(c)
    PROVE  StreamInv'
<1>1. PICK n : n = th[c].sqn
  OBVIOUS
<1>2. PICK l : l = Reference(loc[n], c)
  OBVIOUS
<1>3. PICK k : k = IF th[c].complete THEN LoadedLoc(l)
                   ELSE IF l.id = NoSegment
                   THEN [l EXCEPT !.waits = @ \cup {c}]
                   ELSE l
  OBVIOUS
<1>4. PICK w : w = [th[c] EXCEPT !.pc = "wait"]
  OBVIOUS
<1>5. /\ th[c].pc = "openEnd" /\ openLock' \in {openLock, NoSession}
      /\ UNCHANGED <<lastSqn, lastAppend, tasks, appendLock, lock, view, crashed>>
      /\ IF loc[n].id = NoSegment /\ loc[n].sideId = NoSegment
         THEN /\ loc' = [loc EXCEPT ![n].cancel = FALSE, ![n].prefetched = FALSE]
              /\ th' = [th EXCEPT ![c] = Idle] /\ openList' = openList
         ELSE /\ loc' = [loc EXCEPT ![n] = k] /\ th' = [th EXCEPT ![c] = w]
              /\ openList' = openList \cup {n}
  BY <1>1, <1>2, <1>3, <1>4 DEF OpenEnd, OpenNothing, Goto
<1>6. /\ ThreadGood(c) /\ openLock = c /\ n \in Sqns /\ loc[n] # NoLoc
      /\ loc[n].stored
  BY <1>1, <1>5, ThreadFacts DEF ThreadGood
<1>7. /\ Busy(n) = IF th[c].complete THEN "openDone" ELSE "open"
      /\ \A m \in Sqns \ {n} : Busy(m) = "no"
  BY <1>1, <1>5, <1>6 DEF Busy
<1>8. /\ LocGood(loc[n], n, openList, tasks, Busy(n)) /\ loc[n] \in LocType
      /\ loc[n].count = SumOf(loc[n].refs)
  BY <1>6, LocFacts
<1>9. /\ loc[n].count = 0 /\ ~loc[n].prefetched /\ ~loc[n].cancel
      /\ n \notin openList /\ <<"write", n>> \notin tasks
      /\ loc[n].id = NoSegment \/ loc[n].sideId = NoSegment
      /\ <<"read", n>> \in tasks => loc[n].sideId # NoSegment
      /\ <<"failed", n>> \in tasks =>
            loc[n].sideId # NoSegment /\ <<"read", n>> \notin tasks
      /\ th[c].complete => loc[n].id = NoSegment /\ <<"read", n>> \notin tasks /\ <<"failed", n>> \notin tasks
      /\ ~th[c].complete /\ loc[n].sideId # NoSegment => <<"read", n>> \in tasks \/ <<"failed", n>> \in tasks
  BY <1>6, <1>7, <1>8 DEF LocGood
<1>10. \A d \in Sessions : loc[n].refs[d] = 0
  BY <1>8, <1>9, OnlyReferences
<1>11. /\ l \in LocType /\ l.count = 1 /\ l.count = SumOf(l.refs) /\ l.refs[c] = 1
       /\ l.stored /\ l.id = loc[n].id /\ l.sideId = loc[n].sideId
       /\ ~l.cancel /\ ~l.prefetched
  <2>1. loc[n].refs[c] = 0 /\ loc[n].refs[c] < MaxRefs
    BY <1>10, StreamAssumption
  <2>2. /\ l \in LocType /\ l.count = loc[n].count + 1 /\ l.count = SumOf(l.refs)
        /\ l.refs[c] = loc[n].refs[c] + 1
        /\ l.stored = loc[n].stored /\ l.id = loc[n].id /\ l.sideId = loc[n].sideId
        /\ l.cancel = loc[n].cancel /\ l.prefetched = loc[n].prefetched
    BY <1>2, <1>8, <2>1, ReferenceFields
  <2> QED
    BY <1>6, <1>9, <2>1, <2>2
<1>12. CASE loc[n].id = NoSegment /\ loc[n].sideId = NoSegment
  <2>1. PICK v : v = Cleared(loc[n])
    OBVIOUS
  <2>2. loc' = [loc EXCEPT ![n] = v] /\ openList' = openList /\ th' = [th EXCEPT ![c] = Idle]
    BY <1>5, <1>12, <2>1 DEF Cleared
  <2>3. LocGood(v, n, openList', tasks, "no") /\ v.stored
    BY <1>6, <1>8, <1>9, <1>12, <2>1, <2>2, ClearedGood
  <2>4. ThreadGood(c)'
    BY <2>2, ThreadChanged, IdleGood DEF StreamInv
  <2> QED
    BY <1>5, <1>6, <1>7, <1>9, <2>2, <2>3, <2>4, IdleFields, OpenStepGood
<1>13. CASE ~(loc[n].id = NoSegment /\ loc[n].sideId = NoSegment)
  <2>1. /\ loc' = [loc EXCEPT ![n] = k] /\ th' = [th EXCEPT ![c] = w]
        /\ openList' = openList \cup {n}
    BY <1>5, <1>13
  <2>2. LocGood(k, n, openList', tasks, "no") /\ k.stored /\ k.refs[c] = 1
        /\ ~k.prefetched /\ ~k.cancel
    <3>1. CASE th[c].complete
      <4>1. k = LoadedLoc(l)
        BY <1>3, <3>1
      <4>2. /\ k \in LocType /\ k.stored /\ k.sideId = NoSegment /\ ~k.prefetched
            /\ ~k.cancel /\ k.count = 1 /\ k.count = SumOf(k.refs)
            /\ k.refs[c] = 1 /\ k.id = loc[n].sideId
        BY <1>11, <4>1, LoadedFields
      <4> QED
        BY <1>9, <1>13, <2>1, <3>1, <4>2 DEF LocGood
    <3>2. CASE ~th[c].complete
      <4>1. \E v \in SUBSET Sessions : k = [l EXCEPT !.waits = v]
        <5>1. l.waits \in SUBSET Sessions /\ l = [l EXCEPT !.waits = l.waits]
          BY <1>11, LocFields DEF LocType
        <5>2. l.waits \cup {c} \in SUBSET Sessions
          BY <5>1
        <5> QED
          BY <1>3, <3>2, <5>1, <5>2
      <4>2. /\ k \in LocType /\ k.stored /\ k.sideId = loc[n].sideId /\ ~k.prefetched
            /\ ~k.cancel /\ k.count = 1 /\ k.count = SumOf(k.refs)
            /\ k.refs[c] = 1 /\ k.id = loc[n].id
        BY <1>11, <4>1, WaitsFields
      <4> QED
        BY <1>9, <1>13, <2>1, <3>2, <4>2 DEF LocGood
    <3> QED
      BY <3>1, <3>2
  <2>3. /\ w \in ThreadType /\ w.pc = "wait" /\ w.sqn = n /\ w.seg = th[c].seg
        /\ w.ahead = th[c].ahead
    BY <1>1, <1>4, AtPc, ThreadFacts DEF Pcs
  <2>4. ThreadGood(c)'
    <3>1. th'[c] = w /\ loc'[n] = k /\ k # NoLoc
      BY <1>6, <2>1, <2>2, ThreadChanged, LocChanged, GoodIsLoc DEF StreamInv
    <3>2. w.ahead = <<>> /\ \A i \in DOMAIN w.ahead : w.ahead[i] # w.sqn
      BY <1>5, <1>6, <2>3 DEF ThreadGood
    <3> QED
      BY <1>5, <1>6, <2>2, <2>3, <3>1, <3>2 DEF ThreadGood, Joined
  <2> QED
    BY <1>5, <1>6, <1>7, <1>9, <2>1, <2>2, <2>3, <2>4, OpenStepGood
<1> QED
  BY <1>12, <1>13

-----------------------------------------------------------------------------
(* The steps of append, addSegment and the first section of open.          *)

\* The location that _addSegmentLocation makes
LEMMA AddLocationGood ==
    ASSUME StreamInv, NEW c \in Sessions, th[c].pc \in {"append", "add"},
           th[c].seg # NoSegment, AddSegmentLocation(c),
           lastAppend' \in {lastAppend, th[c].sqn}
    PROVE  StreamInv'
<1>1. PICK n : n = th[c].sqn
  OBVIOUS
<1>2. PICK s : s = th[c].seg
  OBVIOUS
<1>3. PICK l : l = NewLoc(c, s)
  OBVIOUS
<1>4. /\ n \in Sqns /\ loc[n] = NoLoc /\ s \in Segments /\ appendLock = c
  BY <1>1, <1>2, ThreadFacts DEF ThreadGood
<1>5. /\ loc' = [loc EXCEPT ![n] = l] /\ openList' = openList \cup {n}
      /\ lastSqn' = IF n > lastSqn THEN n ELSE lastSqn
      /\ view' = [view EXCEPT ![c][n] = s] /\ appendLock' = NoSession
      /\ th' = [th EXCEPT ![c] = Idle]
      /\ UNCHANGED <<tasks, openLock, lock, crashed>>
  BY <1>1, <1>2, <1>3 DEF AddSegmentLocation
<1>6. /\ n \notin openList /\ <<"write", n>> \notin tasks /\ <<"read", n>> \notin tasks /\ <<"failed", n>> \notin tasks
      /\ Busy(n) = "no"
  BY <1>4 DEF StreamInv, LocInv, LocOK
<1>7. /\ LocGood(l, n, openList', tasks', "no") /\ ~l.stored /\ l.id = s
  BY <1>3, <1>4, <1>5, <1>6, NewLocGood
<1>8. l # NoLoc
  BY <1>7, GoodIsLoc
<1>9. /\ th'[c] = Idle /\ \A d \in Sessions \ {c} : th'[d] = th[d]
      /\ th' = [d \in Sessions |-> th'[d]]
      /\ loc'[n] = l /\ \A k \in Sqns \ {n} : loc'[k] = loc[k]
      /\ loc' = [k \in Sqns |-> loc'[k]]
  BY <1>4, <1>5, ThreadChanged, LocChanged DEF StreamInv
<1>10. Elsewhere(n)
  BY <1>5, <1>9 DEF Elsewhere
<1>11. \A m \in Sqns : Busy(m)' = Busy(m)
  BY <1>5, <1>9, IdleFields, BusySame
<1>12. LocOK(n)'
  BY <1>6, <1>7, <1>8, <1>9, <1>11, <1>4 DEF LocOK
<1>13. BaseInv'
  <2>1. /\ lastSqn' \in Sqns \cup {NoSqn} /\ lastAppend' \in Sqns \cup {NoSqn}
    BY <1>1, <1>4, <1>5 DEF StreamInv, BaseInv
  <2>2. view' \in [Sessions -> [Sqns -> Segments \cup {NoSegment}]]
    BY <1>4, <1>5 DEF StreamInv, BaseInv
  <2> QED
    BY <1>4, <1>5, <1>9, <2>1, <2>2 DEF StreamInv, BaseInv
<1>14. AppendInv'
  <2>1. ASSUME NEW m \in Sqns, m > lastSqn'
        PROVE  loc'[m] = NoLoc
    <3>1. m > lastSqn /\ m # n
      BY <1>4, <1>5, <2>1, StreamAssumption DEF Sqns, NoSqn, StreamInv, BaseInv
    <3> QED
      BY <1>9, <3>1 DEF StreamInv, AppendInv
  <2>2. lastAppend' # NoSqn => /\ loc'[lastAppend'] # NoLoc
                               /\ ~loc'[lastAppend'].stored
                               /\ loc'[lastAppend'].id # NoSegment
    <3>1. CASE lastAppend' = n
      BY <1>4, <1>7, <1>8, <1>9, <3>1, PoolAssumption
    <3>2. CASE lastAppend' # n
      BY <1>1, <1>4, <1>9, <3>2 DEF StreamInv, BaseInv, AppendInv
    <3> QED
      BY <3>1, <3>2
  <2> QED
    BY <2>1, <2>2 DEF AppendInv
<1>15. ThreadGood(c)'
  BY <1>9, IdleGood
<1>16. OnlyThread(c)
  BY <1>4, <1>5, <1>9, <1>15 DEF OnlyThread, NotStolen
<1>17. \A d \in Sessions \ {c} : Kept(n, d, c)
  BY <1>4 DEF Kept
<1> QED
  BY <1>4, <1>5, <1>10, <1>11, <1>12, <1>13, <1>14, <1>16, <1>17, StepGood

\* append() adds the location of its segment: StreamInv holds after it.
LEMMA AppendEndGood ==
    ASSUME StreamInv, NEW c \in Sessions, AppendEnd(c)
    PROVE  StreamInv'
  BY AddLocationGood DEF AppendEnd

\* addSegment() adds the location of its segment: StreamInv holds after it.
LEMMA AddEndGood ==
    ASSUME StreamInv, NEW c \in Sessions, AddEnd(c)
    PROVE  StreamInv'
<1>1. th[c].pc = "add" /\ th[c].seg # NoSegment
  BY ThreadFacts DEF AddEnd, ThreadGood
<1> QED
  BY <1>1, AddLocationGood DEF AddEnd

\* The state of a thread that opens segment n
Opener(n, h, a) == [Idle EXCEPT !.pc = "ahead", !.sqn = n, !.handled = h, !.ahead = a]

\* The thread that has begun an open.
LEMMA OpenerFields ==
    ASSUME NEW n \in Sqns, NEW h \in BOOLEAN, NEW a \in AheadLists, NEW t, t = Opener(n, h, a)
    PROVE  /\ t \in ThreadType /\ t.pc = "ahead" /\ t.sqn = n /\ t.seg = NoSegment
           /\ t.ahead = a /\ t.handled = h
<1>1. t = [pc |-> "ahead", sqn |-> n, seg |-> NoSegment, ahead |-> a, handled |-> h,
           complete |-> FALSE, todo |-> {}]
  BY DEF Opener, Idle
<1>2. t \in ThreadType
  BY <1>1 DEF ThreadType, AheadLists, Pcs
<1> QED
  BY <1>1, <1>2

\* What m, the location l after c shared it, looks like
Shared(l, c, m) ==
    /\ m \in LocType /\ m.count > 0 /\ m.count = SumOf(m.refs)
    /\ m.refs[c] > 0
    /\ ~l.prefetched => /\ m.refs[c] = l.refs[c] + 1
                        /\ \A d \in Sessions \ {c} : m.refs[d] = l.refs[d]
    /\ l.prefetched => \A d \in Sessions \ {c} : m.refs[d] = 0
    /\ m.stored = l.stored /\ m.id = l.id /\ m.sideId = l.sideId
    /\ ~m.cancel /\ ~m.prefetched
    /\ m.waits = IF l.id = NoSegment THEN l.waits \cup {c} ELSE l.waits

\* The location l when open has joined c to it
Joining(l, c) ==
    [SharedLoc(l, c) EXCEPT !.waits = IF l.id = NoSegment THEN @ \cup {c} ELSE @]

\* A location that another session references gets one reference more.
LEMMA SharedAre ==
    ASSUME NEW l \in LocType, l.count = SumOf(l.refs), NEW c \in Sessions,
           l.refs[c] < MaxRefs, l.count > 0, l.prefetched => l.count <= 1,
           NEW m, m = Joining(l, c)
    PROVE  Shared(l, c, m)
<1>1. PICK u : u = SharedLoc(l, c)
  OBVIOUS
<1>2. /\ u \in LocType /\ u.count > 0 /\ u.count = SumOf(u.refs)
      /\ u.refs[c] > 0
      /\ ~l.prefetched => /\ u.refs[c] = l.refs[c] + 1
                          /\ \A d \in Sessions \ {c} : u.refs[d] = l.refs[d]
      /\ l.prefetched => \A d \in Sessions \ {c} : u.refs[d] = 0
      /\ u.stored = l.stored /\ u.id = l.id /\ u.sideId = l.sideId
      /\ ~u.cancel /\ ~u.prefetched /\ u.waits = l.waits
  BY <1>1, SharedFields
<1>3. PICK w : w = IF l.id = NoSegment THEN l.waits \cup {c} ELSE l.waits
  OBVIOUS
<1>4. w \in SUBSET Sessions
  BY <1>3, LocFields
<1>5. m = [u EXCEPT !.waits = w]
  BY <1>1, <1>2, <1>3 DEF Joining
<1>6. /\ m \in LocType /\ m.waits = w
      /\ m.stored = u.stored /\ m.id = u.id /\ m.sideId = u.sideId
      /\ m.cancel = u.cancel /\ m.prefetched = u.prefetched
      /\ m.count = u.count /\ m.refs = u.refs
  <2>1. u \in LocType
    BY <1>2
  <2> QED
    BY <1>4, <1>5, <2>1, WaitsFields
<1> QED
  BY <1>2, <1>3, <1>6 DEF Shared

\* The thread of c becomes an opener.
Opens(c, n, h, a) ==
    /\ th'[c] \in ThreadType /\ th'[c].pc = "ahead" /\ th'[c].sqn = n
    /\ th'[c].seg = NoSegment /\ th'[c].ahead = a /\ th'[c].handled = h
    /\ \A d \in Sessions \ {c} : th'[d] = th[d]
    /\ th' = [d \in Sessions |-> th'[d]]

\* The first section of open: the segment is shared if it is open already.
Began(c, n) ==
    /\ \E a \in AheadLists, h \in BOOLEAN :
          /\ Opens(c, n, h, a) /\ \A i \in DOMAIN a : a[i] # n
          /\ h <=> loc[n].count > 0
    /\ loc[n].count = 0 => loc' = loc
    /\ loc[n].count > 0 =>
          \E l : loc' = [loc EXCEPT ![n] = l] /\ Shared(loc[n], c, l)
    /\ \A m \in Sqns : Busy(m)' = "no" /\ Busy(m) = "no"
    /\ th[c].pc = "idle" /\ openLock = NoSession /\ openLock' = c /\ lock = NoSession
    /\ loc[n] # NoLoc /\ loc[n].stored
    /\ UNCHANGED <<pool, openList, lastSqn, lastAppend, tasks, appendLock, lock,
                   view, crashed>>

\* The first section of open joins a location that is in use, and leaves one
\* that is not as it is.
LEMMA OpenBeginFacts ==
    ASSUME StreamInv, NEW c \in Sessions, NEW n \in Sqns, NEW scan \in BOOLEAN,
           OpenBegin(c, n, scan)
    PROVE  Began(c, n)
<1>2. PICK a : a = IF scan THEN ReadAheadList(n) ELSE <<>>
  OBVIOUS
<1>4. /\ th[c].pc = "idle" /\ openLock = NoSession /\ loc[n] # NoLoc /\ loc[n].stored
      /\ loc[n].refs[c] < MaxRefs /\ openLock' = c /\ lock = NoSession
      /\ th' = [th EXCEPT ![c] = [Idle EXCEPT !.pc = "ahead", !.sqn = n,
                    !.handled = loc[n].count > 0,
                    !.ahead = IF scan THEN ReadAheadList(n) ELSE <<>>]]
      /\ loc' = IF loc[n].count = 0 THEN loc
                ELSE [loc EXCEPT ![n] =
                        [SharedLoc(loc[n], c) EXCEPT
                           !.waits = IF loc[n].id = NoSegment THEN @ \cup {c} ELSE @]]
      /\ UNCHANGED <<pool, openList, lastSqn, lastAppend, tasks, appendLock, lock,
                     view, crashed>>
  BY DEF OpenBegin, Unlocked
<1>5. a \in AheadLists /\ \A i \in DOMAIN a : a[i] # n
  <2>1. CASE scan
    <3>1. PICK k \in 0..ReadAheadAmount :
             /\ ReadAheadList(n) \in [1..k -> Sqns]
             /\ \A i \in 1..k : ReadAheadList(n)[i] > n
      BY ReadAheadMembers
    <3>2. a \in [1..k -> Sqns] /\ \A i \in 1..k : a[i] > n
      BY <1>2, <2>1, <3>1
    <3>3. \A i \in 1..k : a[i] # n
      BY <3>2, StreamAssumption DEF Sqns
    <3> QED
      BY <3>2, <3>3 DEF AheadLists
  <2>2. CASE ~scan
    <3>1. a = <<>>
      BY <1>2, <2>2
    <3> QED
      BY <3>1, IdleFields, ThreadFields
  <2> QED
    BY <2>1, <2>2
<1>6. ASSUME NEW h \in BOOLEAN, th' = [th EXCEPT ![c] = Opener(n, h, a)]
      PROVE  Opens(c, n, h, a)
  <2>1. PICK t : t = Opener(n, h, a)
    OBVIOUS
  <2>2. /\ t \in ThreadType /\ t.pc = "ahead" /\ t.sqn = n /\ t.seg = NoSegment
        /\ t.ahead = a /\ t.handled = h
    BY <1>5, <2>1, OpenerFields
  <2>3. /\ th'[c] = t /\ \A d \in Sessions \ {c} : th'[d] = th[d]
        /\ th' = [d \in Sessions |-> th'[d]]
    BY <1>6, <2>1, ThreadChanged DEF StreamInv
  <2> QED
    BY <2>2, <2>3 DEF Opens
<1>7. loc[n].count = 0 => Opens(c, n, FALSE, a)
  <2>1. SUFFICES ASSUME loc[n].count = 0
                 PROVE  Opens(c, n, FALSE, a)
    OBVIOUS
  <2>2. (loc[n].count > 0) = FALSE
    BY <2>1
  <2>3. th' = [th EXCEPT ![c] = Opener(n, FALSE, a)]
    BY <1>2, <1>4, <2>2 DEF Opener
  <2> QED
    BY <1>6, <2>3
<1>8. loc[n].count > 0 => Opens(c, n, TRUE, a)
  <2>1. SUFFICES ASSUME loc[n].count > 0
                 PROVE  Opens(c, n, TRUE, a)
    OBVIOUS
  <2>2. (loc[n].count > 0) = TRUE
    BY <2>1
  <2>3. th' = [th EXCEPT ![c] = Opener(n, TRUE, a)]
    BY <1>2, <1>4, <2>2, Zenon DEF Opener
  <2> QED
    BY <1>6, <2>3
<1>9. \A m \in Sqns : Busy(m)' = "no" /\ Busy(m) = "no"
  <2>1. th'[c].pc = "ahead"
    <3>1. loc[n].count \in Nat
      <4>1. loc[n] \in LocType
        BY <1>4, LocFacts
      <4> QED
        BY <4>1, LocFields
    <3>2. loc[n].count = 0 \/ loc[n].count > 0
      BY <3>1
    <3> QED
      BY <1>7, <1>8, <3>2 DEF Opens
  <2> QED
    BY <1>4, <2>1, StreamAssumption DEF Busy
<1>10. /\ LocGood(loc[n], n, openList, tasks, "no") /\ loc[n] \in LocType
       /\ loc[n].count = SumOf(loc[n].refs) /\ loc[n].count \in Nat
  BY <1>4, <1>9, LocFacts, LocFields
<1>11. loc[n].count = 0 => loc' = loc
  BY <1>4
<1>12. loc[n].count > 0 => \E l : loc' = [loc EXCEPT ![n] = l] /\ Shared(loc[n], c, l)
  <2>1. SUFFICES ASSUME loc[n].count > 0
                 PROVE  \E l : loc' = [loc EXCEPT ![n] = l] /\ Shared(loc[n], c, l)
    OBVIOUS
  <2>2. PICK l : l = Joining(loc[n], c)
    OBVIOUS
  <2>3. loc[n].count # 0 /\ (loc[n].prefetched => loc[n].count <= 1)
    BY <1>10, <2>1 DEF LocGood
  <2>4. loc' = [loc EXCEPT ![n] = l]
    BY <1>4, <2>2, <2>3, Zenon DEF Joining
  <2>5. Shared(loc[n], c, l)
    BY <1>4, <1>10, <2>1, <2>2, <2>3, SharedAre
  <2> QED
    BY <2>4, <2>5
<1>13. \E b \in AheadLists, h \in BOOLEAN :
          /\ Opens(c, n, h, b) /\ \A i \in DOMAIN b : b[i] # n
          /\ h <=> loc[n].count > 0
  <2>1. CASE loc[n].count = 0
    <3>1. ~(loc[n].count > 0)
      BY <2>1
    <3> QED
      BY <1>5, <1>7, <2>1, <3>1, Zenon
  <2>2. CASE loc[n].count > 0
    BY <1>5, <1>8, <2>2, Zenon
  <2>3. loc[n].count = 0 \/ loc[n].count > 0
    BY <1>10
  <2> QED
    BY <2>1, <2>2, <2>3
<1> QED
  BY <1>4, <1>9, <1>11, <1>12, <1>13 DEF Began

\* open() begins: StreamInv holds after it.
LEMMA OpenBeginGood ==
    ASSUME StreamInv, NEW c \in Sessions, NEW n \in Sqns, NEW scan \in BOOLEAN,
           OpenBegin(c, n, scan)
    PROVE  StreamInv'
<1>1. Began(c, n)
  BY OpenBeginFacts
<1>2. PICK a \in AheadLists, h \in BOOLEAN :
         /\ Opens(c, n, h, a) /\ \A i \in DOMAIN a : a[i] # n
         /\ h <=> loc[n].count > 0
  BY <1>1 DEF Began
<1>4. /\ th[c].pc = "idle" /\ openLock = NoSession /\ loc[n] # NoLoc /\ loc[n].stored
      /\ openLock' = c /\ lock = NoSession
      /\ UNCHANGED <<openList, lastSqn, lastAppend, tasks, appendLock, lock, view, crashed>>
  BY <1>1 DEF Began
<1>5. PICK t : t = th'[c]
  OBVIOUS
<1>6. /\ t \in ThreadType /\ t.pc = "ahead" /\ t.sqn = n /\ t.seg = NoSegment
      /\ t.ahead = a /\ t.handled = h
  BY <1>2, <1>5 DEF Opens
<1>9. \A m \in Sqns : Busy(m)' = "no" /\ Busy(m) = "no"
  BY <1>1 DEF Began
<1>10. /\ LocGood(loc[n], n, openList, tasks, "no") /\ loc[n] \in LocType
       /\ loc[n].count = SumOf(loc[n].refs) /\ loc[n].count \in Nat
  BY <1>4, <1>9, LocFacts, LocFields
<1>11. CASE loc[n].count = 0
  <2>1. loc' = loc
    BY <1>1, <1>11 DEF Began
  <2>2. BaseInv'
    BY <1>2, <1>4, <2>1 DEF StreamInv, BaseInv, Opens
  <2>3. ThreadGood(c)'
    <3>1. loc'[n] = loc[n] /\ \A i \in DOMAIN t.ahead : t.ahead[i] # n
      BY <1>2, <1>6, <2>1
    <3>2. ~(loc[n].count > 0)
      BY <1>11
    <3>3. t.handled = FALSE
      BY <1>2, <1>6, <3>2, Zenon
    <3> QED
      BY <1>4, <1>5, <1>6, <1>11, <3>1, <3>3 DEF ThreadGood, Joined
  <2>4. OnlyThread(c)
    BY <1>2, <1>4, <2>3 DEF OnlyThread, NotStolen, Opens
  <2>5. \A m \in Sqns : Busy(m)' = Busy(m)
    BY <1>9
  <2> QED
    BY <1>4, <2>1, <2>2, <2>4, <2>5, StepSame
<1>12. CASE loc[n].count > 0
  <2>1. PICK l : loc' = [loc EXCEPT ![n] = l] /\ Shared(loc[n], c, l)
    BY <1>1, <1>12 DEF Began
  <2>6. /\ l \in LocType /\ l.count > 0 /\ l.count = SumOf(l.refs)
        /\ l.refs[c] > 0
        /\ ~loc[n].prefetched => \A d \in Sessions \ {c} : l.refs[d] = loc[n].refs[d]
        /\ l.stored /\ l.id = loc[n].id /\ l.sideId = loc[n].sideId
        /\ ~l.cancel /\ ~l.prefetched
    BY <1>4, <2>1 DEF Shared
  <2>7. /\ loc'[n] = l /\ \A k \in Sqns \ {n} : loc'[k] = loc[k]
        /\ loc' = [k \in Sqns |-> loc'[k]] /\ l # NoLoc
    BY <2>1, <2>6, LocChanged, LocationAssumption DEF StreamInv
  <2>8. Elsewhere(n)
    BY <1>4, <2>7 DEF Elsewhere
  <2>9. LocOK(n)'
    <3>1. LocGood(l, n, openList, tasks, "no")
      BY <1>4, <1>10, <1>12, <2>6 DEF LocGood
    <3> QED
      BY <1>4, <1>9, <2>7, <3>1 DEF LocOK
  <2>10. BaseInv'
    BY <1>2, <1>4, <2>7 DEF StreamInv, BaseInv, Opens
  <2>11. AppendInv'
    BY <1>4, <2>8, AppendStored
  <2>12. ThreadGood(c)'
    <3>1. openLock' = c /\ t.sqn \in Sqns /\ \A i \in DOMAIN t.ahead : t.ahead[i] # t.sqn
      BY <1>2, <1>4, <1>6
    <3>2. /\ loc'[t.sqn] # NoLoc /\ loc'[t.sqn].stored /\ loc'[t.sqn].refs[c] > 0
          /\ ~loc'[t.sqn].prefetched /\ ~loc'[t.sqn].cancel
      BY <1>6, <2>6, <2>7
    <3>3. t.handled = TRUE
      BY <1>2, <1>6, <1>12, Zenon
    <3> QED
      BY <1>5, <1>6, <3>1, <3>2, <3>3 DEF ThreadGood, Joined
  <2>13. OnlyThread(c)
    BY <1>2, <1>4, <2>12 DEF OnlyThread, NotStolen, Opens
  <2>14. \A d \in Sessions \ {c} : Kept(n, d, c)
    BY <1>4, <1>12, <2>6, <2>7 DEF Kept
  <2>15. \A m \in Sqns \ {n} : Busy(m)' = Busy(m)
    BY <1>9
  <2> QED
    BY <1>4, <2>8, <2>9, <2>10, <2>11, <2>13, <2>14, <2>15, StepGood
<1> QED
  BY <1>10, <1>11, <1>12

-----------------------------------------------------------------------------
(* The steps of close, and of a session that detaches.                     *)

\* What closing location n does for c, who has references to it: one is
\* dropped, or the segment is closed because c has the only ones.
Closed(n, c) ==
    /\ openList' \in SUBSET Sqns /\ tasks' \in SUBSET ({"read", "write", "failed"} \X Sqns)
    /\ lastAppend' \in Sqns \cup {NoSqn} /\ loc' = [m \in Sqns |-> loc'[m]]
    /\ Elsewhere(n) /\ Busy(n) = "no"
    /\ IF loc'[n] = NoLoc
       THEN n \notin openList' /\ <<"write", n>> \notin tasks' /\ <<"read", n>> \notin tasks' /\ <<"failed", n>> \notin tasks'
       ELSE LocGood(loc'[n], n, openList', tasks', "no")
    /\ \A d \in Sessions \ {c} : Kept(n, d, c)
    /\ lastSqn' = lastSqn => AppendInv'

\* The location of a close that has to wait
Canceled(l, w) == [l EXCEPT !.cancel = TRUE, !.waits = w]

\* The location of a segment that goes to the encoder
Written(l, w) == [l EXCEPT !.sideId = l.id, !.id = NoSegment, !.waits = w]

\* What a canceled load makes of a location.
LEMMA CanceledFields ==
    ASSUME NEW l \in LocType, NEW w \in SUBSET Sessions, NEW m, m = Canceled(l, w)
    PROVE  /\ m \in LocType /\ m.stored = l.stored /\ m.id = l.id /\ m.sideId = l.sideId
           /\ m.cancel /\ m.prefetched = l.prefetched /\ m.count = l.count
           /\ m.refs = l.refs /\ m.waits = w
  BY DEF Canceled, LocType

\* What handing the segment to the writer makes of a location.
LEMMA WrittenFields ==
    ASSUME NEW l \in LocType, NEW w \in SUBSET Sessions, NEW m, m = Written(l, w)
    PROVE  /\ m \in LocType /\ m.stored = l.stored /\ m.id = NoSegment /\ m.sideId = l.id
           /\ m.cancel = l.cancel /\ m.prefetched = l.prefetched /\ m.count = l.count
           /\ m.refs = l.refs /\ m.waits = w
  BY DEF Written, LocType

\* A location that is referenced is not between the request and _open.
LEMMA OpenIsNotBusy ==
    ASSUME StreamInv, NEW n \in Sqns, loc[n] # NoLoc, loc[n].count > 0
    PROVE  Busy(n) = "no"
<1>1. LocGood(loc[n], n, openList, tasks, Busy(n))
  BY LocFacts
<1>2. loc[n].count # 0
  OBVIOUS
<1> QED
  BY <1>1, <1>2 DEF LocGood

\* _close for a session: one of its references is dropped, or the location is
\* closed, because nobody else references it or because it was written.
LEMMA CloseIsClosed ==
    ASSUME StreamInv, NEW c \in Sessions, NEW n \in Sqns, loc[n] # NoLoc, loc[n].count > 0,
           loc[n].count = loc[n].refs[c] \/ (loc[n].count = 1 /\ loc[n].refs[c] > 0)
               \/ ~loc[n].stored,
           NEW waiter \in SUBSET Sessions, CloseLocation(n, waiter)
    PROVE  Closed(n, c)
<1>1. PICK l : l = loc[n]
  OBVIOUS
<1>2. /\ l \in LocType /\ LocGood(l, n, openList, tasks, "no") /\ l.count > 0
      /\ l.count = SumOf(l.refs) /\ n \in openList /\ Busy(n) = "no"
  BY <1>1, LocFacts, OpenIsNotBusy DEF LocGood
<1>3. \A d \in Sessions \ {c} : l.refs[d] = 0 \/ ~l.stored
  BY <1>1, <1>2, OnlyReferences
<1>4. PICK w \in SUBSET Sessions : w = l.waits \cup waiter
  BY <1>2, LocFields
<1>5. lastAppend \in Sqns \cup {NoSqn} /\ NoSqn \notin Sqns
  BY StreamAssumption DEF Sqns, NoSqn, StreamInv, BaseInv
<1>6. openList \in SUBSET Sqns /\ tasks \in SUBSET ({"read", "write", "failed"} \X Sqns)
  BY DEF StreamInv, BaseInv
<1>7. ASSUME NEW v, loc' = [loc EXCEPT ![n] = v],
             openList' \in {openList, openList \ {n}},
             tasks' \in {tasks, tasks \cup {<<"write", n>>}},
             v = NoLoc => n \notin openList' /\ <<"write", n>> \notin tasks' /\ <<"read", n>> \notin tasks' /\ <<"failed", n>> \notin tasks',
             v # NoLoc => LocGood(v, n, openList', tasks', "no"),
             l.stored => v # NoLoc /\ v.stored,
             lastAppend' \in {lastAppend, NoSqn}, n = lastAppend => lastAppend' = NoSqn
      PROVE  Closed(n, c)
  <2>1. /\ loc'[n] = v /\ \A k \in Sqns \ {n} : loc'[k] = loc[k]
        /\ loc' = [k \in Sqns |-> loc'[k]]
    BY <1>7, LocChanged DEF StreamInv
  <2>2. Elsewhere(n)
    BY <1>7, <2>1 DEF Elsewhere
  <2>3. \A d \in Sessions \ {c} : Kept(n, d, c)
    BY <1>1, <1>2, <1>3, <1>7, <2>1 DEF Kept
  <2>4. ASSUME lastSqn' = lastSqn
        PROVE  AppendInv'
    <3>1. \A m \in Sqns : /\ loc[m] = NoLoc => loc'[m] = NoLoc
                          /\ m = lastAppend' => loc'[m] = loc[m]
      BY <1>1, <1>2, <1>5, <1>7, <2>1
    <3> QED
      BY <1>5, <1>7, <2>4, <3>1, AppendSame DEF StreamInv
  <2>5. openList' \in SUBSET Sqns /\ tasks' \in SUBSET ({"read", "write", "failed"} \X Sqns)
    BY <1>6, <1>7
  <2>6. lastAppend' \in Sqns \cup {NoSqn}
    BY <1>5, <1>7
  <2>7. IF loc'[n] = NoLoc
        THEN n \notin openList' /\ <<"write", n>> \notin tasks' /\ <<"read", n>> \notin tasks' /\ <<"failed", n>> \notin tasks'
        ELSE LocGood(loc'[n], n, openList', tasks', "no")
    BY <1>7, <2>1
  <2> QED
    BY <1>2, <2>1, <2>2, <2>3, <2>4, <2>5, <2>6, <2>7 DEF Closed
<1>8. CASE CloseInProgress(n, waiter)
  <2>1. PICK v : v = Canceled(l, w)
    OBVIOUS
  <2>2. l.id = NoSegment /\ UNCHANGED <<openList, tasks, lastAppend>>
    BY <1>1, <1>8 DEF CloseInProgress
  <2>3. loc' = [loc EXCEPT ![n] = v]
    BY <1>1, <1>4, <1>8, <2>1 DEF CloseInProgress, Canceled
  <2>4. /\ v \in LocType /\ v.stored = l.stored /\ v.id = l.id /\ v.sideId = l.sideId
        /\ v.cancel /\ v.prefetched = l.prefetched /\ v.count = l.count /\ v.refs = l.refs
    BY <1>2, <2>1, CanceledFields
  <2>5. LocGood(v, n, openList', tasks', "no")
    BY <1>2, <2>2, <2>4 DEF LocGood
  <2>6. n # lastAppend
    BY <1>1, <2>2, <1>5 DEF StreamInv, AppendInv
  <2>7. v # NoLoc
    BY <2>5, GoodIsLoc
  <2> QED
    BY <1>7, <2>2, <2>3, <2>4, <2>5, <2>6, <2>7
<1>9. CASE CloseRead(n)
  <2>1. PICK v : v = Unreferenced(l)
    OBVIOUS
  <2>2. /\ l.id # NoSegment /\ l.stored /\ loc' = [loc EXCEPT ![n] = v]
        /\ openList' = openList \ {n} /\ UNCHANGED <<tasks, lastAppend>>
    BY <1>1, <1>9, <2>1 DEF CloseRead
  <2>3. /\ v \in LocType /\ v.count = 0 /\ v.count = SumOf(v.refs)
        /\ v.stored = l.stored /\ v.id = NoSegment /\ v.sideId = NoSegment
        /\ ~v.cancel /\ v.prefetched = l.prefetched
    BY <1>2, <2>1, UnreferencedFields
  <2>4. l.sideId = NoSegment /\ ~l.prefetched
        /\ <<"write", n>> \notin tasks /\ <<"read", n>> \notin tasks /\ <<"failed", n>> \notin tasks
    BY <1>2, <2>2 DEF LocGood
  <2>5. LocGood(v, n, openList', tasks', "no")
    BY <2>2, <2>3, <2>4 DEF LocGood
  <2>6. n # lastAppend
    BY <1>1, <2>2, <1>5 DEF StreamInv, AppendInv
  <2>7. v # NoLoc
    BY <2>5, GoodIsLoc
  <2> QED
    BY <1>7, <2>2, <2>3, <2>5, <2>6, <2>7
<1>10. CASE CloseWrite(n, waiter)
  <2>1. PICK v : v = Written(l, w)
    OBVIOUS
  <2>2. /\ l.id # NoSegment /\ ~l.stored /\ tasks' = tasks \cup {<<"write", n>>}
        /\ lastAppend' = IF n = lastAppend THEN NoSqn ELSE lastAppend
        /\ openList' = openList
    BY <1>1, <1>10 DEF CloseWrite, AppendStateAfter
  <2>3. loc' = [loc EXCEPT ![n] = v]
    BY <1>1, <1>4, <1>10, <2>1 DEF CloseWrite, Written
  <2>4. /\ v \in LocType /\ v.stored = l.stored /\ v.id = NoSegment /\ v.sideId = l.id
        /\ v.cancel = l.cancel /\ v.prefetched = l.prefetched /\ v.count = l.count
        /\ v.refs = l.refs
    BY <1>2, <2>1, WrittenFields
  <2>5. LocGood(v, n, openList', tasks', "no")
    BY <1>2, <2>2, <2>4 DEF LocGood
  <2>7. v # NoLoc
    BY <2>5, GoodIsLoc
  <2> QED
    BY <1>7, <2>2, <2>3, <2>5, <2>7
<1>11. CASE CloseDrop(n)
  <2>1. PICK v : v = NoLoc
    OBVIOUS
  <2>2. /\ l.id # NoSegment /\ ~l.stored /\ loc' = [loc EXCEPT ![n] = v]
        /\ openList' = openList \ {n} /\ tasks' = tasks
        /\ lastAppend' = IF n = lastAppend THEN NoSqn ELSE lastAppend
    BY <1>1, <1>11, <2>1 DEF CloseDrop, AppendStateAfter
  <2>3. <<"write", n>> \notin tasks /\ <<"read", n>> \notin tasks /\ <<"failed", n>> \notin tasks
    BY <1>2, <2>2 DEF LocGood
  <2> QED
    BY <1>7, <2>1, <2>2, <2>3
<1> QED
  BY <1>8, <1>9, <1>10, <1>11 DEF CloseLocation

\* Some of the references of c go.
LEMMA ReleaseIsClosed ==
    ASSUME StreamInv, NEW c \in Sessions, NEW n \in Sqns, loc[n] # NoLoc,
           NEW k \in 1..loc[n].refs[c], loc[n].count # k,
           loc' = [loc EXCEPT ![n] = Released(loc[n], c, k)],
           UNCHANGED <<openList, tasks, lastAppend>>
    PROVE  Closed(n, c)
<1>1. PICK l : l = loc[n]
  OBVIOUS
<1>2. /\ l \in LocType /\ l.count = SumOf(l.refs)
      /\ l.refs \in [Sessions -> Nat] /\ l.count \in Nat
  BY <1>1, LocFacts, LocFields
<1>3. l.refs[c] <= l.count
  BY <1>2, SumMember
<1>4. l.count > k /\ l.count > 0 /\ k \in 1..l.refs[c] /\ k \in Nat \ {0}
  <2>1. l.refs[c] \in Nat
    BY <1>2
  <2>2. k \in 1..l.refs[c] /\ l.count # k
    BY <1>1
  <2> QED
    BY <1>2, <1>3, <2>1, <2>2
<1>5. LocGood(l, n, openList, tasks, "no") /\ Busy(n) = "no"
  BY <1>1, <1>4, LocFacts, OpenIsNotBusy
<1>6. PICK v : v = Released(l, c, k)
  OBVIOUS
<1>7. /\ v \in LocType /\ v.count = l.count - k /\ v.count = SumOf(v.refs)
      /\ \A d \in Sessions \ {c} : v.refs[d] = l.refs[d]
      /\ v.stored = l.stored /\ v.id = l.id /\ v.sideId = l.sideId
      /\ v.cancel = l.cancel /\ v.prefetched = l.prefetched
  BY <1>2, <1>4, <1>6, ReleasedFields
<1>8. v.count > 0 /\ v.count < l.count /\ v.count \in Nat /\ l.count > 1
  BY <1>2, <1>4, <1>7
<1>9. l.stored /\ ~l.prefetched
  BY <1>2, <1>5, <1>8 DEF LocGood
<1>10. LocGood(v, n, openList, tasks, "no")
  BY <1>4, <1>5, <1>7, <1>8, <1>9 DEF LocGood
<1>11. /\ loc'[n] = v /\ \A m \in Sqns \ {n} : loc'[m] = loc[m]
       /\ loc' = [m \in Sqns |-> loc'[m]] /\ v # NoLoc
  BY <1>1, <1>6, <1>10, LocChanged, GoodIsLoc DEF StreamInv
<1>12. Elsewhere(n)
  BY <1>11 DEF Elsewhere
<1>13. \A d \in Sessions \ {c} : Kept(n, d, c)
  <2>1. TAKE d \in Sessions \ {c}
  <2>2. /\ loc[n] # NoLoc /\ loc'[n] # NoLoc /\ loc'[n].stored /\ loc[n].count # 0
        /\ loc'[n].refs[d] = loc[n].refs[d] /\ loc'[n].prefetched = loc[n].prefetched
        /\ loc'[n].cancel = loc[n].cancel
    <3>1. loc'[n] = v /\ loc[n] = l /\ l.count # 0
      BY <1>1, <1>4, <1>11
    <3>2. v # NoLoc /\ v.stored /\ v.refs[d] = l.refs[d] /\ v.prefetched = l.prefetched
          /\ v.cancel = l.cancel
      BY <1>7, <1>9, <1>11
    <3> QED
      BY <3>1, <3>2
  <2> QED
    BY <2>2 DEF Kept
<1>14. lastSqn' = lastSqn => AppendInv'
  BY <1>1, <1>9, <1>12, AppendStored
<1> QED
  BY <1>5, <1>10, <1>11, <1>12, <1>13, <1>14 DEF Closed, StreamInv, BaseInv

\* A session that closes does nothing else to the locations.
LEMMA CloseStepGood ==
    ASSUME StreamInv, NEW c \in Sessions, NEW n \in Sqns, Closed(n, c), NEW t,
           th' = [th EXCEPT ![c] = t],
           th[c].pc \notin {"aheadEnd", "openEnd"}, t.pc \notin {"aheadEnd", "openEnd"},
           lock \in {c, NoSession},
           appendLock' = appendLock \/ (appendLock = NoSession /\ appendLock' = c),
           UNCHANGED <<lastSqn, openLock, lock, crashed>>,
           view' \in [Sessions -> [Sqns -> Segments \cup {NoSegment}]],
           ThreadGood(c)'
    PROVE  StreamInv'
<1>1. /\ th'[c] = t /\ \A d \in Sessions \ {c} : th'[d] = th[d]
      /\ th' = [d \in Sessions |-> th'[d]]
  BY ThreadChanged DEF StreamInv
<1>2. \A m \in Sqns : Busy(m)' = Busy(m)
  BY <1>1, BusySame DEF StreamInv, BaseInv
<1>3. LocOK(n)'
  BY <1>2 DEF Closed, LocOK
<1>4. BaseInv'
  BY <1>1 DEF Closed, StreamInv, BaseInv
<1>5. OnlyThread(c)
  BY <1>1 DEF OnlyThread, NotStolen
<1> QED
  BY <1>2, <1>3, <1>4, <1>5, StepGood DEF Closed

\* The view of c without segment n is a view.
LEMMA ViewType ==
    ASSUME StreamInv, NEW c \in Sessions, NEW n \in Sqns, NEW s,
           s = NoSegment \/ s = view[c][n],
           view' = [view EXCEPT ![c][n] = s]
    PROVE  view' \in [Sessions -> [Sqns -> Segments \cup {NoSegment}]]
  BY DEF StreamInv, BaseInv

\* append() closes the segment before it: StreamInv holds after it.
LEMMA AppendBeginGood ==
    ASSUME StreamInv, NEW c \in Sessions, AppendBegin(c)
    PROVE  StreamInv'
<1>1. PICK t : t = [th[c] EXCEPT !.pc = "append"]
  OBVIOUS
<1>2. /\ th[c].pc = "idle" /\ appendLock = NoSession /\ lastSqn < MaxSqn /\ appendLock' = c
      /\ lock = NoSession /\ UNCHANGED <<lastSqn, openLock, lock, crashed>>
      /\ th' = [th EXCEPT ![c] = t]
  BY <1>1 DEF AppendBegin, Unlocked
<1>3. /\ t \in ThreadType /\ t.pc = "append" /\ t.sqn = th[c].sqn /\ t.seg = th[c].seg
      /\ t.ahead = th[c].ahead
  BY <1>1, AtPc, ThreadFacts DEF Pcs
<1>4. ThreadGood(c)'
  <2>1. th'[c] = t
    BY <1>2, ThreadChanged DEF StreamInv
  <2>2. t.ahead = <<>> /\ t.seg = NoSegment /\ \A i \in DOMAIN t.ahead : t.ahead[i] # t.sqn
    BY <1>2, <1>3, ThreadFacts DEF ThreadGood
  <2> QED
    BY <1>2, <1>3, <2>1, <2>2 DEF ThreadGood, Joined
<1>5. view \in [Sessions -> [Sqns -> Segments \cup {NoSegment}]] /\ crashed \in BOOLEAN
  BY DEF StreamInv, BaseInv
<1>6. CASE lastAppend = NoSqn
  <2>1. UNCHANGED <<loc, openList, tasks, lastAppend, view>>
    BY <1>6 DEF AppendBegin
  <2> QED
    BY <1>2, <1>3, <1>4, <1>5, <2>1, StepOutside
<1>7. CASE lastAppend # NoSqn
  <2>1. PICK n \in Sqns : n = lastAppend
    BY <1>7 DEF StreamInv, BaseInv
  <2>2. CloseLocation(n, {}) /\ view' = [view EXCEPT ![c][n] = NoSegment]
    BY <1>7, <2>1 DEF AppendBegin
  <2>3. loc[n] # NoLoc /\ ~loc[n].stored
    BY <1>7, <2>1 DEF StreamInv, AppendInv
  <2>4. loc[n].count > 0
    <3>1. LocGood(loc[n], n, openList, tasks, Busy(n))
      BY <2>3, LocFacts
    <3>2. loc[n].count = 1
      BY <2>3, <3>1 DEF LocGood
    <3> QED
      BY <3>2
  <2>5. Closed(n, c)
    BY <2>2, <2>3, <2>4, CloseIsClosed
  <2>6. view' \in [Sessions -> [Sqns -> Segments \cup {NoSegment}]]
    BY <2>2, ViewType
  <2> QED
    BY <1>2, <1>3, <1>4, <2>5, <2>6, CloseStepGood
<1> QED
  BY <1>6, <1>7

\* close(session, sqn)
LEMMA CloseSqnIsClosed ==
    ASSUME StreamInv, NEW c \in Sessions, NEW n \in Sqns, CloseSqn(c, n)
    PROVE  /\ Closed(n, c) /\ lock = NoSession
           /\ UNCHANGED <<lastSqn, appendLock, lock, crashed>>
<1>1. /\ loc[n] # NoLoc /\ loc[n].refs[c] > 0 /\ lock = NoSession
      /\ UNCHANGED <<lastSqn, appendLock, lock, crashed>>
  BY DEF CloseSqn, Unlocked
<1>2. loc[n] \in LocType /\ loc[n].refs[c] \in Nat /\ loc[n].count \in Nat
  <2>1. loc[n] \in LocType
    BY <1>1, LocFacts
  <2> QED
    BY <2>1, LocFields
<1>3. CASE loc[n].count = 1
  BY <1>1, <1>3, CloseIsClosed DEF CloseSqn
<1>4. CASE loc[n].count # 1
  <2>1. /\ loc' = [loc EXCEPT ![n] = Released(loc[n], c, 1)]
        /\ UNCHANGED <<openList, tasks, lastAppend>>
    BY <1>4 DEF CloseSqn, Released
  <2>2. 1 \in 1..loc[n].refs[c]
    BY <1>1, <1>2
  <2> QED
    BY <1>1, <1>4, <2>1, <2>2, ReleaseIsClosed
<1> QED
  BY <1>3, <1>4

\* close() of an open segment: StreamInv holds after it.
LEMMA CloseGood ==
    ASSUME StreamInv, NEW c \in Sessions, NEW n \in Sqns, Close(c, n)
    PROVE  StreamInv'
<1>1. PICK t : t = th[c]
  OBVIOUS
<1>2. PICK s : s = IF loc[n].refs[c] > 1 THEN view[c][n] ELSE NoSegment
  OBVIOUS
<1>3. /\ t.pc = "idle" /\ CloseSqn(c, n) /\ UNCHANGED <<openLock, th>>
      /\ view' = [view EXCEPT ![c][n] = s]
  BY <1>1, <1>2 DEF Close
<1>4. Closed(n, c) /\ lock = NoSession /\ UNCHANGED <<lastSqn, appendLock, lock, crashed>>
  BY <1>3, CloseSqnIsClosed
<1>5. th' = [th EXCEPT ![c] = t]
  BY <1>1, <1>3 DEF StreamInv, BaseInv
<1>6. view' \in [Sessions -> [Sqns -> Segments \cup {NoSegment}]]
  BY <1>2, <1>3, ViewType
<1>7. ThreadGood(c)'
  <2>1. th'[c] = t
    BY <1>1, <1>3
  <2>2. ThreadGood(c)
    BY ThreadFacts
  <2> QED
    BY <1>1, <1>3, <2>1, <2>2 DEF ThreadGood, Joined
<1> QED
  BY <1>1, <1>3, <1>4, <1>5, <1>6, <1>7, CloseStepGood

\* close() of a segment that is being loaded: StreamInv holds after it.
LEMMA CloseLoadingGood ==
    ASSUME StreamInv, NEW c \in Sessions, CloseLoading(c)
    PROVE  StreamInv'
<1>1. PICK n : n = th[c].sqn
  OBVIOUS
<1>2. /\ th[c].pc = "wait" /\ CloseSqn(c, n) /\ th' = [th EXCEPT ![c] = Idle]
      /\ UNCHANGED <<openLock, view>>
  BY <1>1 DEF CloseLoading
<1>3. n \in Sqns
  BY <1>1, <1>2, ThreadFacts DEF ThreadGood
<1>4. Closed(n, c) /\ lock = NoSession /\ UNCHANGED <<lastSqn, appendLock, lock, crashed>>
  BY <1>2, <1>3, CloseSqnIsClosed
<1>5. view' \in [Sessions -> [Sqns -> Segments \cup {NoSegment}]]
  BY <1>2 DEF StreamInv, BaseInv
<1>6. ThreadGood(c)'
  BY <1>2, ThreadChanged, IdleGood DEF StreamInv
<1> QED
  BY <1>2, <1>3, <1>4, <1>5, <1>6, IdleFields, CloseStepGood

\* The detach of a session closes one of its segments: StreamInv holds after it.
LEMMA DetachStepGood ==
    ASSUME StreamInv, NEW c \in Sessions, DetachStep(c)
    PROVE  StreamInv'
<1>1. PICK n \in th[c].todo :
        /\ th' = [th EXCEPT ![c].todo = @ \ {n}]
        /\ IF loc[n].refs[c] = 0
           THEN UNCHANGED <<loc, openList, tasks, lastAppend>>
           ELSE IF loc[n].count = loc[n].refs[c]
           THEN CloseLocation(n, {c})
           ELSE /\ loc' = [loc EXCEPT ![n].count = @ - loc[n].refs[c],
                                      ![n].refs[c] = 0]
                /\ UNCHANGED <<openList, tasks, lastAppend>>
  BY DEF DetachStep
<1>2. /\ th[c].pc = "detach" /\ UNCHANGED <<lastSqn, openLock, appendLock, lock, view, crashed>>
  BY DEF DetachStep
<1>3. /\ ThreadGood(c) /\ lock = c /\ th[c].todo \subseteq openList /\ n \in Sqns
      /\ openList \in SUBSET Sqns
  BY <1>1, <1>2, ThreadFacts DEF ThreadGood, StreamInv, BaseInv
<1>4. n \in openList
  BY <1>1, <1>3
<1>5. loc[n] # NoLoc
  BY <1>3, <1>4 DEF StreamInv, LocInv, LocOK
<1>6. /\ loc[n] \in LocType /\ loc[n].count > 0 /\ loc[n].count = SumOf(loc[n].refs)
  BY <1>3, <1>4, <1>5, LocFacts DEF LocGood
<1>7. loc[n].refs \in [Sessions -> Nat] /\ loc[n].count \in Nat /\ loc[n].refs[c] \in Nat
  BY <1>6, LocFields
<1>8. PICK t : t = [th[c] EXCEPT !.todo = @ \ {n}]
  OBVIOUS
<1>9. th' = [th EXCEPT ![c] = t]
  BY <1>1, <1>8
<1>10. /\ t \in ThreadType /\ t.pc = "detach" /\ t.seg = th[c].seg /\ t.ahead = th[c].ahead
       /\ t.todo = th[c].todo \ {n} /\ t.sqn = th[c].sqn
  BY <1>2, <1>8, ThreadFacts DEF ThreadType
<1>11. ASSUME t.todo \subseteq openList'
       PROVE  ThreadGood(c)'
  <2>1. th'[c] = t
    BY <1>9, ThreadChanged DEF StreamInv
  <2>2. t.seg = NoSegment /\ t.ahead = <<>> /\ \A i \in DOMAIN t.ahead : t.ahead[i] # t.sqn
    BY <1>2, <1>3, <1>10 DEF ThreadGood
  <2> QED
    BY <1>2, <1>3, <1>10, <1>11, <2>1, <2>2 DEF ThreadGood, Joined
<1>12. view \in [Sessions -> [Sqns -> Segments \cup {NoSegment}]] /\ crashed \in BOOLEAN
  BY DEF StreamInv, BaseInv
<1>13. ASSUME Closed(n, c)
       PROVE  StreamInv'
  <2>1. t.todo \subseteq openList'
    BY <1>3, <1>10, <1>13 DEF Closed, Elsewhere
  <2> QED
    BY <1>2, <1>3, <1>9, <1>10, <1>11, <1>12, <1>13, <2>1, CloseStepGood
<1>14. CASE loc[n].refs[c] = 0
  <2>1. UNCHANGED <<loc, openList, tasks, lastAppend>>
    BY <1>1, <1>14
  <2>2. ThreadGood(c)'
    BY <1>3, <1>10, <1>11, <2>1
  <2> QED
    BY <1>2, <1>9, <1>10, <1>12, <2>1, <2>2, StepOutside
<1>15. CASE loc[n].refs[c] # 0 /\ loc[n].count = loc[n].refs[c]
  <2>1. CloseLocation(n, {c})
    BY <1>1, <1>15
  <2> QED
    BY <1>3, <1>5, <1>6, <1>13, <1>15, <2>1, CloseIsClosed
<1>16. CASE loc[n].refs[c] # 0 /\ loc[n].count # loc[n].refs[c]
  <2>1. PICK k : k = loc[n].refs[c]
    OBVIOUS
  <2>2. /\ loc' = [loc EXCEPT ![n].count = @ - k, ![n].refs[c] = 0]
        /\ UNCHANGED <<openList, tasks, lastAppend>>
    BY <1>1, <1>16, <2>1
  <2>3. k \in 1..loc[n].refs[c] /\ loc[n].count # k /\ loc[n].refs[c] - k = 0
    BY <1>7, <1>16, <2>1
  <2>4. loc' = [loc EXCEPT ![n] = Released(loc[n], c, k)]
    BY <2>2, <2>3 DEF Released
  <2> QED
    BY <1>3, <1>5, <1>13, <2>2, <2>3, <2>4, ReleaseIsClosed
<1> QED
  BY <1>14, <1>15, <1>16

-----------------------------------------------------------------------------
(* The steps of the workers.                                               *)

\* A work item ends, and is kept as a failure or not.
TaskEnds(kind, n) ==
    /\ Unlocked
    /\ <<kind, n>> \in tasks
    /\ tasks' \in {tasks \ {<<kind, n>>}, (tasks \ {<<kind, n>>}) \cup {<<"failed", n>>}}
    /\ UNCHANGED <<lastSqn, lastAppend, openLock, appendLock, lock, th, view, crashed>>

\* So do the work items of the model.
LEMMA TaskEnding ==
    ASSUME NEW n \in Sqns
    PROVE  /\ \A kind : TaskDone(kind, n) => TaskEnds(kind, n)
           /\ ReadFail(n) => TaskEnds("read", n)
  BY DEF TaskDone, ReadFail, TaskEnds

\* A work item is done: it changes location n only.
LEMMA WorkerStepGood ==
    ASSUME StreamInv, NEW n \in Sqns, NEW kind \in {"read", "write"}, TaskEnds(kind, n),
           loc[n] # NoLoc, n # lastAppend, NEW v, loc' = [loc EXCEPT ![n] = v],
           openList' \in {openList, openList \ {n}},
           v = NoLoc => /\ n \notin openList' /\ <<"write", n>> \notin tasks'
                        /\ <<"read", n>> \notin tasks' /\ <<"failed", n>> \notin tasks' /\ Busy(n) = "no",
           v # NoLoc => LocGood(v, n, openList', tasks', Busy(n)),
           loc[n].stored => /\ v # NoLoc /\ v.stored
                            /\ loc[n].count = 0 => v.count = 0
                            /\ ~loc[n].cancel => /\ v.refs = loc[n].refs /\ ~v.cancel
                                                 /\ v.prefetched = loc[n].prefetched
    PROVE  StreamInv'
<1>1. /\ lock = NoSession
      /\ tasks' \in {tasks \ {<<kind, n>>}, (tasks \ {<<kind, n>>}) \cup {<<"failed", n>>}}
      /\ UNCHANGED <<lastSqn, lastAppend, openLock, appendLock, lock, th, view, crashed>>
  BY DEF TaskEnds, Unlocked
<1>2. /\ loc'[n] = v /\ \A k \in Sqns \ {n} : loc'[k] = loc[k]
      /\ loc' = [k \in Sqns |-> loc'[k]]
  BY LocChanged DEF StreamInv
<1>3. \A m \in Sqns : Busy(m)' = Busy(m)
  BY <1>1 DEF Busy
<1>4. Elsewhere(n)
  BY <1>1, <1>2 DEF Elsewhere
<1>5. LocOK(n)'
  BY <1>2, <1>3 DEF LocOK
<1>6. BaseInv'
  BY <1>1, <1>2 DEF StreamInv, BaseInv
<1>7. AppendInv'
  <2>1. \A m \in Sqns : /\ loc[m] = NoLoc => loc'[m] = NoLoc
                        /\ m = lastAppend' => loc'[m] = loc[m]
    BY <1>1, <1>2
  <2> QED
    BY <1>1, <2>1, AppendSame DEF StreamInv, BaseInv
<1>8. OnlyThread(NoSession)
  BY <1>1, StreamAssumption DEF OnlyThread, NotStolen
<1>9. ASSUME NEW d \in Sessions
      PROVE  Kept(n, d, NoSession)
  BY <1>2 DEF Kept
<1>10. NoSession \in Sessions \cup {NoSession}
  OBVIOUS
<1> QED
  BY <1>1, <1>3, <1>4, <1>5, <1>6, <1>7, <1>8, <1>9, <1>10, StepGood

\* The location a work item belongs to
LEMMA TaskLoc ==
    ASSUME StreamInv, NEW n \in Sqns, NEW kind \in {"read", "write"}, <<kind, n>> \in tasks
    PROVE  /\ loc[n] # NoLoc /\ loc[n] \in LocType /\ loc[n].count = SumOf(loc[n].refs)
           /\ LocGood(loc[n], n, openList, tasks, Busy(n))
           /\ kind = "write" => ~loc[n].stored /\ Busy(n) = "no" /\ <<"read", n>> \notin tasks /\ <<"failed", n>> \notin tasks
           /\ kind = "read" => loc[n].stored /\ <<"write", n>> \notin tasks
           /\ loc[n].sideId # NoSegment /\ loc[n].id = NoSegment
           /\ n # lastAppend
<1>1. <<kind, n>> \in tasks
  OBVIOUS
<1>2. loc[n] # NoLoc
  BY <1>1 DEF StreamInv, LocInv, LocOK
<1>3. /\ loc[n] \in LocType /\ loc[n].count = SumOf(loc[n].refs)
      /\ LocGood(loc[n], n, openList, tasks, Busy(n))
  BY <1>2, LocFacts
<1>4. /\ kind = "write" => ~loc[n].stored /\ Busy(n) = "no" /\ <<"read", n>> \notin tasks /\ <<"failed", n>> \notin tasks
      /\ kind = "read" => loc[n].stored /\ <<"write", n>> \notin tasks
      /\ loc[n].sideId # NoSegment /\ loc[n].id = NoSegment
  BY <1>1, <1>3 DEF LocGood
<1>5. n # lastAppend
  BY <1>4, StreamAssumption DEF StreamInv, AppendInv, Sqns, NoSqn
<1> QED
  BY <1>1, <1>2, <1>3, <1>4, <1>5

\* The location of a work item that is done
LEMMA TaskFacts ==
    ASSUME StreamInv, NEW n \in Sqns, NEW kind \in {"read", "write"}, TaskDone(kind, n)
    PROVE  /\ loc[n] # NoLoc /\ loc[n] \in LocType /\ loc[n].count = SumOf(loc[n].refs)
           /\ LocGood(loc[n], n, openList, tasks, Busy(n))
           /\ kind = "write" => ~loc[n].stored /\ Busy(n) = "no" /\ <<"read", n>> \notin tasks /\ <<"failed", n>> \notin tasks
           /\ kind = "read" => loc[n].stored /\ <<"write", n>> \notin tasks
           /\ loc[n].sideId # NoSegment /\ loc[n].id = NoSegment
           /\ n # lastAppend /\ tasks' = tasks \ {<<kind, n>>}
  BY TaskLoc DEF TaskDone

\* The location of a segment that was written
Encoded(l) == [Unreferenced(l) EXCEPT !.stored = TRUE, !.waits = {}]

\* What the end of a write makes of a location.
LEMMA EncodedFields ==
    ASSUME NEW l \in LocType, NEW m, m = Encoded(l)
    PROVE  /\ m \in LocType /\ m.count = 0 /\ m.count = SumOf(m.refs)
           /\ \A d \in Sessions : m.refs[d] = 0
           /\ m.stored /\ m.id = NoSegment /\ m.sideId = NoSegment
           /\ ~m.cancel /\ m.prefetched = l.prefetched /\ m.waits = {}
<1>1. PICK u : u = Unreferenced(l)
  OBVIOUS
<1>2. /\ u \in LocType /\ u.count = 0 /\ u.count = SumOf(u.refs)
      /\ \A d \in Sessions : u.refs[d] = 0
      /\ u.id = NoSegment /\ u.sideId = NoSegment
      /\ ~u.cancel /\ u.prefetched = l.prefetched
  BY <1>1, UnreferencedFields
<1>3. m = [u EXCEPT !.stored = TRUE, !.waits = {}]
  BY <1>1 DEF Encoded
<1>4. /\ m \in LocType /\ m.stored /\ m.waits = {} /\ m.count = u.count /\ m.refs = u.refs
      /\ m.id = u.id /\ m.sideId = u.sideId /\ m.cancel = u.cancel
      /\ m.prefetched = u.prefetched
  BY <1>2, <1>3 DEF LocType
<1> QED
  BY <1>2, <1>4

\* The writer stores a segment: StreamInv holds after it.
LEMMA WriteOkGood ==
    ASSUME StreamInv, NEW n \in Sqns, WriteOk(n)
    PROVE  StreamInv'
<1>1. PICK v : v = Encoded(loc[n])
  OBVIOUS
<1>2. /\ TaskDone("write", n) /\ openList' = openList \ {n}
      /\ loc' = [loc EXCEPT ![n] = v]
  BY <1>1 DEF WriteOk, Encoded
<1>3. /\ loc[n] # NoLoc /\ loc[n] \in LocType /\ ~loc[n].stored /\ Busy(n) = "no"
      /\ LocGood(loc[n], n, openList, tasks, "no")
      /\ <<"read", n>> \notin tasks /\ <<"failed", n>> \notin tasks /\ n # lastAppend /\ tasks' = tasks \ {<<"write", n>>}
  <2>1. PICK kind \in {"read", "write"} : kind = "write"
    OBVIOUS
  <2>2. TaskDone(kind, n)
    BY <1>2, <2>1
  <2> QED
    BY <2>1, <2>2, TaskFacts
<1>4. /\ v \in LocType /\ v.count = 0 /\ v.count = SumOf(v.refs)
      /\ v.stored /\ v.id = NoSegment /\ v.sideId = NoSegment
      /\ ~v.cancel /\ v.prefetched = loc[n].prefetched
  BY <1>1, <1>3, EncodedFields
<1>5. LocGood(v, n, openList', tasks', Busy(n))
  BY <1>2, <1>3, <1>4 DEF LocGood
<1>6. v # NoLoc
  BY <1>5, GoodIsLoc
<1> QED
  BY <1>2, <1>3, <1>5, <1>6, TaskEnding, WorkerStepGood

\* The writer fails: StreamInv holds after it.
LEMMA WriteFailGood ==
    ASSUME StreamInv, NEW n \in Sqns, WriteFail(n)
    PROVE  StreamInv'
<1>1. PICK v : v = NoLoc
  OBVIOUS
<1>2. /\ TaskDone("write", n) /\ openList' = openList \ {n}
      /\ loc' = [loc EXCEPT ![n] = v]
  BY <1>1 DEF WriteFail
<1>3. /\ loc[n] # NoLoc /\ ~loc[n].stored /\ Busy(n) = "no"
      /\ <<"read", n>> \notin tasks /\ <<"failed", n>> \notin tasks /\ n # lastAppend /\ tasks' = tasks \ {<<"write", n>>}
  <2>1. PICK kind \in {"read", "write"} : kind = "write"
    OBVIOUS
  <2>2. TaskDone(kind, n)
    BY <1>2, <2>1
  <2> QED
    BY <2>1, <2>2, TaskFacts
<1> QED
  BY <1>1, <1>2, <1>3, TaskEnding, WorkerStepGood

\* The reader loads a segment: StreamInv holds after it.
LEMMA ReadOkGood ==
    ASSUME StreamInv, NEW n \in Sqns, ReadOk(n)
    PROVE  StreamInv'
<1>1. PICK l : l = loc[n]
  OBVIOUS
<1>2. PICK v : v = LoadedLoc(l)
  OBVIOUS
<1>3. /\ TaskDone("read", n) /\ loc' = [loc EXCEPT ![n] = v]
      /\ openList' = IF l.cancel THEN openList \ {n} ELSE openList
  BY <1>1, <1>2 DEF ReadOk
<1>4. /\ l # NoLoc /\ l \in LocType /\ l.stored /\ l.count = SumOf(l.refs)
      /\ LocGood(l, n, openList, tasks, Busy(n)) /\ l.id = NoSegment /\ l.sideId # NoSegment
      /\ <<"write", n>> \notin tasks /\ n # lastAppend /\ tasks' = tasks \ {<<"read", n>>}
  <2>1. PICK kind \in {"read", "write"} : kind = "read"
    OBVIOUS
  <2>2. TaskDone(kind, n)
    BY <1>3, <2>1
  <2> QED
    BY <1>1, <2>1, <2>2, TaskFacts
<1>5. /\ v \in LocType /\ v.stored /\ v.sideId = NoSegment
      /\ v.prefetched = l.prefetched /\ v.count = SumOf(v.refs) /\ ~v.cancel
      /\ l.cancel => v.count = 0 /\ v.id = NoSegment
      /\ ~l.cancel => v.count = l.count /\ v.refs = l.refs /\ v.id = l.sideId
  BY <1>2, <1>4, LoadedFields
<1>6. v # NoLoc
  BY <1>5, LocationAssumption
<1>7. <<"read", n>> \in tasks
  BY <1>3 DEF TaskDone
<1>8. LocGood(v, n, openList', tasks', Busy(n))
  <2>1. PICK b : b = Busy(n)
    OBVIOUS
  <2>2. CASE l.cancel
    BY <1>3, <1>4, <1>5, <1>7, <2>1, <2>2 DEF LocGood
  <2>3. CASE ~l.cancel
    <3>1. ~l.prefetched /\ b \in {"no", "open"}
      <4>1. b \in {"no", "open", "openDone", "ahead", "aheadDone"}
        BY <2>1 DEF Busy
      <4> QED
        BY <1>4, <1>7, <2>1, <2>3, <4>1 DEF LocGood
    <3> QED
      BY <1>3, <1>4, <1>5, <1>7, <2>1, <2>3, <3>1 DEF LocGood
  <2> QED
    BY <2>2, <2>3
<1>9. /\ l.count = 0 => v.count = 0
      /\ ~l.cancel => v.refs = l.refs /\ ~v.cancel /\ v.prefetched = l.prefetched
  BY <1>5
<1> QED
  BY <1>1, <1>3, <1>4, <1>5, <1>6, <1>8, <1>9, TaskEnding, WorkerStepGood

\* The reader fails: StreamInv holds after it.
LEMMA ReadFailGood ==
    ASSUME StreamInv, NEW n \in Sqns, ReadFail(n)
    PROVE  StreamInv'
<1>1. PICK v : v = loc[n]
  OBVIOUS
<1>2. /\ TaskEnds("read", n) /\ UNCHANGED <<loc, openList>>
      /\ tasks' = (tasks \ {<<"read", n>>}) \cup {<<"failed", n>>}
  BY TaskEnding DEF ReadFail
<1>3. /\ v # NoLoc /\ v \in LocType /\ v.stored
      /\ LocGood(v, n, openList, tasks, Busy(n)) /\ v.sideId # NoSegment
      /\ n # lastAppend
  <2>1. PICK kind \in {"read", "write"} : kind = "read"
    OBVIOUS
  <2>2. <<kind, n>> \in tasks
    BY <1>2, <2>1 DEF TaskEnds
  <2> QED
    BY <1>1, <2>1, <2>2, TaskLoc
<1>4. loc' = [loc EXCEPT ![n] = v]
  BY <1>1, <1>2 DEF StreamInv, BaseInv
<1>5. LocGood(v, n, openList', tasks', Busy(n))
  <2>1. <<"read", n>> \in tasks
    BY DEF ReadFail
  <2>2. /\ <<"read", n>> \notin tasks' /\ <<"failed", n>> \in tasks'
        /\ <<"write", n>> \in tasks' <=> <<"write", n>> \in tasks
        /\ openList' = openList
    BY <1>2
  <2> QED
    BY <1>3, <2>1, <2>2 DEF LocGood
<1> QED
  BY <1>1, <1>2, <1>3, <1>4, <1>5, WorkerStepGood

-----------------------------------------------------------------------------
(* The invariant of the locations holds.                                   *)

\* A new stream has no location, no call and no work item: StreamInv holds.
LEMMA StreamInit ==
    ASSUME Init
    PROVE  StreamInv
<1>1. /\ loc = [n \in Sqns |-> IF n \in Existing THEN StoredLoc ELSE NoLoc]
      /\ openList = {} /\ lastSqn = IF Existing = {} THEN NoSqn ELSE Max(Existing)
      /\ lastAppend = NoSqn /\ tasks = {}
      /\ openLock = NoSession /\ appendLock = NoSession /\ lock = NoSession
      /\ th = [c \in Sessions |-> Idle]
      /\ view = [c \in Sessions |-> [n \in Sqns |-> NoSegment]] /\ crashed = FALSE
  BY DEF Init
<1>2. /\ lastSqn \in Sqns \cup {NoSqn}
      /\ \A n \in Existing : ~(n > lastSqn)
  <2>1. CASE Existing = {}
    BY <1>1, <2>1
  <2>2. CASE Existing # {}
    <3>1. MaxSqn \in Nat /\ Existing \in SUBSET (0..MaxSqn)
      BY StreamAssumption DEF Sqns
    <3>2. Max(Existing) \in Existing /\ \A y \in Existing : Max(Existing) >= y
      BY <2>2, <3>1, MaxIsGreatest
    <3>3. PICK x \in Existing : x = lastSqn /\ \A y \in Existing : x >= y
      BY <1>1, <2>2, <3>2
    <3> QED
      BY <3>1, <3>3 DEF Sqns
  <2> QED
    BY <2>1, <2>2
<1>3. BaseInv
  <2>1. \A n \in Sqns : n \in DOMAIN loc
    BY <1>1
  <2> QED
    BY <1>1, <1>2 DEF BaseInv
<1>4. \A n \in Sqns : Busy(n) = "no"
  BY <1>1, StreamAssumption DEF Busy
<1>5. LocInv
  <2>1. ASSUME NEW n \in Sqns
        PROVE  LocOK(n)
    <3>1. LocGood(StoredLoc, n, {}, {}, "no") /\ StoredLoc # NoLoc
      BY StoredLocGood, GoodIsLoc
    <3> QED
      BY <1>1, <1>4, <3>1 DEF LocOK
  <2> QED
    BY <2>1 DEF LocInv
<1>6. AppendInv
  BY <1>1, <1>2 DEF AppendInv
<1>7. ThreadInv
  <2>1. ASSUME NEW c \in Sessions
        PROVE  ThreadGood(c)
    <3>1. th[c] = Idle
      BY <1>1
    <3> QED
      BY <3>1, IdleFields DEF ThreadGood, Joined
  <2> QED
    BY <2>1 DEF ThreadInv
<1> QED
  BY <1>3, <1>5, <1>6, <1>7 DEF StreamInv

\* Every step keeps StreamInv, as long as the pool of segments is good.
LEMMA StreamStep ==
    ASSUME StreamInv, PoolGood(pool), [Next]_vars
    PROVE  StreamInv'
<1>1. ASSUME NEW c \in Sessions, Call(c)
      PROVE  StreamInv'
  <2>1. CASE AppendBegin(c)
    BY <2>1, AppendBeginGood
  <2>2. CASE \E n \in Sqns : AddRequest(c, n)
    BY <2>2, AddRequestGood
  <2>3. CASE \E n \in Sqns : Close(c, n)
    BY <2>3, CloseGood
  <2>4. CASE \E n \in Sqns, scan \in BOOLEAN : OpenBegin(c, n, scan)
    BY <2>4, OpenBeginGood
  <2>5. CASE CloseLoading(c)
    BY <2>5, CloseLoadingGood
  <2>6. CASE DetachBegin(c)
    BY <2>6, DetachBeginGood
  <2> QED
    BY <1>1, <2>1, <2>2, <2>3, <2>4, <2>5, <2>6 DEF Call
<1>2. ASSUME NEW c \in Sessions, ThreadStep(c)
      PROVE  StreamInv'
  BY <1>2, AppendRequestGood, AppendEndGood, AddEndGood, AheadSkipGood, AheadCrashGood,
     AheadBeginGood, AheadEndGood, AheadDoneGood, OpenReadGood, OpenFailGood, OpenEndGood,
     OpenReturnGood, DetachStepGood, DetachEndGood DEF ThreadStep
<1>3. ASSUME NEW n \in Sqns, Worker(n)
      PROVE  StreamInv'
  BY <1>3, WriteOkGood, WriteFailGood, ReadOkGood, ReadFailGood DEF Worker
<1>4. CASE UNCHANGED streamVars
  <2>1. UNCHANGED <<loc, openList, lastSqn, lastAppend, tasks, openLock, appendLock, lock,
                    th, view, crashed>>
    BY <1>4 DEF streamVars
  <2> QED
    BY <2>1 DEF StreamInv, BaseInv, LocInv, LocOK, AppendInv, ThreadInv, ThreadGood, Busy
<1> QED
  BY <1>1, <1>2, <1>3, <1>4 DEF Next, Spurious, vars

-----------------------------------------------------------------------------
(* What the operations of the buffer do to a good pool.                    *)

\* q is p after segment s was given back to a list.
Given(p, s, q) ==
    /\ PoolGood(q) /\ Listed(q) = Listed(p) \cup {s}
    /\ \A x \in Segments \ {s} : SameContent(p, q, x)

\* q is p after segment s, which is on no list, was marked.
Touched(p, s, q) ==
    /\ PoolGood(q) /\ Listed(q) = Listed(p)
    /\ q.seg[s].link = p.seg[s].link
    /\ \A x \in Segments \ {s} : SameContent(p, q, x)

\* freeSegment gives the segment back and leaves the pool good.
LEMMA FreeGood ==
    ASSUME NEW p, PoolGood(p), NEW s \in Segments \ Listed(p), p.seg[s].link \in Links,
           p.seg[s].ready, NEW prefetch, NEW q, q = FreeSegment(p, s, prefetch)
    PROVE  Given(p, s, q)
<1>1. Consistent(p) /\ UsedFlags(p) /\ CacheReady(p) /\ s \notin p.free
  BY DEF PoolGood, Listed
<1>2. Freed(p, s, q) /\ FreedContent(p, s, q)
  BY <1>1, FreeConsistent, FreeContent
<1>3. /\ Consistent(q) /\ Listed(q) = Listed(p) \cup {s}
      /\ \A x \in Segments \ {s} : SameContent(p, q, x)
      /\ Range(q.standby) \subseteq Range(p.standby) \cup {s}
      /\ s \in Range(q.standby) =>
            /\ (p.seg[s].flags \cup {"ReadOnly"}) \ {"Prefetch"} \subseteq q.seg[s].flags
            /\ q.seg[s].ready = p.seg[s].ready
  BY <1>2 DEF Freed, FreedContent
<1>4. Range(p.standby) \subseteq Segments
  BY <1>1, ListedType DEF Consistent
<1>5. CacheReady(q)
  BY <1>1, <1>3, <1>4 DEF CacheReady, SameContent
<1>6. UsedFlags(q)
  <2>1. ASSUME NEW x \in Segments \ q.free
        PROVE  "InUse" \in q.seg[x].flags
    <3>1. CASE x = s
      <4>1. s \in Range(q.standby)
        BY <1>3, <2>1, <3>1 DEF Listed
      <4>2. "InUse" \in p.seg[s].flags
        BY <1>1 DEF UsedFlags
      <4> QED
        BY <1>3, <3>1, <4>1, <4>2
    <3>2. CASE x # s
      <4>1. x \notin p.free
        <5>1. SUFFICES ASSUME x \in p.free
                       PROVE  FALSE
          OBVIOUS
        <5>2. x \in Listed(q) /\ x \notin Range(p.standby)
          BY <1>1, <1>3, <5>1 DEF Listed, Consistent
        <5> QED
          BY <1>3, <2>1, <3>2, <5>2 DEF Listed
      <4> QED
        BY <1>1, <1>3, <2>1, <3>2, <4>1 DEF UsedFlags, SameContent
    <3> QED
      BY <3>1, <3>2
  <2> QED
    BY <2>1 DEF UsedFlags
<1> QED
  BY <1>3, <1>5, <1>6 DEF Given, PoolGood

\* purgeSegment gives the segment back and leaves the pool good.
LEMMA PurgeGood ==
    ASSUME NEW p, PoolGood(p), NEW s \in Segments \ Listed(p), NEW q, q = PurgeSegment(p, s)
    PROVE  Given(p, s, q)
<1>1. Consistent(p) /\ UsedFlags(p) /\ CacheReady(p) /\ s \notin Range(p.standby)
  BY DEF PoolGood, Listed
<1>2. /\ Consistent(q) /\ Listed(q) = Listed(p) \cup {s} /\ q.standby = p.standby
  BY <1>1, PurgeConsistent
<1>3. q.free = p.free \cup {s} /\ \A x \in Segments \ {s} : q.seg[x] = p.seg[x]
  BY <1>1, PurgeFields DEF Consistent
<1>4. Range(p.standby) \subseteq Segments
  BY <1>1, ListedType DEF Consistent
<1>5. CacheReady(q) /\ UsedFlags(q)
  BY <1>1, <1>2, <1>3, <1>4 DEF CacheReady, UsedFlags
<1> QED
  BY <1>2, <1>3, <1>5 DEF Given, PoolGood, SameContent

\* A segment that has been loaded is ready, and nothing else changes.
LEMMA MarkGood ==
    ASSUME NEW p, PoolGood(p), NEW s \in Segments \ Listed(p),
           NEW q, q = MarkReady(p, s)
    PROVE  Touched(p, s, q) /\ q.seg[s].ready
<1>1. Consistent(p) /\ UsedFlags(p) /\ CacheReady(p) /\ s \notin Range(p.standby)
  BY DEF PoolGood, Listed
<1>2. /\ Consistent(q) /\ Listed(q) = Listed(p) /\ q.standby = p.standby
  BY <1>1, MarkConsistent
<1>3. /\ q.free = p.free /\ \A x \in Segments : q.seg[x].flags = p.seg[x].flags
  BY <1>1, MarkFields DEF Consistent
<1>4. /\ q.seg[s].link = p.seg[s].link /\ q.seg[s].ready
      /\ \A x \in Segments \ {s} : SameContent(p, q, x)
  BY <1>1, MarkReadyContent DEF Consistent
<1>5. Range(p.standby) \subseteq Segments
  BY <1>1, ListedType DEF Consistent
<1>6. CacheReady(q) /\ UsedFlags(q)
  BY <1>1, <1>2, <1>3, <1>4, <1>5 DEF CacheReady, UsedFlags, SameContent
<1> QED
  BY <1>2, <1>4, <1>6 DEF Touched, PoolGood

\* A segment that is submitted stays as ready as it was.
LEMMA SubmitGood ==
    ASSUME NEW p, PoolGood(p), NEW s \in Segments \ Listed(p),
           NEW q, q = SubmitWritten(p, s)
    PROVE  Touched(p, s, q) /\ q.seg[s].ready = p.seg[s].ready
<1>1. Consistent(p) /\ UsedFlags(p) /\ CacheReady(p) /\ s \notin Range(p.standby)
  BY DEF PoolGood, Listed
<1>2. /\ Consistent(q) /\ Listed(q) = Listed(p) /\ q.standby = p.standby
  BY <1>1, MarkConsistent
<1>3. /\ q.free = p.free /\ \A x \in Segments : q.seg[x].flags = p.seg[x].flags
  BY <1>1, MarkFields DEF Consistent
<1>4. \A x \in Segments : SameContent(p, q, x)
  BY <1>1, SubmitWrittenContent DEF Consistent
<1>5. Range(p.standby) \subseteq Segments
  BY <1>1, ListedType DEF Consistent
<1>6. CacheReady(q) /\ UsedFlags(q)
  BY <1>1, <1>2, <1>3, <1>4, <1>5 DEF CacheReady, UsedFlags, SameContent
<1> QED
  BY <1>2, <1>4, <1>6 DEF Touched, PoolGood, SameContent

\* A written segment is handed to the encoder.
LEMMA HandOver ==
    ASSUME NEW p, PoolGood(p), NEW s \in Segments \ Listed(p),
           NEW q, q = MarkReady(SubmitWritten(p, s), s)
    PROVE  Touched(p, s, q) /\ q.seg[s].ready
<1>1. PICK o : o = SubmitWritten(p, s)
  OBVIOUS
<1>2. Touched(p, s, o)
  BY <1>1, SubmitGood
<1>3. Touched(o, s, q) /\ q.seg[s].ready
  <2>1. s \in Segments \ Listed(o) /\ PoolGood(o)
    BY <1>2 DEF Touched
  <2> QED
    BY <1>1, <2>1, MarkGood
<1> QED
  BY <1>2, <1>3 DEF Touched, SameContent

\* A segment that was read is given back at once.
LEMMA GiveMarked ==
    ASSUME NEW p, NEW s \in Segments, NEW o, Touched(p, s, o), NEW q, Given(o, s, q)
    PROVE  Given(p, s, q)
  BY DEF Touched, Given, SameContent

-----------------------------------------------------------------------------
(* The owners of the segments.                                             *)

\* Where a segment can be: mapped by a location, in progress there, or in
\* the call of a thread.
Places == ({"id", "sideId"} \X Sqns) \cup ({"call"} \X Sessions)

HeldAt(q) ==
    IF q[1] = "call" THEN th[q[2]].seg
    ELSE IF loc[q[2]] = NoLoc THEN NoSegment
    ELSE IF q[1] = "id" THEN loc[q[2]].id ELSE loc[q[2]].sideId

Holds == [q \in Places |-> HeldAt(q)]

\* The link a segment at q has
LinkOf(q) == IF q[1] = "call" THEN th[q[2]].sqn ELSE q[2]

\* A segment at q has all its data.
NeedsData(q) ==
    \/ q[1] = "id" /\ loc[q[2]] # NoLoc /\ loc[q[2]].stored
    \/ /\ q[1] = "sideId"
       /\ <<"write", q[2]>> \in tasks \/ Busy(q[2]) \in {"openDone", "aheadDone"}

\* Every segment has one owner or is listed.
Own(h, L) ==
    /\ h \in [Places -> Segments \cup {NoSegment}]
    /\ \A q, r \in Places : h[q] = h[r] /\ h[q] # NoSegment => q = r
    /\ \A s \in Segments : s \in L <=> \A q \in Places : h[q] # s

Fits(q) ==
    Holds[q] # NoSegment =>
        /\ pool.seg[Holds[q]].link = LinkOf(q)
        /\ NeedsData(q) => pool.seg[Holds[q]].ready

PoolInv ==
    /\ PoolGood(pool)
    /\ Own(Holds, Listed(pool))
    /\ \A q \in Places : Fits(q)

\* A step leaves the segment at q alone.
Left(q) ==
    /\ Holds'[q] = Holds[q]
    /\ Holds[q] # NoSegment => /\ LinkOf(q)' = LinkOf(q)
                               /\ NeedsData(q)' => NeedsData(q)

\* A place that keeps its segment still fits, if the content of the segment is
\* the same.
LEMMA LeftFits ==
    ASSUME PoolInv, NEW q \in Places, Left(q),
           Holds[q] # NoSegment => SameContent(pool, pool', Holds[q])
    PROVE  Fits(q)'
<1>1. Fits(q)
  BY DEF PoolInv
<1>2. PICK s : s = Holds[q]
  OBVIOUS
<1>3. Holds'[q] = s
  BY <1>2 DEF Left
<1> QED
  BY <1>1, <1>2, <1>3 DEF Fits, Left, SameContent

\* No segment changes its owner; the listed ones can change.
LEMMA PlacesSame ==
    ASSUME PoolInv, PoolGood(pool'), Listed(pool') = Listed(pool),
           \A q \in Places : Left(q),
           \A x \in Segments \ Listed(pool) : SameContent(pool, pool', x)
    PROVE  PoolInv'
<1>1. Holds' = Holds
  <2>1. \A q \in Places : Holds'[q] = Holds[q]
    BY DEF Left
  <2> QED
    BY <2>1 DEF Holds
<1>2. ASSUME NEW q \in Places
      PROVE  Fits(q)'
  <2>1. Holds[q] # NoSegment => Holds[q] \in Segments \ Listed(pool)
    BY DEF PoolInv, Own
  <2> QED
    BY <2>1, LeftFits
<1> QED
  BY <1>1, <1>2 DEF PoolInv

\* A listed segment is taken.
LEMMA PlaceTakes ==
    ASSUME PoolInv, NEW q \in Places, NEW s \in Segments, s \in Listed(pool),
           PoolGood(pool'), Listed(pool') = Listed(pool) \ {s},
           \A x \in Segments \ {s} : SameContent(pool, pool', x),
           Holds[q] = NoSegment, Holds'[q] = s, Fits(q)',
           \A r \in Places \ {q} : Left(r)
    PROVE  PoolInv'
<1>1. PICK h : h = Holds
  OBVIOUS
<1>2. PICK g : g = Holds'
  OBVIOUS
<1>3. Own(h, Listed(pool)) /\ g[q] = s /\ h[q] = NoSegment /\ \A r \in Places \ {q} : g[r] = h[r]
  BY <1>1, <1>2 DEF PoolInv, Left
<1>4. g = [r \in Places |-> g[r]]
  BY <1>2 DEF Holds
<1>5. \A r \in Places : h[r] # s
  BY <1>3 DEF Own
<1>6. Own(g, Listed(pool) \ {s})
  BY <1>3, <1>4, <1>5, PoolAssumption DEF Own
<1>7. ASSUME NEW r \in Places
      PROVE  Fits(r)'
  <2>1. CASE r = q
    BY <2>1
  <2>2. CASE r # q
    <3>1. Holds[r] # NoSegment => Holds[r] \in Segments \ {s}
      BY <1>1, <1>3, <1>5 DEF Own
    <3> QED
      BY <2>2, <3>1, LeftFits
  <2> QED
    BY <2>1, <2>2
<1> QED
  BY <1>2, <1>6, <1>7 DEF PoolInv

\* A segment is given back.
LEMMA PlaceGives ==
    ASSUME PoolInv, NEW q \in Places, NEW s \in Segments, Given(pool, s, pool'),
           Holds[q] = s, Holds'[q] = NoSegment,
           \A r \in Places \ {q} : Left(r)
    PROVE  PoolInv'
<1>1. PICK h : h = Holds
  OBVIOUS
<1>2. PICK g : g = Holds'
  OBVIOUS
<1>3. Own(h, Listed(pool)) /\ g[q] = NoSegment /\ h[q] = s /\ \A r \in Places \ {q} : g[r] = h[r]
  BY <1>1, <1>2 DEF PoolInv, Left
<1>4. g = [r \in Places |-> g[r]]
  BY <1>2 DEF Holds
<1>5. \A r \in Places \ {q} : h[r] # s
  BY <1>3, PoolAssumption DEF Own
<1>6. Own(g, Listed(pool) \cup {s})
  <2>1. ASSUME NEW x \in Segments
        PROVE  x \in Listed(pool) \cup {s} <=> \A r \in Places : g[r] # x
    BY <1>3, <1>5, PoolAssumption DEF Own
  <2> QED
    BY <1>3, <1>4, <2>1 DEF Own
<1>7. ASSUME NEW r \in Places
      PROVE  Fits(r)'
  <2>1. CASE r = q
    BY <2>1 DEF Fits
  <2>2. CASE r # q
    <3>1. Holds[r] # NoSegment => Holds[r] \in Segments \ {s}
      BY <1>1, <1>3, <1>5, <2>2 DEF Own
    <3> QED
      BY <2>2, <3>1, LeftFits DEF Given
  <2> QED
    BY <2>1, <2>2
<1> QED
  BY <1>2, <1>6, <1>7 DEF PoolInv, Given

\* A segment changes its owner.
LEMMA PlaceMoves ==
    ASSUME PoolInv, NEW q \in Places, NEW r \in Places, q # r, NEW s \in Segments,
           PoolGood(pool'), Listed(pool') = Listed(pool),
           \A x \in Segments \ {s} : SameContent(pool, pool', x),
           Holds[q] = s, Holds[r] = NoSegment, Holds'[q] = NoSegment, Holds'[r] = s,
           Fits(r)', \A v \in Places \ {q, r} : Left(v)
    PROVE  PoolInv'
<1>1. PICK h : h = Holds
  OBVIOUS
<1>2. PICK g : g = Holds'
  OBVIOUS
<1>3. /\ Own(h, Listed(pool)) /\ g[q] = NoSegment /\ h[q] = s /\ g[r] = s /\ h[r] = NoSegment
      /\ \A v \in Places \ {q, r} : g[v] = h[v]
  BY <1>1, <1>2 DEF PoolInv, Left
<1>4. g = [v \in Places |-> g[v]]
  BY <1>2 DEF Holds
<1>5. \A v \in Places \ {q} : h[v] # s
  BY <1>3, PoolAssumption DEF Own
<1>6. Own(g, Listed(pool))
  <2>1. ASSUME NEW x \in Segments
        PROVE  x \in Listed(pool) <=> \A v \in Places : g[v] # x
    BY <1>3, <1>5, PoolAssumption DEF Own
  <2>2. \A v, w \in Places : g[v] = g[w] /\ g[v] # NoSegment => v = w
    BY <1>3, <1>5 DEF Own
  <2>3. g \in [Places -> Segments \cup {NoSegment}]
    BY <1>3, <1>4 DEF Own
  <2> QED
    BY <2>1, <2>2, <2>3 DEF Own
<1>7. ASSUME NEW v \in Places
      PROVE  Fits(v)'
  <2>1. CASE v = r
    BY <2>1
  <2>2. CASE v = q
    BY <2>2 DEF Fits
  <2>3. CASE v \notin {q, r}
    <3>1. Holds[v] # NoSegment => Holds[v] \in Segments \ {s}
      BY <1>1, <1>3, <1>5, <2>3 DEF Own
    <3> QED
      BY <2>3, <3>1, LeftFits
  <2> QED
    BY <2>1, <2>2, <2>3
<1> QED
  BY <1>2, <1>6, <1>7 DEF PoolInv

-----------------------------------------------------------------------------
(* Steps and places.                                                       *)

IdOf(n) == IF loc[n] = NoLoc THEN NoSegment ELSE loc[n].id
SideOf(n) == IF loc[n] = NoLoc THEN NoSegment ELSE loc[n].sideId

\* The data of segment n, which is mapped or in progress, is complete.
Complete(n) == <<"write", n>> \in tasks \/ Busy(n) \in {"openDone", "aheadDone"}

\* What the places hold, one by one.
LEMMA HoldsAre ==
    /\ \A n \in Sqns :
          /\ <<"id", n>> \in Places /\ <<"sideId", n>> \in Places
          /\ Holds[<<"id", n>>] = IdOf(n) /\ Holds[<<"sideId", n>>] = SideOf(n)
          /\ Holds'[<<"id", n>>] = IdOf(n)' /\ Holds'[<<"sideId", n>>] = SideOf(n)'
    /\ \A c \in Sessions :
          /\ <<"call", c>> \in Places
          /\ Holds[<<"call", c>>] = th[c].seg /\ Holds'[<<"call", c>>] = th'[c].seg
<1>1. ASSUME NEW n \in Sqns
      PROVE  /\ <<"id", n>> \in Places /\ <<"sideId", n>> \in Places
             /\ HeldAt(<<"id", n>>) = IdOf(n) /\ HeldAt(<<"sideId", n>>) = SideOf(n)
             /\ HeldAt(<<"id", n>>)' = IdOf(n)' /\ HeldAt(<<"sideId", n>>)' = SideOf(n)'
  BY DEF Places, HeldAt, IdOf, SideOf
<1>2. ASSUME NEW c \in Sessions
      PROVE  /\ <<"call", c>> \in Places
             /\ HeldAt(<<"call", c>>) = th[c].seg /\ HeldAt(<<"call", c>>)' = th'[c].seg
  BY DEF Places, HeldAt
<1> QED
  BY <1>1, <1>2 DEF Holds

\* Which places need the data of their segment, and for which link.
LEMMA NeedsAre ==
    /\ \A n \in Sqns :
          /\ NeedsData(<<"id", n>>) <=> loc[n] # NoLoc /\ loc[n].stored
          /\ NeedsData(<<"sideId", n>>) <=> Complete(n)
          /\ NeedsData(<<"id", n>>)' <=> loc'[n] # NoLoc /\ loc'[n].stored
          /\ NeedsData(<<"sideId", n>>)' <=> Complete(n)'
          /\ LinkOf(<<"id", n>>) = n /\ LinkOf(<<"sideId", n>>) = n
          /\ LinkOf(<<"id", n>>)' = n /\ LinkOf(<<"sideId", n>>)' = n
    /\ \A c \in Sessions :
          /\ ~NeedsData(<<"call", c>>) /\ ~NeedsData(<<"call", c>>)'
          /\ LinkOf(<<"call", c>>) = th[c].sqn /\ LinkOf(<<"call", c>>)' = th'[c].sqn
  BY DEF NeedsData, LinkOf, Complete

\* A place is one of a location, or one of a call.
LEMMA PlaceCases ==
    \A q \in Places : \/ \E n \in Sqns : q = <<"id", n>> \/ q = <<"sideId", n>>
                      \/ \E c \in Sessions : q = <<"call", c>>
  BY DEF Places

\* The places of location m stay as they are.
LocLeft(m) == Left(<<"id", m>>) /\ Left(<<"sideId", m>>)

\* The places of a location that is not changed are left alone.
LEMMA LocUntouched ==
    ASSUME NEW m \in Sqns, loc'[m] = loc[m],
           <<"write", m>> \in tasks' <=> <<"write", m>> \in tasks,
           Busy(m)' \in {Busy(m), "no"}
    PROVE  LocLeft(m)
<1>1. IdOf(m)' = IdOf(m) /\ SideOf(m)' = SideOf(m)
  BY DEF IdOf, SideOf
<1>2. Complete(m)' => Complete(m)
  BY DEF Complete
<1>3. Left(<<"id", m>>) /\ Left(<<"sideId", m>>)
  BY <1>1, <1>2, HoldsAre, NeedsAre DEF Left
<1> QED
  BY <1>3 DEF LocLeft

\* The places of all locations but n stay as they are.
LocsLeft(n) == \A m \in Sqns \ {n} : LocLeft(m)

\* A step that changes location n leaves the places of the others alone.
LEMMA ElsewhereLeft ==
    ASSUME NEW n, Elsewhere(n),
           \A m \in Sqns \ {n} : Busy(m)' \in {Busy(m), "no"}
    PROVE  LocsLeft(n)
<1>1. ASSUME NEW m \in Sqns \ {n}
      PROVE  LocLeft(m)
  BY LocUntouched DEF Elsewhere
<1> QED
  BY <1>1 DEF LocsLeft

\* The call of d has the same segment as before.
CallKept(d) ==
    /\ th'[d].seg = th[d].seg
    /\ th[d].seg # NoSegment => th'[d].sqn = th[d].sqn

\* A call that keeps its segment and its sequence number leaves its place alone.
LEMMA CallLeft ==
    ASSUME NEW d \in Sessions, CallKept(d)
    PROVE  Left(<<"call", d>>)
  BY HoldsAre, NeedsAre DEF Left, CallKept

\* What a step that works on location n leaves alone
OnlyLoc(n) == LocsLeft(n) /\ \A d \in Sessions : CallKept(d)

\* A step that works on location n leaves every other place alone.
LEMMA OnlyLocLeft ==
    ASSUME NEW n \in Sqns, OnlyLoc(n), NEW q \in Places, q # <<"id", n>>, q # <<"sideId", n>>
    PROVE  Left(q)
<1>1. CASE \E m \in Sqns : q = <<"id", m>> \/ q = <<"sideId", m>>
  <2>1. PICK m \in Sqns : q = <<"id", m>> \/ q = <<"sideId", m>>
    BY <1>1
  <2>2. m # n
    BY <2>1
  <2> QED
    BY <2>1, <2>2 DEF OnlyLoc, LocsLeft, LocLeft
<1>2. CASE \E d \in Sessions : q = <<"call", d>>
  BY <1>2, CallLeft DEF OnlyLoc
<1> QED
  BY <1>1, <1>2, PlaceCases

\* The segments of location n stay where they are.
LEMMA KeepsLoc ==
    ASSUME PoolInv, NEW n \in Sqns, OnlyLoc(n),
           IdOf(n)' = IdOf(n), SideOf(n)' = SideOf(n),
           IdOf(n) # NoSegment => (loc'[n].stored => loc[n].stored),
           SideOf(n) # NoSegment => (Complete(n)' => Complete(n)),
           PoolGood(pool'), Listed(pool') = Listed(pool),
           \A x \in Segments \ Listed(pool) : SameContent(pool, pool', x)
    PROVE  PoolInv'
<1>1. Left(<<"id", n>>) /\ Left(<<"sideId", n>>)
  <2>1. IdOf(n) # NoSegment => loc[n] # NoLoc
    BY DEF IdOf
  <2> QED
    BY <2>1, HoldsAre, NeedsAre DEF Left
<1>2. \A q \in Places : Left(q)
  BY <1>1, OnlyLocLeft
<1> QED
  BY <1>2, PlacesSame

\* The mapped segment of location n is given back.
LEMMA GivesId ==
    ASSUME PoolInv, NEW n \in Sqns, OnlyLoc(n), NEW s \in Segments, Given(pool, s, pool'),
           IdOf(n) = s, IdOf(n)' = NoSegment, SideOf(n) = NoSegment, SideOf(n)' = NoSegment
    PROVE  PoolInv'
<1>0. /\ <<"id", n>> \in Places /\ <<"sideId", n>> \in Places
      /\ Holds[<<"id", n>>] = IdOf(n) /\ Holds[<<"sideId", n>>] = SideOf(n)
      /\ Holds'[<<"id", n>>] = IdOf(n)' /\ Holds'[<<"sideId", n>>] = SideOf(n)'
  BY HoldsAre
<1>1. Left(<<"sideId", n>>)
  BY <1>0 DEF Left
<1>2. \A q \in Places \ {<<"id", n>>} : Left(q)
  BY <1>1, OnlyLocLeft
<1> QED
  BY <1>0, <1>2, PlaceGives

\* The segment that is in progress in location n is given back.
LEMMA GivesSide ==
    ASSUME PoolInv, NEW n \in Sqns, OnlyLoc(n), NEW s \in Segments, Given(pool, s, pool'),
           SideOf(n) = s, SideOf(n)' = NoSegment, IdOf(n) = NoSegment, IdOf(n)' = NoSegment
    PROVE  PoolInv'
<1>0. /\ <<"id", n>> \in Places /\ <<"sideId", n>> \in Places
      /\ Holds[<<"id", n>>] = IdOf(n) /\ Holds[<<"sideId", n>>] = SideOf(n)
      /\ Holds'[<<"id", n>>] = IdOf(n)' /\ Holds'[<<"sideId", n>>] = SideOf(n)'
  BY HoldsAre
<1>1. Left(<<"id", n>>)
  BY <1>0 DEF Left
<1>2. \A q \in Places \ {<<"sideId", n>>} : Left(q)
  BY <1>1, OnlyLocLeft
<1> QED
  BY <1>0, <1>2, PlaceGives

\* A listed segment is taken for location n.
LEMMA TakesSide ==
    ASSUME PoolInv, NEW n \in Sqns, OnlyLoc(n), NEW s \in Segments, s \in Listed(pool),
           PoolGood(pool'), Listed(pool') = Listed(pool) \ {s},
           \A x \in Segments \ {s} : SameContent(pool, pool', x),
           pool'.seg[s].link = n, Complete(n)' => pool'.seg[s].ready,
           SideOf(n) = NoSegment, SideOf(n)' = s, IdOf(n) = NoSegment, IdOf(n)' = NoSegment
    PROVE  PoolInv'
<1>0. /\ <<"id", n>> \in Places /\ <<"sideId", n>> \in Places
      /\ Holds[<<"id", n>>] = IdOf(n) /\ Holds[<<"sideId", n>>] = SideOf(n)
      /\ Holds'[<<"id", n>>] = IdOf(n)' /\ Holds'[<<"sideId", n>>] = SideOf(n)'
  BY HoldsAre
<1>1. Left(<<"id", n>>)
  BY <1>0 DEF Left
<1>2. \A q \in Places \ {<<"sideId", n>>} : Left(q)
  BY <1>1, OnlyLocLeft
<1>3. Fits(<<"sideId", n>>)'
  BY <1>0, NeedsAre DEF Fits
<1> QED
  BY <1>0, <1>2, <1>3, PlaceTakes

\* The segment of location n was in progress and is mapped now.
LEMMA MapsSide ==
    ASSUME PoolInv, NEW n \in Sqns, OnlyLoc(n), NEW s \in Segments,
           PoolGood(pool'), Listed(pool') = Listed(pool),
           \A x \in Segments \ {s} : SameContent(pool, pool', x),
           pool'.seg[s].link = n, pool'.seg[s].ready,
           SideOf(n) = s, SideOf(n)' = NoSegment, IdOf(n) = NoSegment, IdOf(n)' = s
    PROVE  PoolInv'
<1>0. /\ <<"id", n>> \in Places /\ <<"sideId", n>> \in Places
      /\ Holds[<<"id", n>>] = IdOf(n) /\ Holds[<<"sideId", n>>] = SideOf(n)
      /\ Holds'[<<"id", n>>] = IdOf(n)' /\ Holds'[<<"sideId", n>>] = SideOf(n)'
  BY HoldsAre
<1>1. \A q \in Places \ {<<"sideId", n>>, <<"id", n>>} : Left(q)
  BY OnlyLocLeft
<1>2. Fits(<<"id", n>>)'
  BY <1>0, NeedsAre DEF Fits
<1>3. <<"sideId", n>> # <<"id", n>>
  OBVIOUS
<1> QED
  BY <1>0, <1>1, <1>2, <1>3, PlaceMoves

\* The mapped segment of location n is in progress now.
LEMMA UnmapsId ==
    ASSUME PoolInv, NEW n \in Sqns, OnlyLoc(n), NEW s \in Segments,
           PoolGood(pool'), Listed(pool') = Listed(pool),
           \A x \in Segments \ {s} : SameContent(pool, pool', x),
           pool'.seg[s].link = n, pool'.seg[s].ready,
           IdOf(n) = s, IdOf(n)' = NoSegment, SideOf(n) = NoSegment, SideOf(n)' = s
    PROVE  PoolInv'
<1>0. /\ <<"id", n>> \in Places /\ <<"sideId", n>> \in Places
      /\ Holds[<<"id", n>>] = IdOf(n) /\ Holds[<<"sideId", n>>] = SideOf(n)
      /\ Holds'[<<"id", n>>] = IdOf(n)' /\ Holds'[<<"sideId", n>>] = SideOf(n)'
  BY HoldsAre
<1>1. \A q \in Places \ {<<"id", n>>, <<"sideId", n>>} : Left(q)
  BY OnlyLocLeft
<1>2. Fits(<<"sideId", n>>)'
  BY <1>0, NeedsAre DEF Fits
<1>3. <<"sideId", n>> # <<"id", n>>
  OBVIOUS
<1> QED
  BY <1>0, <1>1, <1>2, <1>3, PlaceMoves

\* What is known of a segment that a location owns
LEMMA OwnedFacts ==
    ASSUME PoolInv, NEW q \in Places, NEW s \in Segments, Holds[q] = s
    PROVE  /\ s \in Segments \ Listed(pool) /\ PoolGood(pool)
           /\ pool.seg[s].link = LinkOf(q)
           /\ NeedsData(q) => pool.seg[s].ready
  BY PoolAssumption DEF PoolInv, Own, Fits

\* No segment is touched.
LEMMA PoolSame ==
    ASSUME PoolInv, UNCHANGED <<pool, loc, tasks>>,
           \A m \in Sqns : Busy(m)' \in {Busy(m), "no"},
           \A d \in Sessions : CallKept(d)
    PROVE  PoolInv'
<1>1. ASSUME NEW q \in Places
      PROVE  Left(q)
  <2>1. CASE \E m \in Sqns : q = <<"id", m>> \/ q = <<"sideId", m>>
    <3>1. PICK m \in Sqns : q = <<"id", m>> \/ q = <<"sideId", m>>
      BY <2>1
    <3>2. LocLeft(m)
      BY LocUntouched
    <3> QED
      BY <3>1, <3>2 DEF LocLeft
  <2>2. CASE \E d \in Sessions : q = <<"call", d>>
    BY <2>2, CallLeft
  <2> QED
    BY <2>1, <2>2, PlaceCases
<1>2. \A x \in Segments : SameContent(pool, pool', x)
  BY DEF SameContent
<1>3. PoolGood(pool') /\ Listed(pool') = Listed(pool)
  BY DEF PoolInv
<1> QED
  BY <1>1, <1>2, <1>3, PlacesSame

-----------------------------------------------------------------------------
(* The segments and the steps that close.                                  *)

\* A step of c that keeps the segment of its call leaves all calls alone.
LEMMA CallsKept ==
    ASSUME BaseInv, NEW c \in Sessions, NEW t, th' = [th EXCEPT ![c] = t],
           t.seg = th[c].seg, th[c].seg # NoSegment => t.sqn = th[c].sqn
    PROVE  \A d \in Sessions : CallKept(d)
  BY ThreadChanged DEF CallKept

\* What a step of c that closes location n leaves alone
LEMMA CloseLeaves ==
    ASSUME StreamInv, NEW c \in Sessions, NEW n \in Sqns, Elsewhere(n), NEW t,
           th' = [th EXCEPT ![c] = t], t.seg = NoSegment, th[c].seg = NoSegment,
           th[c].pc \notin {"aheadEnd", "openEnd"}, t.pc \notin {"aheadEnd", "openEnd"},
           openLock' = openLock
    PROVE  OnlyLoc(n) /\ Busy(n)' = Busy(n)
<1>1. /\ th'[c] = t /\ \A d \in Sessions \ {c} : th'[d] = th[d]
  BY ThreadChanged DEF StreamInv
<1>2. \A m \in Sqns : Busy(m)' = Busy(m)
  BY <1>1, BusySame DEF StreamInv, BaseInv
<1>3. \A d \in Sessions : CallKept(d)
  BY CallsKept DEF StreamInv
<1>4. LocsLeft(n)
  BY <1>2, ElsewhereLeft
<1> QED
  BY <1>2, <1>3, <1>4 DEF OnlyLoc

\* The location of n gets the value v.
LEMMA NewIds ==
    ASSUME BaseInv, NEW n \in Sqns, NEW v, loc' = [loc EXCEPT ![n] = v]
    PROVE  /\ loc'[n] = v
           /\ v \in LocType => v # NoLoc /\ IdOf(n)' = v.id /\ SideOf(n)' = v.sideId
           /\ v = NoLoc => IdOf(n)' = NoSegment /\ SideOf(n)' = NoSegment
<1>1. loc'[n] = v
  BY DEF BaseInv
<1> QED
  BY <1>1, LocationAssumption DEF IdOf, SideOf

\* What is known of the segments of an allocated location
LEMMA IdFacts ==
    ASSUME PoolInv, StreamInv, NEW n \in Sqns, loc[n] # NoLoc, NEW l, l = loc[n]
    PROVE  /\ IdOf(n) = l.id /\ SideOf(n) = l.sideId
           /\ PoolGood(pool)
           /\ l.id # NoSegment =>
                /\ l.id \in Segments \ Listed(pool) /\ l.sideId = NoSegment
                /\ pool.seg[l.id].link = n
                /\ l.stored => pool.seg[l.id].ready
           /\ l.sideId # NoSegment =>
                /\ l.sideId \in Segments \ Listed(pool) /\ l.id = NoSegment
                /\ pool.seg[l.sideId].link = n
                /\ Complete(n) => pool.seg[l.sideId].ready
<1>1. IdOf(n) = l.id /\ SideOf(n) = l.sideId
  BY DEF IdOf, SideOf
<1>2. LocGood(l, n, openList, tasks, Busy(n)) /\ l \in LocType
  BY LocFacts
<1>3. /\ l.id \in Segments \cup {NoSegment} /\ l.sideId \in Segments \cup {NoSegment}
      /\ l.id = NoSegment \/ l.sideId = NoSegment
  BY <1>2, LocFields DEF LocGood
<1>4. PoolGood(pool)
  BY DEF PoolInv
<1>5. ASSUME l.id # NoSegment
      PROVE  /\ l.id \in Segments \ Listed(pool) /\ l.sideId = NoSegment
             /\ pool.seg[l.id].link = n
             /\ l.stored => pool.seg[l.id].ready
  <2>1. PICK q : q = <<"id", n>>
    OBVIOUS
  <2>2. q \in Places /\ Holds[q] = l.id /\ LinkOf(q) = n /\ (l.stored => NeedsData(q))
    BY <1>1, <2>1, HoldsAre, NeedsAre
  <2> QED
    BY <1>3, <1>5, <2>2, OwnedFacts
<1>6. ASSUME l.sideId # NoSegment
      PROVE  /\ l.sideId \in Segments \ Listed(pool) /\ l.id = NoSegment
             /\ pool.seg[l.sideId].link = n
             /\ Complete(n) => pool.seg[l.sideId].ready
  <2>1. PICK q : q = <<"sideId", n>>
    OBVIOUS
  <2>2. q \in Places /\ Holds[q] = l.sideId /\ LinkOf(q) = n /\ (Complete(n) => NeedsData(q))
    BY <1>1, <2>1, HoldsAre, NeedsAre
  <2> QED
    BY <1>3, <1>6, <2>2, OwnedFacts
<1> QED
  BY <1>1, <1>4, <1>5, <1>6

\* Closing a location gives its segment to the free lists or to the writer, and
\* loses none.
LEMMA CloseMoves ==
    ASSUME StreamInv, PoolInv, NEW n \in Sqns, loc[n] # NoLoc, OnlyLoc(n), Busy(n)' = Busy(n),
           NEW waiter \in SUBSET Sessions, CloseLocation(n, waiter)
    PROVE  PoolInv'
<1>1. PICK l : l = loc[n]
  OBVIOUS
<1>2. l \in LocType /\ l.waits \in SUBSET Sessions
  BY <1>1, LocFacts, LocFields
<1>3. PICK w \in SUBSET Sessions : w = l.waits \cup waiter
  BY <1>2
<1>4. /\ IdOf(n) = l.id /\ SideOf(n) = l.sideId /\ PoolGood(pool)
      /\ l.id # NoSegment =>
           /\ l.id \in Segments \ Listed(pool) /\ l.sideId = NoSegment
           /\ pool.seg[l.id].link = n
           /\ l.stored => pool.seg[l.id].ready
  BY <1>1, IdFacts
<1>5. BaseInv /\ n \in Links
  BY StreamAssumption DEF StreamInv
<1>6. CASE CloseInProgress(n, waiter)
  <2>1. PICK v : v = Canceled(l, w)
    OBVIOUS
  <2>2. /\ l.id = NoSegment /\ loc' = [loc EXCEPT ![n] = v]
        /\ UNCHANGED <<pool, openList, tasks, lastAppend>>
    BY <1>1, <1>3, <1>6, <2>1 DEF CloseInProgress, Canceled
  <2>3. v \in LocType /\ v.id = l.id /\ v.sideId = l.sideId /\ v.stored = l.stored
    BY <1>2, <2>1, CanceledFields
  <2>4. PoolGood(pool') /\ Listed(pool') = Listed(pool)
        /\ \A x \in Segments \ Listed(pool) : SameContent(pool, pool', x)
    BY <1>4, <2>2 DEF SameContent
  <2>5. Complete(n)' => Complete(n)
    BY <2>2 DEF Complete
  <2>6. IdOf(n)' = IdOf(n) /\ SideOf(n)' = SideOf(n)
    BY <1>4, <1>5, <2>2, <2>3, NewIds
  <2> QED
    BY <1>4, <2>2, <2>4, <2>5, <2>6, KeepsLoc
<1>7. CASE CloseRead(n)
  <2>1. PICK v : v = Unreferenced(l)
    OBVIOUS
  <2>2. /\ l.id # NoSegment /\ l.stored /\ loc' = [loc EXCEPT ![n] = v]
        /\ pool' = FreeSegment(pool, l.id, FALSE)
    BY <1>1, <1>7, <2>1 DEF CloseRead
  <2>3. v \in LocType /\ v.id = NoSegment /\ v.sideId = NoSegment
    BY <1>2, <2>1, UnreferencedFields
  <2>4. IdOf(n)' = NoSegment /\ SideOf(n)' = NoSegment
    BY <1>5, <2>2, <2>3, NewIds
  <2>5. Given(pool, l.id, pool')
    BY <1>4, <1>5, <2>2, FreeGood
  <2> QED
    BY <1>4, <2>2, <2>4, <2>5, GivesId
<1>8. CASE CloseWrite(n, waiter)
  <2>1. PICK v : v = Written(l, w)
    OBVIOUS
  <2>2. /\ l.id # NoSegment /\ ~l.stored /\ loc' = [loc EXCEPT ![n] = v]
        /\ pool' = MarkReady(SubmitWritten(pool, l.id), l.id)
    BY <1>1, <1>3, <1>8, <2>1 DEF CloseWrite, Written
  <2>3. v \in LocType /\ v.id = NoSegment /\ v.sideId = l.id
    BY <1>2, <2>1, WrittenFields
  <2>4. IdOf(n)' = NoSegment /\ SideOf(n)' = l.id
    BY <1>5, <2>2, <2>3, NewIds
  <2>5. Touched(pool, l.id, pool') /\ pool'.seg[l.id].ready
    BY <1>4, <2>2, HandOver
  <2>6. /\ PoolGood(pool') /\ Listed(pool') = Listed(pool)
        /\ pool'.seg[l.id].link = n
        /\ \A x \in Segments \ {l.id} : SameContent(pool, pool', x)
    BY <1>4, <2>2, <2>5 DEF Touched
  <2>7. SideOf(n) = NoSegment /\ l.id \in Segments
    BY <1>4, <2>2
  <2> QED
    BY <1>4, <2>4, <2>5, <2>6, <2>7, UnmapsId
<1>9. CASE CloseDrop(n)
  <2>1. PICK v : v = NoLoc
    OBVIOUS
  <2>2. /\ l.id # NoSegment /\ loc' = [loc EXCEPT ![n] = v]
        /\ pool' = PurgeSegment(pool, l.id)
    BY <1>1, <1>9, <2>1 DEF CloseDrop
  <2>3. IdOf(n)' = NoSegment /\ SideOf(n)' = NoSegment
    BY <1>5, <2>1, <2>2, NewIds
  <2>4. Given(pool, l.id, pool')
    BY <1>4, <2>2, PurgeGood
  <2> QED
    BY <1>4, <2>2, <2>3, <2>4, GivesId
<1> QED
  BY <1>6, <1>7, <1>8, <1>9 DEF CloseLocation

\* References of a location go, and nothing else happens to it.
LEMMA ReleaseMoves ==
    ASSUME StreamInv, PoolInv, NEW n \in Sqns, loc[n] # NoLoc, OnlyLoc(n), Busy(n)' = Busy(n),
           NEW c \in Sessions, NEW k \in 1..loc[n].refs[c],
           loc' = [loc EXCEPT ![n] = Released(loc[n], c, k)],
           UNCHANGED <<pool, tasks>>
    PROVE  PoolInv'
<1>1. PICK l : l = loc[n]
  OBVIOUS
<1>2. l \in LocType /\ l.count = SumOf(l.refs)
  BY <1>1, LocFacts
<1>3. PICK v : v = Released(l, c, k)
  OBVIOUS
<1>4. v \in LocType /\ v.id = l.id /\ v.sideId = l.sideId /\ v.stored = l.stored
  BY <1>1, <1>2, <1>3, ReleasedFields
<1>5. loc' = [loc EXCEPT ![n] = v] /\ BaseInv
  BY <1>1, <1>3 DEF StreamInv
<1>6. IdOf(n)' = v.id /\ SideOf(n)' = v.sideId /\ loc'[n] = v
  BY <1>4, <1>5, NewIds
<1>7. IdOf(n) = l.id /\ SideOf(n) = l.sideId /\ PoolGood(pool)
  BY <1>1, IdFacts
<1>8. PoolGood(pool') /\ Listed(pool') = Listed(pool)
      /\ \A x \in Segments \ Listed(pool) : SameContent(pool, pool', x)
  BY <1>7 DEF SameContent
<1>9. Complete(n)' => Complete(n)
  BY DEF Complete
<1> QED
  BY <1>1, <1>4, <1>6, <1>7, <1>8, <1>9, KeepsLoc

\* append() closes the segment before it: no segment is lost or held twice.
LEMMA AppendBeginMoves ==
    ASSUME StreamInv, PoolInv, NEW c \in Sessions, AppendBegin(c)
    PROVE  PoolInv'
<1>1. PICK t : t = [th[c] EXCEPT !.pc = "append"]
  OBVIOUS
<1>2. /\ th[c].pc = "idle" /\ openLock' = openLock /\ th' = [th EXCEPT ![c] = t]
  BY <1>1 DEF AppendBegin
<1>3. /\ t.pc = "append" /\ t.seg = th[c].seg /\ th[c].seg = NoSegment
  BY <1>1, <1>2, AtPc, ThreadFacts DEF Pcs, ThreadGood
<1>4. CASE lastAppend = NoSqn
  <2>1. UNCHANGED <<pool, loc, tasks>>
    BY <1>4 DEF AppendBegin
  <2>2. \A d \in Sessions : CallKept(d)
    BY <1>2, <1>3, CallsKept DEF StreamInv
  <2>3. \A m \in Sqns : Busy(m)' = Busy(m)
    BY <1>2, <1>3, ThreadChanged, BusySame DEF StreamInv, BaseInv
  <2> QED
    BY <2>1, <2>2, <2>3, PoolSame
<1>5. CASE lastAppend # NoSqn
  <2>1. PICK n \in Sqns : n = lastAppend
    BY <1>5 DEF StreamInv, BaseInv
  <2>2. CloseLocation(n, {})
    BY <1>5, <2>1 DEF AppendBegin
  <2>3. loc[n] # NoLoc /\ ~loc[n].stored
    BY <1>5, <2>1 DEF StreamInv, AppendInv
  <2>4. loc[n].count > 0
    <3>1. LocGood(loc[n], n, openList, tasks, Busy(n))
      BY <2>3, LocFacts
    <3>2. loc[n].count = 1
      BY <2>3, <3>1 DEF LocGood
    <3> QED
      BY <3>2
  <2>5. Elsewhere(n)
    BY <2>2, <2>3, <2>4, CloseIsClosed DEF Closed
  <2>6. OnlyLoc(n) /\ Busy(n)' = Busy(n)
    BY <1>2, <1>3, <2>5, CloseLeaves
  <2> QED
    BY <2>2, <2>3, <2>6, CloseMoves
<1> QED
  BY <1>4, <1>5

\* Closing the location of one sequence number: no segment is lost or held twice.
LEMMA CloseSqnMoves ==
    ASSUME StreamInv, PoolInv, NEW c \in Sessions, NEW n \in Sqns, CloseSqn(c, n),
           NEW t, th' = [th EXCEPT ![c] = t], t.seg = NoSegment, th[c].seg = NoSegment,
           th[c].pc \notin {"aheadEnd", "openEnd"}, t.pc \notin {"aheadEnd", "openEnd"},
           openLock' = openLock
    PROVE  PoolInv'
<1>1. loc[n] # NoLoc /\ loc[n].refs[c] > 0
  BY DEF CloseSqn
<1>2. Elsewhere(n)
  BY CloseSqnIsClosed DEF Closed
<1>3. OnlyLoc(n) /\ Busy(n)' = Busy(n)
  BY <1>2, CloseLeaves
<1>4. loc[n].refs[c] \in Nat
  BY <1>1, LocFacts, LocFields
<1>5. CASE loc[n].count = 1
  BY <1>1, <1>3, <1>5, CloseMoves DEF CloseSqn
<1>6. CASE loc[n].count # 1
  <2>1. /\ loc' = [loc EXCEPT ![n] = Released(loc[n], c, 1)]
        /\ UNCHANGED <<pool, tasks>>
    BY <1>6 DEF CloseSqn, Released
  <2>2. 1 \in 1..loc[n].refs[c]
    BY <1>1, <1>4
  <2> QED
    BY <1>1, <1>3, <2>1, <2>2, ReleaseMoves
<1> QED
  BY <1>5, <1>6

\* close() of an open segment: no segment is lost or held twice.
LEMMA CloseCallMoves ==
    ASSUME StreamInv, PoolInv, NEW c \in Sessions, NEW n \in Sqns, Close(c, n)
    PROVE  PoolInv'
<1>1. PICK t : t = th[c]
  OBVIOUS
<1>2. t.pc = "idle" /\ CloseSqn(c, n) /\ UNCHANGED <<openLock, th>>
  BY <1>1 DEF Close
<1>3. th' = [th EXCEPT ![c] = t]
  BY <1>1, <1>2 DEF StreamInv, BaseInv
<1>4. t.seg = NoSegment
  BY <1>1, <1>2, ThreadFacts DEF ThreadGood
<1> QED
  BY <1>1, <1>2, <1>3, <1>4, CloseSqnMoves

\* close() of a segment that is being loaded: no segment is lost or held twice.
LEMMA CloseLoadingMoves ==
    ASSUME StreamInv, PoolInv, NEW c \in Sessions, CloseLoading(c)
    PROVE  PoolInv'
<1>1. PICK n : n = th[c].sqn
  OBVIOUS
<1>2. /\ th[c].pc = "wait" /\ CloseSqn(c, n) /\ th' = [th EXCEPT ![c] = Idle]
      /\ UNCHANGED <<openLock, view>>
  BY <1>1 DEF CloseLoading
<1>3. n \in Sqns /\ th[c].seg = NoSegment
  BY <1>1, <1>2, ThreadFacts DEF ThreadGood
<1> QED
  BY <1>2, <1>3, IdleFields, CloseSqnMoves

\* The detach closes one segment: no segment is lost or held twice.
LEMMA DetachStepMoves ==
    ASSUME StreamInv, PoolInv, NEW c \in Sessions, DetachStep(c)
    PROVE  PoolInv'
<1>1. PICK n \in th[c].todo :
        /\ th' = [th EXCEPT ![c].todo = @ \ {n}]
        /\ IF loc[n].refs[c] = 0
           THEN UNCHANGED <<pool, loc, openList, tasks, lastAppend>>
           ELSE IF loc[n].count = loc[n].refs[c]
           THEN CloseLocation(n, {c})
           ELSE /\ loc' = [loc EXCEPT ![n].count = @ - loc[n].refs[c],
                                      ![n].refs[c] = 0]
                /\ UNCHANGED <<pool, openList, tasks, lastAppend>>
  BY DEF DetachStep
<1>2. /\ th[c].pc = "detach" /\ openLock' = openLock
  BY DEF DetachStep
<1>3. /\ th[c].todo \subseteq openList /\ n \in Sqns /\ th[c].seg = NoSegment
  BY <1>1, <1>2, ThreadFacts DEF ThreadGood, StreamInv, BaseInv
<1>4. n \in openList /\ loc[n] # NoLoc
  BY <1>1, <1>3 DEF StreamInv, LocInv, LocOK
<1>5. /\ loc[n] \in LocType /\ loc[n].count > 0 /\ loc[n].count = SumOf(loc[n].refs)
  BY <1>3, <1>4, LocFacts DEF LocGood
<1>6. loc[n].refs \in [Sessions -> Nat] /\ loc[n].refs[c] \in Nat
  BY <1>5, LocFields
<1>7. PICK t : t = [th[c] EXCEPT !.todo = @ \ {n}]
  OBVIOUS
<1>8. /\ th' = [th EXCEPT ![c] = t] /\ t.seg = NoSegment /\ t.pc = "detach"
  BY <1>1, <1>2, <1>3, <1>7, ThreadFacts DEF ThreadType
<1>9. Elsewhere(n) => OnlyLoc(n) /\ Busy(n)' = Busy(n)
  BY <1>2, <1>3, <1>8, CloseLeaves
<1>10. CASE loc[n].refs[c] = 0
  <2>1. UNCHANGED <<pool, loc, tasks>>
    BY <1>1, <1>10
  <2>2. \A d \in Sessions : CallKept(d)
    BY <1>3, <1>8, CallsKept DEF StreamInv
  <2>3. \A m \in Sqns : Busy(m)' = Busy(m)
    BY <1>2, <1>8, ThreadChanged, BusySame DEF StreamInv, BaseInv
  <2> QED
    BY <2>1, <2>2, <2>3, PoolSame
<1>11. CASE loc[n].refs[c] # 0 /\ loc[n].count = loc[n].refs[c]
  <2>1. CloseLocation(n, {c})
    BY <1>1, <1>11
  <2>2. Elsewhere(n)
    BY <1>3, <1>4, <1>5, <1>11, <2>1, CloseIsClosed DEF Closed
  <2> QED
    BY <1>3, <1>4, <1>9, <2>1, <2>2, CloseMoves
<1>12. CASE loc[n].refs[c] # 0 /\ loc[n].count # loc[n].refs[c]
  <2>1. PICK k : k = loc[n].refs[c]
    OBVIOUS
  <2>2. /\ loc' = [loc EXCEPT ![n].count = @ - k, ![n].refs[c] = 0]
        /\ UNCHANGED <<pool, openList, tasks, lastAppend>>
    BY <1>1, <1>12, <2>1
  <2>3. k \in 1..loc[n].refs[c] /\ loc[n].count # k /\ loc[n].refs[c] - k = 0
    BY <1>6, <1>12, <2>1
  <2>4. loc' = [loc EXCEPT ![n] = Released(loc[n], c, k)]
    BY <2>2, <2>3 DEF Released
  <2>5. Elsewhere(n)
    BY <1>3, <1>4, <2>2, <2>3, <2>4, ReleaseIsClosed DEF Closed
  <2> QED
    BY <1>3, <1>4, <1>9, <2>2, <2>3, <2>4, <2>5, ReleaseMoves
<1> QED
  BY <1>10, <1>11, <1>12

-----------------------------------------------------------------------------
(* The segments and the steps of append and addSegment.                    *)

\* Nothing but the thread of c and the buffer changes.
OnlyCall(c) ==
    /\ UNCHANGED <<loc, tasks>>
    /\ \A m \in Sqns : Busy(m)' = Busy(m)
    /\ \A d \in Sessions \ {c} : CallKept(d)

\* A step that changes the call of c leaves every other place alone.
LEMMA OnlyCallLeft ==
    ASSUME NEW c \in Sessions, OnlyCall(c), NEW q \in Places, q # <<"call", c>>
    PROVE  Left(q)
<1>1. CASE \E m \in Sqns : q = <<"id", m>> \/ q = <<"sideId", m>>
  <2>1. PICK m \in Sqns : q = <<"id", m>> \/ q = <<"sideId", m>>
    BY <1>1
  <2>2. LocLeft(m)
    BY LocUntouched DEF OnlyCall
  <2> QED
    BY <2>1, <2>2 DEF LocLeft
<1>2. CASE \E d \in Sessions : q = <<"call", d>>
  BY <1>2, CallLeft DEF OnlyCall
<1> QED
  BY <1>1, <1>2, PlaceCases

\* The thread of c gets a segment.
LEMMA TakesCall ==
    ASSUME PoolInv, NEW c \in Sessions, OnlyCall(c), NEW n \in Sqns, NEW r, Granted(pool, n, r),
           pool' = r[1], r[2] # NoSegment, th[c].seg = NoSegment,
           th'[c].seg = r[2], th'[c].sqn = n
    PROVE  PoolInv'
<1>1. PICK s : s = r[2]
  OBVIOUS
<1>2. s \in Segments /\ s \in Listed(pool) /\ Got(pool, s, n, pool')
  BY <1>1 DEF Granted
<1>3. PICK q : q = <<"call", c>>
  OBVIOUS
<1>4. /\ q \in Places /\ Holds[q] = NoSegment /\ Holds'[q] = s
      /\ ~NeedsData(q)' /\ LinkOf(q)' = n
  BY <1>1, <1>3, HoldsAre, NeedsAre
<1>5. Fits(q)'
  BY <1>2, <1>4 DEF Fits, Got
<1>6. \A x \in Places \ {q} : Left(x)
  BY <1>3, OnlyCallLeft
<1> QED
  BY <1>2, <1>4, <1>5, <1>6, PlaceTakes DEF Got

\* append() requests a segment: no segment is lost or held twice.
LEMMA AppendRequestMoves ==
    ASSUME StreamInv, PoolInv, NEW c \in Sessions, AppendRequest(c)
    PROVE  PoolInv'
<1>1. /\ th[c].pc = "append" /\ th[c].seg = NoSegment
      /\ lastSqn < MaxSqn /\ lastSqn \in Sqns \cup {NoSqn}
  BY ThreadFacts DEF AppendRequest, ThreadGood, StreamInv, BaseInv
<1>2. PICK n \in Sqns : n = lastSqn + 1
  BY <1>1, StreamAssumption DEF Sqns, NoSqn
<1>3. PICK r \in Request("write", n) :
        /\ pool' = r[1]
        /\ IF r[2] = NoSegment
           THEN th' = [th EXCEPT ![c] = Idle]
           ELSE th' = [th EXCEPT ![c].seg = r[2], ![c].sqn = n]
  BY <1>2 DEF AppendRequest
<1>4. Granted(pool, n, r)
  BY RequestGranted DEF PoolInv
<1>5. PICK t : t = IF r[2] = NoSegment THEN Idle ELSE [th[c] EXCEPT !.seg = r[2], !.sqn = n]
  OBVIOUS
<1>6. th' = [th EXCEPT ![c] = t] /\ UNCHANGED <<loc, tasks, openLock>>
  BY <1>3, <1>5 DEF AppendRequest
<1>7. t.seg = r[2] /\ t.pc \in {"idle", "append"} /\ (r[2] # NoSegment => t.sqn = n)
  BY <1>1, <1>5, IdleFields, ThreadFacts DEF ThreadType
<1>8. th'[c] = t /\ \A d \in Sessions \ {c} : th'[d] = th[d]
  BY <1>6, ThreadChanged DEF StreamInv
<1>9. OnlyCall(c)
  <2>1. \A m \in Sqns : Busy(m)' = Busy(m)
    BY <1>1, <1>6, <1>7, <1>8, BusySame DEF StreamInv, BaseInv
  <2> QED
    BY <1>6, <1>8, <2>1 DEF OnlyCall, CallKept
<1>10. CASE r[2] # NoSegment
  BY <1>1, <1>3, <1>4, <1>7, <1>8, <1>9, <1>10, TakesCall
<1>11. CASE r[2] = NoSegment
  <2>1. CallKept(c)
    BY <1>1, <1>7, <1>8, <1>11 DEF CallKept
  <2>2. pool' = pool
    BY <1>3, <1>4, <1>11, PoolAssumption DEF Granted
  <2> QED
    BY <1>9, <2>1, <2>2, PoolSame DEF OnlyCall
<1> QED
  BY <1>10, <1>11

\* addSegment() requests a segment: no segment is lost or held twice.
LEMMA AddRequestMoves ==
    ASSUME StreamInv, PoolInv, NEW c \in Sessions, NEW n \in Sqns, AddRequest(c, n)
    PROVE  PoolInv'
<1>1. th[c].pc = "idle" /\ UNCHANGED <<loc, tasks, openLock>>
  BY DEF AddRequest
<1>2. PICK r \in Request("write", n) :
        /\ r[2] # NoSegment /\ pool' = r[1]
        /\ th' = [th EXCEPT ![c] = [Idle EXCEPT !.pc = "add", !.sqn = n, !.seg = r[2]]]
  BY Zenon DEF AddRequest
<1>3. Granted(pool, n, r)
  BY RequestGranted DEF PoolInv
<1>4. PICK t : t = [Idle EXCEPT !.pc = "add", !.sqn = n, !.seg = r[2]]
  OBVIOUS
<1>5. t.seg = r[2] /\ t.sqn = n /\ t.pc = "add" /\ th' = [th EXCEPT ![c] = t]
  BY <1>2, <1>4 DEF Idle
<1>6. th[c].seg = NoSegment
  BY <1>1, ThreadFacts DEF ThreadGood
<1>7. th'[c] = t /\ \A d \in Sessions \ {c} : th'[d] = th[d]
  BY <1>5, ThreadChanged DEF StreamInv
<1>8. OnlyCall(c)
  <2>1. \A m \in Sqns : Busy(m)' = Busy(m)
    BY <1>1, <1>5, <1>7, BusySame DEF StreamInv, BaseInv
  <2> QED
    BY <1>1, <1>7, <2>1 DEF OnlyCall, CallKept
<1> QED
  BY <1>2, <1>3, <1>5, <1>6, <1>7, <1>8, TakesCall

\* The segment moves from the call to the new location.
LEMMA AddLocationMoves ==
    ASSUME StreamInv, PoolInv, NEW c \in Sessions, th[c].pc \in {"append", "add"},
           th[c].seg # NoSegment, AddSegmentLocation(c)
    PROVE  PoolInv'
<1>1. PICK n : n = th[c].sqn
  OBVIOUS
<1>2. PICK s : s = th[c].seg
  OBVIOUS
<1>3. PICK l : l = NewLoc(c, s)
  OBVIOUS
<1>4. /\ n \in Sqns /\ loc[n] = NoLoc /\ s \in Segments
  BY <1>1, <1>2, ThreadFacts DEF ThreadGood
<1>5. /\ loc' = [loc EXCEPT ![n] = l] /\ th' = [th EXCEPT ![c] = Idle]
      /\ openList' = openList \cup {n} /\ UNCHANGED <<pool, tasks, openLock>>
  BY <1>1, <1>2, <1>3 DEF AddSegmentLocation
<1>6. <<"write", n>> \notin tasks /\ <<"read", n>> \notin tasks /\ <<"failed", n>> \notin tasks
  BY <1>4 DEF StreamInv, LocInv, LocOK
<1>7. l \in LocType /\ ~l.stored /\ l.id = s /\ l.sideId = NoSegment
  <2>1. n \in openList \cup {n}
    OBVIOUS
  <2>2. LocGood(l, n, openList \cup {n}, tasks, "no") /\ ~l.stored /\ l.id = s
        /\ l.sideId = NoSegment
    BY <1>3, <1>4, <1>6, <2>1, NewLocGood
  <2> QED
    BY <2>2 DEF LocGood
<1>8. /\ th'[c] = Idle /\ \A d \in Sessions \ {c} : th'[d] = th[d]
      /\ \A k \in Sqns \ {n} : loc'[k] = loc[k]
  BY <1>4, <1>5, ThreadChanged, LocChanged DEF StreamInv
<1>9. \A m \in Sqns : Busy(m)' = Busy(m)
  BY <1>5, <1>8, IdleFields, BusySame
<1>10. LocsLeft(n)
  BY <1>5, <1>8, <1>9, LocUntouched DEF LocsLeft
<1>11. IdOf(n) = NoSegment /\ SideOf(n) = NoSegment
  BY <1>4 DEF IdOf, SideOf
<1>12. IdOf(n)' = s /\ SideOf(n)' = NoSegment /\ loc'[n] = l
  BY <1>4, <1>5, <1>7, NewIds DEF StreamInv
<1>13. PICK q : q = <<"call", c>>
  OBVIOUS
<1>14. PICK r : r = <<"id", n>>
  OBVIOUS
<1>15. /\ q \in Places /\ r \in Places /\ q # r
       /\ Holds[q] = s /\ Holds[r] = NoSegment /\ Holds'[q] = NoSegment /\ Holds'[r] = s
       /\ LinkOf(q) = n /\ LinkOf(r)' = n /\ ~NeedsData(r)'
  BY <1>1, <1>2, <1>4, <1>7, <1>8, <1>11, <1>12, <1>13, <1>14, IdleFields, HoldsAre, NeedsAre
<1>16. pool.seg[s].link = n /\ PoolGood(pool)
  BY <1>4, <1>15, OwnedFacts
<1>17. Fits(r)'
  BY <1>5, <1>15, <1>16 DEF Fits
<1>18. ASSUME NEW v \in Places \ {q, r}
       PROVE  Left(v)
  <2>1. CASE \E m \in Sqns : v = <<"id", m>> \/ v = <<"sideId", m>>
    <3>1. PICK m \in Sqns : v = <<"id", m>> \/ v = <<"sideId", m>>
      BY <2>1
    <3>2. CASE m # n
      BY <1>10, <3>1, <3>2 DEF LocsLeft, LocLeft
    <3>3. CASE m = n
      <4>1. v = <<"sideId", n>>
        BY <1>14, <1>18, <3>1, <3>3
      <4>2. Holds[v] = NoSegment /\ Holds'[v] = NoSegment
        BY <1>4, <1>11, <1>12, <4>1, HoldsAre
      <4> QED
        BY <4>2 DEF Left
    <3> QED
      BY <3>2, <3>3
  <2>2. CASE \E d \in Sessions : v = <<"call", d>>
    <3>1. PICK d \in Sessions : v = <<"call", d>>
      BY <2>2
    <3>2. d # c
      BY <1>13, <1>18, <3>1
    <3> QED
      BY <1>8, <3>1, <3>2, CallLeft DEF CallKept
  <2> QED
    BY <2>1, <2>2, PlaceCases
<1>19. \A x \in Segments \ {s} : SameContent(pool, pool', x)
  BY <1>5 DEF SameContent
<1>20. PoolGood(pool') /\ Listed(pool') = Listed(pool)
  BY <1>5, <1>16
<1> QED
  BY <1>4, <1>15, <1>17, <1>18, <1>19, <1>20, PlaceMoves

-----------------------------------------------------------------------------
(* The segments and the steps that open.                                   *)

\* A step of a thread that touches no segment
LEMMA ThreadMoves ==
    ASSUME StreamInv, PoolInv, NEW c \in Sessions, NEW t, th' = [th EXCEPT ![c] = t],
           UNCHANGED <<pool, loc, tasks>>,
           t.seg = th[c].seg, th[c].seg # NoSegment => t.sqn = th[c].sqn,
           th[c].pc \notin {"openEnd", "aheadEnd"}, t.pc \notin {"openEnd", "aheadEnd"},
           openLock' \in {openLock, NoSession}
    PROVE  PoolInv'
<1>1. \A m \in Sqns : Busy(m)' \in {Busy(m), "no"}
  <2>1. CASE openLock' = openLock
    BY <2>1, ThreadChanged, BusySame DEF StreamInv, BaseInv
  <2>2. CASE openLock' = NoSession
    BY <2>2, StreamAssumption DEF Busy
  <2> QED
    BY <2>1, <2>2
<1>2. \A d \in Sessions : CallKept(d)
  BY CallsKept DEF StreamInv
<1> QED
  BY <1>1, <1>2, PoolSame

\* Steps that move no segment.
LEMMA QuietMoves ==
    ASSUME StreamInv, PoolInv, NEW c \in Sessions,
           \/ AheadSkip(c) \/ AheadCrash(c) \/ AheadDone(c) \/ OpenReturn(c)
           \/ DetachBegin(c) \/ DetachEnd(c) \/ DetachDone(c)
    PROVE  PoolInv'
<1>1. th[c] \in ThreadType /\ ThreadGood(c) /\ th = [d \in Sessions |-> th[d]]
  BY ThreadFacts DEF StreamInv, BaseInv
<1>2. UNCHANGED <<pool, loc, tasks>> /\ openLock' \in {openLock, NoSession}
  BY DEF AheadSkip, AheadCrash, AheadDone, OpenReturn, DetachBegin, DetachEnd, DetachDone
<1>3. CASE AheadSkip(c)
  <2>1. PICK t : t = [th[c] EXCEPT !.ahead = Tail(@)]
    OBVIOUS
  <2>2. th' = [th EXCEPT ![c] = t] /\ th[c].pc = "ahead"
    BY <1>3, <2>1 DEF AheadSkip
  <2>3. t.seg = th[c].seg /\ t.sqn = th[c].sqn /\ t.pc = th[c].pc
    BY <1>1, <2>1 DEF ThreadType
  <2> QED
    BY <1>2, <2>2, <2>3, ThreadMoves
<1>4. CASE AheadCrash(c)
  <2>1. PICK t : t = th[c]
    OBVIOUS
  <2>2. th' = [th EXCEPT ![c] = t] /\ th[c].pc = "ahead"
    BY <1>1, <1>4, <2>1 DEF AheadCrash
  <2> QED
    BY <1>2, <2>1, <2>2, ThreadMoves
<1>5. ASSUME NEW pc \in {"wait", "drain", "gone"}, th' = [th EXCEPT ![c].pc = pc],
             th[c].pc \in {"ahead", "detach", "drain"}
      PROVE  PoolInv'
  <2>1. PICK t : t = [th[c] EXCEPT !.pc = pc]
    OBVIOUS
  <2>2. t.seg = th[c].seg /\ t.sqn = th[c].sqn /\ t.pc = pc
    BY <1>1, <2>1 DEF ThreadType
  <2>3. th' = [th EXCEPT ![c] = t]
    BY <1>5, <2>1
  <2> QED
    BY <1>2, <1>5, <2>2, <2>3, ThreadMoves
<1>6. CASE AheadDone(c) \/ DetachEnd(c) \/ DetachDone(c)
  BY <1>5, <1>6 DEF AheadDone, DetachEnd, DetachDone, Goto
<1>7. CASE OpenReturn(c)
  <2>1. th' = [th EXCEPT ![c] = Idle] /\ th[c].pc = "wait"
    BY <1>7 DEF OpenReturn
  <2>2. th[c].seg = NoSegment
    BY <1>1, <2>1 DEF ThreadGood
  <2> QED
    BY <1>2, <2>1, <2>2, IdleFields, ThreadMoves
<1>8. CASE DetachBegin(c)
  <2>1. PICK t : t = [Idle EXCEPT !.pc = "detach", !.todo = openList]
    OBVIOUS
  <2>2. th' = [th EXCEPT ![c] = t] /\ th[c].pc = "idle"
    BY <1>8, <2>1 DEF DetachBegin
  <2>3. th[c].seg = NoSegment /\ t.seg = NoSegment /\ t.pc = "detach"
    BY <1>1, <2>1, <2>2 DEF ThreadGood, Idle
  <2> QED
    BY <1>2, <2>2, <2>3, ThreadMoves
<1> QED
  BY <1>3, <1>4, <1>6, <1>7, <1>8

\* open() begins: no segment is lost or held twice.
LEMMA OpenBeginMoves ==
    ASSUME StreamInv, PoolInv, NEW c \in Sessions, NEW n \in Sqns, NEW scan \in BOOLEAN,
           OpenBegin(c, n, scan)
    PROVE  PoolInv'
<1>1. Began(c, n)
  BY OpenBeginFacts
<1>2. /\ th[c].pc = "idle" /\ th'[c].seg = NoSegment
      /\ \A d \in Sessions \ {c} : th'[d] = th[d]
      /\ \A m \in Sqns : Busy(m)' = "no" /\ Busy(m) = "no"
      /\ loc[n] # NoLoc /\ UNCHANGED <<pool, openList, tasks>>
  BY <1>1 DEF Began, Opens
<1>3. \A d \in Sessions : CallKept(d)
  <2>1. th[c].seg = NoSegment
    BY <1>2, ThreadFacts DEF ThreadGood
  <2> QED
    BY <1>2, <2>1 DEF CallKept
<1>4. loc[n] \in LocType /\ loc[n].count \in Nat
  BY <1>2, LocFacts, LocFields
<1>5. CASE loc[n].count = 0
  <2>1. loc' = loc
    BY <1>1, <1>5 DEF Began
  <2> QED
    BY <1>2, <1>3, <2>1, PoolSame
<1>6. CASE loc[n].count > 0
  <2>1. PICK l : loc' = [loc EXCEPT ![n] = l] /\ Shared(loc[n], c, l)
    BY <1>1, <1>6 DEF Began
  <2>2. /\ l \in LocType /\ l.id = loc[n].id /\ l.sideId = loc[n].sideId
        /\ l.stored = loc[n].stored
    BY <2>1 DEF Shared
  <2>3. IdOf(n)' = l.id /\ SideOf(n)' = l.sideId /\ loc'[n] = l
    BY <2>1, <2>2, NewIds DEF StreamInv
  <2>4. IdOf(n) = loc[n].id /\ SideOf(n) = loc[n].sideId
    BY <1>2 DEF IdOf, SideOf
  <2>5. Elsewhere(n)
    BY <1>2, <2>1, LocChanged DEF Elsewhere, StreamInv
  <2>6. OnlyLoc(n)
    BY <1>2, <1>3, <2>5, ElsewhereLeft DEF OnlyLoc
  <2>7. Complete(n)' => Complete(n)
    BY <1>2 DEF Complete
  <2>8. /\ PoolGood(pool') /\ Listed(pool') = Listed(pool)
        /\ \A x \in Segments \ Listed(pool) : SameContent(pool, pool', x)
    BY <1>2 DEF PoolInv, SameContent
  <2> QED
    BY <2>2, <2>3, <2>4, <2>6, <2>7, <2>8, KeepsLoc
<1> QED
  BY <1>4, <1>5, <1>6

\* _openSegment puts the segment of the pool into the location, and no segment is
\* lost or held twice.
LEMMA OpenSegmentMoves ==
    ASSUME StreamInv, PoolInv, NEW c \in Sessions, NEW m \in Sqns,
           NEW prefetch \in BOOLEAN, NEW async \in BOOLEAN,
           NEW pc \in {"aheadEnd", "openEnd"},
           th[c].pc = "ahead", loc[m] # NoLoc, loc[m].stored, loc[m].count = 0,
           prefetch => pc = "aheadEnd" /\ th[c].ahead # <<>> /\ Head(th[c].ahead) = m,
           ~prefetch => pc = "openEnd" /\ th[c].sqn = m,
           OpenSegment(c, m, prefetch, async, pc)
    PROVE  PoolInv'
<1>1. PICK kind \in {"write", "read", "prefetch"} : kind = IF prefetch THEN "prefetch" ELSE "read"
  OBVIOUS
<1>2. PICK r \in Request(kind, m) :
        /\ pool' = IF r[2] # NoSegment /\ ~r[3] /\ ~async THEN MarkReady(r[1], r[2]) ELSE r[1]
        /\ loc' = [loc EXCEPT ![m].prefetched = prefetch, ![m].cancel = prefetch,
                              ![m].sideId = r[2]]
        /\ tasks' = IF r[2] # NoSegment /\ ~r[3] /\ async
                    THEN tasks \cup {<<"read", m>>} ELSE tasks
        /\ th' = [th EXCEPT ![c].pc = pc, ![c].complete = ~(r[2] # NoSegment /\ ~r[3] /\ async)]
        /\ UNCHANGED <<openList, openLock>>
  BY <1>1 DEF OpenSegment
<1>3. Granted(pool, m, r)
  BY RequestGranted DEF PoolInv
<1>4. PICK load \in BOOLEAN : load <=> r[2] # NoSegment /\ ~r[3] /\ async
  OBVIOUS
<1>5. PICK s \in Segments \cup {NoSegment} : s = r[2]
  BY <1>3 DEF Granted
<1>6. PICK t : t = Calling(th[c], pc, load)
  OBVIOUS
<1>7. PICK l : l = Opening(loc[m], prefetch, s)
  OBVIOUS
<1>8. /\ loc' = [loc EXCEPT ![m] = l] /\ th' = [th EXCEPT ![c] = t]
      /\ UNCHANGED <<openList, openLock>>
      /\ tasks' = IF load THEN tasks \cup {<<"read", m>>} ELSE tasks
  BY <1>2, <1>4, <1>5, <1>6, <1>7 DEF Opening, Calling
<1>9. /\ t.pc = pc /\ t.complete = ~load /\ t.sqn = th[c].sqn
      /\ t.seg = th[c].seg /\ t.ahead = th[c].ahead
  <2>1. Called(th[c], pc, load, t)
    BY <1>6, ThreadFacts, CallingFields
  <2> QED
    BY <2>1 DEF Called
<1>10. ThreadGood(c) /\ openLock = c
  BY ThreadFacts DEF ThreadGood
<1>11. \A k \in Sqns : Busy(k) = "no"
  BY <1>10 DEF Busy
<1>12. /\ loc[m] \in LocType /\ LocGood(loc[m], m, openList, tasks, "no")
  BY <1>11, LocFacts
<1>13. /\ loc[m].id = NoSegment /\ loc[m].sideId = NoSegment
       /\ <<"write", m>> \notin tasks
  BY <1>12 DEF LocGood
<1>14. l \in LocType /\ l.id = NoSegment /\ l.sideId = s
  BY <1>7, <1>12, <1>13, OpeningFields DEF Opened
<1>15. /\ th'[c] = t /\ \A d \in Sessions \ {c} : th'[d] = th[d]
       /\ \A k \in Sqns \ {m} : loc'[k] = loc[k]
  BY <1>8, ThreadChanged, LocChanged DEF StreamInv
<1>16. Elsewhere(m)
  BY <1>8, <1>15 DEF Elsewhere
<1>17. \A k \in Sqns \ {m} : Busy(k)' = "no"
  <2>1. openLock' = c /\ th'[c].pc = pc /\ th'[c].sqn = th[c].sqn
        /\ th'[c].ahead = th[c].ahead
    BY <1>8, <1>9, <1>10, <1>15
  <2>2. CASE prefetch
    <3>1. pc = "aheadEnd" /\ Head(th[c].ahead) = m
      BY <2>2
    <3> QED
      BY <2>1, <3>1 DEF Busy
  <2>3. CASE ~prefetch
    <3>1. pc = "openEnd" /\ th[c].sqn = m
      BY <2>3
    <3> QED
      BY <2>1, <3>1 DEF Busy
  <2> QED
    BY <2>2, <2>3
<1>18. Complete(m)' => ~load
  <2>1. <<"write", m>> \notin tasks'
    BY <1>8, <1>13
  <2>2. Busy(m)' \in {"openDone", "aheadDone"} => th'[c].complete
    BY <1>8, <1>10, StreamAssumption DEF Busy
  <2> QED
    BY <1>9, <1>15, <2>1, <2>2 DEF Complete
<1>19. OnlyLoc(m)
  <2>1. \A d \in Sessions : CallKept(d)
    BY <1>8, <1>9, CallsKept DEF StreamInv
  <2> QED
    BY <1>11, <1>16, <1>17, <2>1, ElsewhereLeft DEF OnlyLoc
<1>20. /\ IdOf(m) = NoSegment /\ SideOf(m) = NoSegment
       /\ IdOf(m)' = NoSegment /\ SideOf(m)' = s
  <2>1. IdOf(m)' = NoSegment /\ SideOf(m)' = s
    BY <1>8, <1>14, NewIds DEF StreamInv
  <2> QED
    BY <1>13, <2>1 DEF IdOf, SideOf
<1>21. CASE s = NoSegment
  <2>1. pool' = pool
    BY <1>2, <1>3, <1>5, <1>21, PoolAssumption DEF Granted
  <2>2. /\ PoolGood(pool') /\ Listed(pool') = Listed(pool)
        /\ \A x \in Segments \ Listed(pool) : SameContent(pool, pool', x)
    BY <2>1 DEF PoolInv, SameContent
  <2> QED
    BY <1>19, <1>20, <1>21, <2>2, KeepsLoc
<1>22. CASE s # NoSegment
  <2>1. /\ s \in Segments /\ s \in Listed(pool) /\ Got(pool, s, m, r[1]) /\ r[3] \in BOOLEAN
        /\ r[3] => r[1].seg[s].ready
    BY <1>3, <1>5, <1>22 DEF Granted
  <2>2. PICK o : o = r[1]
    OBVIOUS
  <2>3. /\ PoolGood(o) /\ Listed(o) = Listed(pool) \ {s} /\ o.seg[s].link = m
        /\ \A x \in Segments \ {s} : SameContent(pool, o, x)
    BY <2>1, <2>2 DEF Got
  <2>4. /\ PoolGood(pool') /\ Listed(pool') = Listed(pool) \ {s} /\ pool'.seg[s].link = m
        /\ \A x \in Segments \ {s} : SameContent(pool, pool', x)
        /\ ~load => pool'.seg[s].ready
    <3>1. CASE ~r[3] /\ ~async
      <4>1. pool' = MarkReady(o, s)
        BY <1>2, <1>5, <1>22, <2>2, <3>1
      <4>2. Touched(o, s, pool') /\ pool'.seg[s].ready
        BY <2>1, <2>3, <4>1, MarkGood
      <4> QED
        BY <2>3, <4>2 DEF Touched, SameContent
    <3>2. CASE r[3] \/ async
      <4>1. pool' = o
        BY <1>2, <2>2, <3>2
      <4>2. ~load => o.seg[s].ready
        BY <1>4, <1>5, <1>22, <2>1, <2>2, <3>2
      <4> QED
        BY <2>3, <4>1, <4>2
    <3> QED
      BY <3>1, <3>2
  <2> QED
    BY <1>18, <1>19, <1>20, <2>1, <2>4, TakesSide
<1> QED
  BY <1>21, <1>22

\* A read ahead or an open calls the encoder: no segment is lost or held twice.
LEMMA OpenCallMoves ==
    ASSUME StreamInv, PoolInv, NEW c \in Sessions, AheadBegin(c) \/ OpenRead(c)
    PROVE  PoolInv'
<1>1. CASE AheadBegin(c)
  <2>1. PICK m : m = Head(th[c].ahead)
    OBVIOUS
  <2>2. /\ th[c].pc = "ahead" /\ th[c].ahead # <<>>
        /\ loc[m] # NoLoc /\ loc[m].stored /\ loc[m].count = 0
        /\ OpenSegment(c, m, TRUE, TRUE, "aheadEnd")
    BY <1>1, <2>1 DEF AheadBegin
  <2>3. m \in Sqns
    BY <2>1, <2>2, ThreadFacts, AheadFields
  <2> QED
    BY <2>1, <2>2, <2>3, OpenSegmentMoves
<1>2. CASE OpenRead(c)
  <2>1. PICK m : m = th[c].sqn
    OBVIOUS
  <2>2. PICK async \in BOOLEAN : async <=> c \in AsyncSessions
    OBVIOUS
  <2>3. /\ th[c].pc = "ahead" /\ th[c].ahead = <<>> /\ ~th[c].handled
        /\ OpenSegment(c, m, FALSE, async, "openEnd")
    BY <1>2, <2>1, <2>2 DEF OpenRead
  <2>4. m \in Sqns /\ loc[m] # NoLoc /\ loc[m].stored /\ loc[m].count = 0
    BY <2>1, <2>3, ThreadFacts DEF ThreadGood
  <2> QED
    BY <2>1, <2>3, <2>4, OpenSegmentMoves
<1> QED
  BY <1>1, <1>2

\* A session c that holds _openLock leaves _open for location n.
LEMMA OpenLeaves ==
    ASSUME StreamInv, NEW c \in Sessions, NEW n \in Sqns, openLock = c,
           NEW l, loc' = [loc EXCEPT ![n] = l],
           NEW t, th' = [th EXCEPT ![c] = t], t.seg = NoSegment, th[c].seg = NoSegment,
           t.pc \notin {"aheadEnd", "openEnd"}, openLock' \in {openLock, NoSession},
           tasks' = tasks, openList' \in {openList, openList \cup {n}}
    PROVE  OnlyLoc(n) /\ (Complete(n)' => Complete(n))
<1>1. /\ th'[c] = t /\ \A d \in Sessions \ {c} : th'[d] = th[d]
      /\ \A m \in Sqns \ {n} : loc'[m] = loc[m]
  BY ThreadChanged, LocChanged DEF StreamInv
<1>2. \A m \in Sqns : Busy(m)' = "no"
  BY <1>1, StreamAssumption DEF Busy
<1>3. \A d \in Sessions : CallKept(d)
  BY CallsKept DEF StreamInv
<1>4. Elsewhere(n)
  BY <1>1 DEF Elsewhere
<1>5. LocsLeft(n)
  BY <1>2, <1>4, ElsewhereLeft
<1>6. Complete(n)' => Complete(n)
  BY <1>2 DEF Complete
<1> QED
  BY <1>3, <1>5, <1>6 DEF OnlyLoc

\* A location whose flags only are changed
LEMMA ClearedMoves ==
    ASSUME StreamInv, PoolInv, NEW n \in Sqns, loc[n] # NoLoc,
           OnlyLoc(n), Complete(n)' => Complete(n),
           loc' = [loc EXCEPT ![n] = Cleared(loc[n])],
           PoolGood(pool'), Listed(pool') = Listed(pool),
           \A x \in Segments \ Listed(pool) : SameContent(pool, pool', x)
    PROVE  PoolInv'
<1>1. PICK l : l = loc[n]
  OBVIOUS
<1>2. l \in LocType
  BY <1>1, LocFacts
<1>3. PICK v : v = Cleared(l)
  OBVIOUS
<1>4. v \in LocType /\ v.id = l.id /\ v.sideId = l.sideId /\ v.stored = l.stored
  BY <1>2, <1>3 DEF Cleared, LocType
<1>5. loc' = [loc EXCEPT ![n] = v]
  BY <1>1, <1>3
<1>6. IdOf(n)' = v.id /\ SideOf(n)' = v.sideId /\ loc'[n] = v
  BY <1>4, <1>5, NewIds DEF StreamInv
<1>7. IdOf(n) = l.id /\ SideOf(n) = l.sideId
  BY <1>1 DEF IdOf, SideOf
<1> QED
  BY <1>1, <1>4, <1>6, <1>7, KeepsLoc

\* The encoder refuses: no segment is lost or held twice.
LEMMA OpenFailMoves ==
    ASSUME StreamInv, PoolInv, NEW c \in Sessions, OpenFail(c)
    PROVE  PoolInv'
<1>1. PICK n : n = th[c].sqn
  OBVIOUS
<1>2. /\ th[c].pc = "ahead" /\ ~th[c].handled /\ th' = [th EXCEPT ![c] = Idle]
      /\ loc' = [loc EXCEPT ![n].prefetched = FALSE, ![n].cancel = FALSE]
      /\ openLock' = NoSession /\ UNCHANGED <<openList, tasks>>
  BY <1>1 DEF OpenFail
<1>3. openLock = c /\ n \in Sqns /\ loc[n] # NoLoc /\ th[c].seg = NoSegment
  BY <1>1, <1>2, ThreadFacts DEF ThreadGood
<1>4. PICK r \in Request("read", n) : r[2] # NoSegment /\ pool' = PurgeSegment(r[1], r[2])
  BY <1>1 DEF OpenFail
<1>5. Granted(pool, n, r)
  BY <1>3, RequestGranted DEF PoolInv
<1>6. PICK s : s = r[2]
  OBVIOUS
<1>7. PICK o : o = r[1]
  OBVIOUS
<1>8. /\ s \in Segments /\ s \in Listed(pool) /\ PoolGood(o) /\ Listed(o) = Listed(pool) \ {s}
      /\ \A x \in Segments \ {s} : SameContent(pool, o, x)
  BY <1>4, <1>5, <1>6, <1>7 DEF Granted, Got
<1>9. Given(o, s, pool')
  BY <1>4, <1>6, <1>7, <1>8, PurgeGood
<1>10. /\ PoolGood(pool') /\ Listed(pool') = Listed(pool)
       /\ \A x \in Segments \ Listed(pool) : SameContent(pool, pool', x)
  BY <1>8, <1>9 DEF Given, SameContent
<1>11. loc' = [loc EXCEPT ![n] = Cleared(loc[n])]
  BY <1>2 DEF Cleared
<1>12. OnlyLoc(n) /\ (Complete(n)' => Complete(n))
  BY <1>2, <1>3, <1>11, IdleFields, OpenLeaves
<1> QED
  BY <1>3, <1>10, <1>11, <1>12, ClearedMoves

\* The location of m after a reference was taken
LEMMA ReferencedIds ==
    ASSUME StreamInv, NEW c \in Sessions, NEW m \in Sqns, loc[m] # NoLoc, loc[m].count = 0,
           NEW l, l = Reference(loc[m], c)
    PROVE  /\ l \in LocType /\ l.count = SumOf(l.refs) /\ l.stored = loc[m].stored
           /\ l.id = loc[m].id /\ l.sideId = loc[m].sideId /\ l.cancel = loc[m].cancel
           /\ l.prefetched = loc[m].prefetched /\ l.waits = loc[m].waits
           /\ l.count = 1 /\ l.refs[c] = 1 /\ \A d \in Sessions \ {c} : l.refs[d] = 0
<1>1. loc[m] \in LocType /\ loc[m].count = SumOf(loc[m].refs)
  BY LocFacts
<1>2. \A d \in Sessions : loc[m].refs[d] = 0
  BY <1>1, OnlyReferences
<1>3. loc[m].refs[c] < MaxRefs
  BY <1>2, StreamAssumption
<1>4. /\ l \in LocType /\ l.count = loc[m].count + 1 /\ l.count = SumOf(l.refs)
      /\ l.refs[c] = loc[m].refs[c] + 1
      /\ \A d \in Sessions \ {c} : l.refs[d] = loc[m].refs[d]
      /\ l.stored = loc[m].stored /\ l.id = loc[m].id /\ l.sideId = loc[m].sideId
      /\ l.cancel = loc[m].cancel /\ l.prefetched = loc[m].prefetched /\ l.waits = loc[m].waits
  BY <1>1, <1>3, ReferenceFields
<1> QED
  BY <1>2, <1>4

\* openSegment returns for a read ahead: no segment is lost or held twice.
LEMMA AheadEndMoves ==
    ASSUME StreamInv, PoolInv, NEW c \in Sessions, AheadEnd(c)
    PROVE  PoolInv'
<1>1. PICK m : m = Head(th[c].ahead)
  OBVIOUS
<1>2. PICK l : l = Reference(loc[m], c)
  OBVIOUS
<1>3. PICK a : a = IF loc[m].id = NoSegment /\ loc[m].sideId = NoSegment
                   THEN <<>> ELSE Tail(th[c].ahead)
  OBVIOUS
<1>4. PICK t : t = Continued(th[c], a)
  OBVIOUS
<1>5. /\ th[c].pc = "aheadEnd" /\ th' = [th EXCEPT ![c] = t]
      /\ UNCHANGED <<tasks, openLock>>
  BY <1>1, <1>3, <1>4 DEF AheadEnd, Continued
<1>6. IF loc[m].id = NoSegment /\ loc[m].sideId = NoSegment
      THEN /\ loc' = [loc EXCEPT ![m] = Cleared(loc[m])]
           /\ UNCHANGED <<pool, openList>>
      ELSE IF th[c].complete
      THEN /\ loc' = [loc EXCEPT ![m] = LoadedLoc(l)] /\ pool' = LoadedPool(l)
           /\ openList' \in {openList, openList \cup {m}}
      ELSE /\ loc' = [loc EXCEPT ![m] = l]
           /\ openList' = openList \cup {m} /\ UNCHANGED pool
  BY <1>1, <1>2 DEF AheadEnd, OpenNothing, Cleared
<1>7. /\ ThreadGood(c) /\ openLock = c /\ m \in Sqns /\ loc[m] # NoLoc /\ th[c].seg = NoSegment
  BY <1>1, <1>5, ThreadFacts, AheadFields DEF ThreadGood
<1>8. t.pc = "ahead" /\ t.seg = NoSegment
  BY <1>4, <1>7, ThreadFacts DEF ThreadType, Continued
<1>9. Busy(m) = IF th[c].complete THEN "aheadDone" ELSE "ahead"
  BY <1>1, <1>5, <1>7 DEF Busy
<1>10. /\ LocGood(loc[m], m, openList, tasks, Busy(m)) /\ loc[m] \in LocType
  BY <1>7, LocFacts
<1>11. /\ loc[m].stored /\ loc[m].count = 0 /\ loc[m].id = NoSegment
       /\ loc[m].sideId # NoSegment => loc[m].cancel
  BY <1>9, <1>10 DEF LocGood
<1>12. /\ l \in LocType /\ l.count = SumOf(l.refs) /\ l.stored = loc[m].stored
       /\ l.id = loc[m].id /\ l.sideId = loc[m].sideId /\ l.cancel = loc[m].cancel
  <2>1. c \in Sessions /\ m \in Sqns /\ loc[m] # NoLoc /\ loc[m].count = 0
    BY <1>7, <1>11
  <2> QED
    BY <1>2, <2>1, ReferencedIds
<1>13. ASSUME NEW v, loc' = [loc EXCEPT ![m] = v], openList' \in {openList, openList \cup {m}}
       PROVE  OnlyLoc(m) /\ (Complete(m)' => Complete(m))
  BY <1>5, <1>7, <1>8, <1>13, OpenLeaves
<1>14. PoolGood(pool) /\ \A x \in Segments : SameContent(pool, pool, x)
  BY DEF PoolInv, SameContent
<1>15. /\ IdOf(m) = loc[m].id /\ SideOf(m) = loc[m].sideId
       /\ loc[m].sideId # NoSegment =>
            /\ loc[m].sideId \in Segments \ Listed(pool)
            /\ pool.seg[loc[m].sideId].link = m
            /\ Complete(m) => pool.seg[loc[m].sideId].ready
  BY <1>7, IdFacts
<1>16. CASE loc[m].sideId = NoSegment
  <2>1. /\ loc' = [loc EXCEPT ![m] = Cleared(loc[m])] /\ pool' = pool /\ openList' = openList
    BY <1>6, <1>11, <1>16
  <2>2. OnlyLoc(m) /\ (Complete(m)' => Complete(m))
    BY <1>13, <2>1
  <2> QED
    BY <1>7, <1>14, <2>1, <2>2, ClearedMoves
<1>17. CASE loc[m].sideId # NoSegment /\ th[c].complete
  <2>1. PICK v : v = LoadedLoc(l)
    OBVIOUS
  <2>2. /\ loc' = [loc EXCEPT ![m] = v] /\ openList' \in {openList, openList \cup {m}}
        /\ pool' = FreeSegment(pool, loc[m].sideId, l.prefetched)
    BY <1>6, <1>11, <1>12, <1>17, <2>1 DEF LoadedPool
  <2>3. v \in LocType /\ v.id = NoSegment /\ v.sideId = NoSegment
    BY <1>11, <1>12, <1>17, <2>1, LoadedFields
  <2>4. OnlyLoc(m)
    BY <1>13, <2>2
  <2>5. IdOf(m)' = NoSegment /\ SideOf(m)' = NoSegment
    BY <1>7, <2>2, <2>3, NewIds DEF StreamInv
  <2>6. PICK s : s = loc[m].sideId
    OBVIOUS
  <2>7. Complete(m)
    BY <1>9, <1>17 DEF Complete
  <2>8. Given(pool, s, pool') /\ s \in Segments
    <3>1. s \in Segments \ Listed(pool) /\ pool.seg[s].ready /\ pool.seg[s].link \in Links
      BY <1>7, <1>15, <1>17, <2>6, <2>7, StreamAssumption
    <3> QED
      BY <1>14, <2>2, <2>6, <3>1, FreeGood
  <2> QED
    BY <1>7, <1>11, <1>15, <2>4, <2>5, <2>6, <2>8, GivesSide
<1>18. CASE loc[m].sideId # NoSegment /\ ~th[c].complete
  <2>1. /\ loc' = [loc EXCEPT ![m] = l] /\ openList' = openList \cup {m} /\ pool' = pool
    BY <1>6, <1>18
  <2>2. OnlyLoc(m) /\ (Complete(m)' => Complete(m))
    BY <1>13, <2>1
  <2>3. IdOf(m)' = l.id /\ SideOf(m)' = l.sideId /\ loc'[m] = l
    BY <1>7, <1>12, <2>1, NewIds DEF StreamInv
  <2> QED
    BY <1>7, <1>12, <1>14, <1>15, <2>1, <2>2, <2>3, KeepsLoc
<1> QED
  BY <1>16, <1>17, <1>18

\* openSegment returns for an open: no segment is lost or held twice.
LEMMA OpenEndMoves ==
    ASSUME StreamInv, PoolInv, NEW c \in Sessions, OpenEnd(c)
    PROVE  PoolInv'
<1>1. PICK n : n = th[c].sqn
  OBVIOUS
<1>2. PICK l : l = Reference(loc[n], c)
  OBVIOUS
<1>3. PICK k : k = IF th[c].complete THEN LoadedLoc(l)
                   ELSE IF l.id = NoSegment
                   THEN [l EXCEPT !.waits = @ \cup {c}]
                   ELSE l
  OBVIOUS
<1>4. PICK w : w = [th[c] EXCEPT !.pc = "wait"]
  OBVIOUS
<1>5. /\ th[c].pc = "openEnd" /\ openLock' \in {openLock, NoSession}
      /\ UNCHANGED <<pool, tasks>>
      /\ IF loc[n].id = NoSegment /\ loc[n].sideId = NoSegment
         THEN /\ loc' = [loc EXCEPT ![n] = Cleared(loc[n])]
              /\ th' = [th EXCEPT ![c] = Idle] /\ openList' = openList
         ELSE /\ loc' = [loc EXCEPT ![n] = k] /\ th' = [th EXCEPT ![c] = w]
              /\ openList' = openList \cup {n}
  BY <1>1, <1>2, <1>3, <1>4 DEF OpenEnd, OpenNothing, Goto, Cleared
<1>6. /\ ThreadGood(c) /\ openLock = c /\ n \in Sqns /\ loc[n] # NoLoc /\ th[c].seg = NoSegment
  BY <1>1, <1>5, ThreadFacts DEF ThreadGood
<1>7. Busy(n) = IF th[c].complete THEN "openDone" ELSE "open"
  BY <1>1, <1>5, <1>6 DEF Busy
<1>8. LocGood(loc[n], n, openList, tasks, Busy(n)) /\ loc[n] \in LocType
  BY <1>6, LocFacts
<1>9. /\ loc[n].count = 0 /\ ~loc[n].cancel /\ loc[n].stored
      /\ loc[n].id = NoSegment \/ loc[n].sideId = NoSegment
      /\ th[c].complete => loc[n].id = NoSegment
  BY <1>6, <1>7, <1>8 DEF LocGood
<1>10. /\ l \in LocType /\ l.count = SumOf(l.refs) /\ l.stored = loc[n].stored
       /\ l.id = loc[n].id /\ l.sideId = loc[n].sideId /\ l.cancel = loc[n].cancel
  BY <1>2, <1>6, <1>9, ReferencedIds
<1>11. w.pc = "wait" /\ w.seg = NoSegment
  BY <1>4, <1>6, ThreadFacts, AtPc DEF Pcs
<1>12. PoolGood(pool) /\ \A x \in Segments : SameContent(pool, pool, x)
  BY DEF PoolInv, SameContent
<1>13. /\ IdOf(n) = loc[n].id /\ SideOf(n) = loc[n].sideId
       /\ loc[n].sideId # NoSegment =>
            /\ loc[n].sideId \in Segments \ Listed(pool)
            /\ pool.seg[loc[n].sideId].link = n
            /\ Complete(n) => pool.seg[loc[n].sideId].ready
  BY <1>6, IdFacts
<1>14. CASE loc[n].id = NoSegment /\ loc[n].sideId = NoSegment
  <2>1. loc' = [loc EXCEPT ![n] = Cleared(loc[n])] /\ th' = [th EXCEPT ![c] = Idle]
        /\ openList' = openList
    BY <1>5, <1>14
  <2>2. OnlyLoc(n) /\ (Complete(n)' => Complete(n))
    BY <1>5, <1>6, <2>1, IdleFields, OpenLeaves
  <2> QED
    BY <1>5, <1>6, <1>12, <2>1, <2>2, ClearedMoves
<1>15. CASE ~(loc[n].id = NoSegment /\ loc[n].sideId = NoSegment)
  <2>1. /\ loc' = [loc EXCEPT ![n] = k] /\ th' = [th EXCEPT ![c] = w]
        /\ openList' = openList \cup {n}
    BY <1>5, <1>15
  <2>2. OnlyLoc(n) /\ (Complete(n)' => Complete(n))
    BY <1>5, <1>6, <1>11, <2>1, OpenLeaves
  <2>3. CASE th[c].complete
    <3>1. k = LoadedLoc(l)
      BY <1>3, <2>3
    <3>2. k \in LocType /\ k.sideId = NoSegment /\ k.id = loc[n].sideId
      BY <1>9, <1>10, <3>1, LoadedFields
    <3>3. IdOf(n)' = loc[n].sideId /\ SideOf(n)' = NoSegment
      BY <1>6, <2>1, <3>2, NewIds DEF StreamInv
    <3>4. Complete(n)
      BY <1>7, <2>3 DEF Complete
    <3>5. PICK s : s = loc[n].sideId
      OBVIOUS
    <3>6. s \in Segments /\ pool.seg[s].link = n /\ pool.seg[s].ready
          /\ IdOf(n) = NoSegment /\ SideOf(n) = s
      BY <1>9, <1>13, <1>15, <2>3, <3>4, <3>5
    <3> QED
      BY <1>5, <1>6, <1>12, <2>2, <3>3, <3>5, <3>6, MapsSide
  <2>4. CASE ~th[c].complete
    <3>1. \E v \in SUBSET Sessions : k = [l EXCEPT !.waits = v]
      <4>1. l.waits \in SUBSET Sessions /\ l = [l EXCEPT !.waits = l.waits]
        BY <1>10, LocFields DEF LocType
      <4>2. l.waits \cup {c} \in SUBSET Sessions
        BY <4>1
      <4> QED
        BY <1>3, <2>4, <4>1, <4>2
    <3>2. k \in LocType /\ k.sideId = loc[n].sideId /\ k.id = loc[n].id /\ k.stored
      BY <1>9, <1>10, <3>1, WaitsFields
    <3>3. IdOf(n)' = loc[n].id /\ SideOf(n)' = loc[n].sideId /\ loc'[n] = k
      BY <1>6, <2>1, <3>2, NewIds DEF StreamInv
    <3> QED
      BY <1>5, <1>6, <1>9, <1>12, <1>13, <2>2, <3>2, <3>3, KeepsLoc
  <2> QED
    BY <2>3, <2>4
<1> QED
  BY <1>14, <1>15

-----------------------------------------------------------------------------
(* The segments and the steps of the workers.                              *)

\* What a work item that is done leaves alone
LEMMA WorkerLeaves ==
    ASSUME StreamInv, NEW n \in Sqns, NEW kind \in {"read", "write"}, TaskEnds(kind, n),
           NEW v, loc' = [loc EXCEPT ![n] = v]
    PROVE  OnlyLoc(n) /\ Busy(n)' = Busy(n) /\ (Complete(n)' => Complete(n))
<1>1. /\ tasks' \in {tasks \ {<<kind, n>>}, (tasks \ {<<kind, n>>}) \cup {<<"failed", n>>}}
      /\ UNCHANGED <<openLock, th>>
  BY DEF TaskEnds
<1>2. \A m \in Sqns \ {n} : loc'[m] = loc[m]
  BY LocChanged DEF StreamInv
<1>3. \A m \in Sqns : Busy(m)' = Busy(m)
  BY <1>1 DEF Busy
<1>4. ASSUME NEW m \in Sqns \ {n}
      PROVE  LocLeft(m)
  BY <1>1, <1>2, <1>3, LocUntouched
<1>5. LocsLeft(n)
  BY <1>4 DEF LocsLeft
<1>6. \A d \in Sessions : CallKept(d)
  BY <1>1 DEF CallKept
<1>7. Complete(n)' => Complete(n)
  BY <1>1, <1>3 DEF Complete
<1> QED
  BY <1>3, <1>5, <1>6, <1>7 DEF OnlyLoc

\* The segment of a work item
LEMMA TaskSegment ==
    ASSUME StreamInv, PoolInv, NEW n \in Sqns, NEW kind \in {"read", "write"},
           TaskDone(kind, n), NEW s, s = loc[n].sideId
    PROVE  /\ s \in Segments \ Listed(pool) /\ PoolGood(pool) /\ pool.seg[s].link \in Links
           /\ pool.seg[s].link = n /\ SideOf(n) = s /\ IdOf(n) = NoSegment
           /\ kind = "write" => pool.seg[s].ready
<1>1. loc[n] # NoLoc /\ s # NoSegment /\ loc[n].id = NoSegment
  BY TaskFacts
<1>2. kind = "write" => Complete(n)
  BY DEF TaskDone, Complete
<1>3. /\ IdOf(n) = loc[n].id /\ SideOf(n) = s /\ PoolGood(pool)
      /\ s \in Segments \ Listed(pool) /\ pool.seg[s].link = n
      /\ Complete(n) => pool.seg[s].ready
  BY <1>1, IdFacts
<1> QED
  BY <1>1, <1>2, <1>3, StreamAssumption

\* The end of a write gives the segment of the location back to the pool.
LEMMA WriteMoves ==
    ASSUME StreamInv, PoolInv, NEW n \in Sqns, TaskDone("write", n),
           NEW s, s = loc[n].sideId, Given(pool, s, pool'),
           NEW v, loc' = [loc EXCEPT ![n] = v],
           v = NoLoc \/ (v \in LocType /\ v.id = NoSegment /\ v.sideId = NoSegment)
    PROVE  PoolInv'
<1>1. PICK kind \in {"read", "write"} : kind = "write"
  OBVIOUS
<1>2. TaskDone(kind, n)
  BY <1>1
<1>3. OnlyLoc(n)
  BY <1>2, TaskEnding, WorkerLeaves
<1>4. s \in Segments /\ SideOf(n) = s /\ IdOf(n) = NoSegment
  BY <1>2, TaskSegment
<1>5. IdOf(n)' = NoSegment /\ SideOf(n)' = NoSegment
  BY NewIds DEF StreamInv
<1> QED
  BY <1>3, <1>4, <1>5, GivesSide

\* The writer stores a segment: no segment is lost or held twice.
LEMMA WriteOkMoves ==
    ASSUME StreamInv, PoolInv, NEW n \in Sqns, WriteOk(n)
    PROVE  PoolInv'
<1>1. PICK v : v = Encoded(loc[n])
  OBVIOUS
<1>2. PICK s : s = loc[n].sideId
  OBVIOUS
<1>3. /\ TaskDone("write", n) /\ loc' = [loc EXCEPT ![n] = v]
      /\ pool' = FreeSegment(pool, s, FALSE)
  BY <1>1, <1>2 DEF WriteOk, Encoded
<1>4. PICK kind \in {"read", "write"} : kind = "write"
  OBVIOUS
<1>5. TaskDone(kind, n)
  BY <1>3, <1>4
<1>6. Given(pool, s, pool')
  <2>1. /\ s \in Segments \ Listed(pool) /\ PoolGood(pool) /\ pool.seg[s].link \in Links
        /\ pool.seg[s].ready
    BY <1>2, <1>4, <1>5, TaskSegment
  <2> QED
    BY <1>3, <2>1, FreeGood
<1>7. v \in LocType /\ v.id = NoSegment /\ v.sideId = NoSegment
  <2>1. loc[n] \in LocType
    BY <1>5, TaskFacts
  <2> QED
    BY <1>1, <2>1, EncodedFields
<1> QED
  BY <1>2, <1>3, <1>6, <1>7, WriteMoves

\* The writer fails: no segment is lost or held twice.
LEMMA WriteFailMoves ==
    ASSUME StreamInv, PoolInv, NEW n \in Sqns, WriteFail(n)
    PROVE  PoolInv'
<1>1. PICK v : v = NoLoc
  OBVIOUS
<1>2. PICK s : s = loc[n].sideId
  OBVIOUS
<1>3. TaskDone("write", n) /\ loc' = [loc EXCEPT ![n] = v] /\ pool' = PurgeSegment(pool, s)
  BY <1>1, <1>2 DEF WriteFail
<1>4. PICK kind \in {"read", "write"} : kind = "write"
  OBVIOUS
<1>5. s \in Segments \ Listed(pool) /\ PoolGood(pool)
  BY <1>2, <1>3, <1>4, TaskSegment
<1>6. Given(pool, s, pool')
  BY <1>3, <1>5, PurgeGood
<1> QED
  BY <1>1, <1>2, <1>3, <1>6, WriteMoves

\* The reader loads a segment: no segment is lost or held twice.
LEMMA ReadOkMoves ==
    ASSUME StreamInv, PoolInv, NEW n \in Sqns, ReadOk(n)
    PROVE  PoolInv'
<1>1. PICK l : l = loc[n]
  OBVIOUS
<1>2. PICK v : v = LoadedLoc(l)
  OBVIOUS
<1>3. PICK s : s = l.sideId
  OBVIOUS
<1>4. PICK p : p = MarkReady(pool, s)
  OBVIOUS
<1>5. /\ TaskDone("read", n) /\ loc' = [loc EXCEPT ![n] = v]
      /\ pool' = IF l.cancel THEN FreeSegment(p, s, l.prefetched) ELSE p
  BY <1>1, <1>2, <1>3, <1>4 DEF ReadOk
<1>6. PICK kind \in {"read", "write"} : kind = "read"
  OBVIOUS
<1>7. TaskDone(kind, n)
  BY <1>5, <1>6
<1>8. OnlyLoc(n)
  BY <1>5, <1>7, TaskEnding, WorkerLeaves
<1>9. /\ s \in Segments \ Listed(pool) /\ PoolGood(pool) /\ pool.seg[s].link \in Links
      /\ pool.seg[s].link = n /\ SideOf(n) = s /\ IdOf(n) = NoSegment
  BY <1>1, <1>3, <1>7, TaskSegment
<1>10. Touched(pool, s, p) /\ p.seg[s].ready
  BY <1>4, <1>9, MarkGood
<1>11. l \in LocType /\ l.count = SumOf(l.refs)
  BY <1>1, <1>7, TaskFacts
<1>12. /\ v \in LocType /\ v.sideId = NoSegment
       /\ l.cancel => v.id = NoSegment
       /\ ~l.cancel => v.id = s
  BY <1>2, <1>3, <1>11, LoadedFields
<1>13. IdOf(n)' = v.id /\ SideOf(n)' = NoSegment
  BY <1>5, <1>12, NewIds DEF StreamInv
<1>14. /\ s \in Segments \ Listed(p) /\ PoolGood(p) /\ p.seg[s].link = n /\ Listed(p) = Listed(pool)
       /\ \A x \in Segments \ {s} : SameContent(pool, p, x)
  BY <1>9, <1>10 DEF Touched
<1>15. CASE l.cancel
  <2>1. PICK prefetch : prefetch = l.prefetched
    OBVIOUS
  <2>2. pool' = FreeSegment(p, s, prefetch)
    BY <1>5, <1>15, <2>1
  <2>3. Given(p, s, pool')
    BY <1>9, <1>10, <1>14, <2>2, FreeGood
  <2>4. Given(pool, s, pool')
    BY <1>9, <1>10, <2>3, GiveMarked
  <2>5. IdOf(n)' = NoSegment
    BY <1>12, <1>13, <1>15
  <2> QED
    BY <1>8, <1>9, <1>13, <2>4, <2>5, GivesSide
<1>16. CASE ~l.cancel
  <2>1. pool' = p /\ IdOf(n)' = s
    BY <1>5, <1>12, <1>13, <1>16
  <2>2. /\ PoolGood(pool') /\ Listed(pool') = Listed(pool)
        /\ \A x \in Segments \ {s} : SameContent(pool, pool', x)
        /\ pool'.seg[s].link = n /\ pool'.seg[s].ready
    BY <1>10, <1>14, <2>1
  <2> QED
    BY <1>8, <1>9, <1>13, <2>1, <2>2, MapsSide
<1> QED
  BY <1>15, <1>16

\* The reader fails: no segment is lost or held twice.
LEMMA ReadFailMoves ==
    ASSUME StreamInv, PoolInv, NEW n \in Sqns, ReadFail(n)
    PROVE  PoolInv'
<1>1. TaskEnds("read", n) /\ UNCHANGED <<pool, loc>>
  BY TaskEnding DEF ReadFail
<1>2. PICK kind \in {"read", "write"} : kind = "read"
  OBVIOUS
<1>3. loc' = [loc EXCEPT ![n] = loc[n]]
  BY <1>1 DEF StreamInv, BaseInv
<1>4. OnlyLoc(n) /\ (Complete(n)' => Complete(n))
  BY <1>1, <1>2, <1>3, WorkerLeaves
<1>5. IdOf(n)' = IdOf(n) /\ SideOf(n)' = SideOf(n)
  BY <1>1 DEF IdOf, SideOf
<1>6. PoolGood(pool') /\ Listed(pool') = Listed(pool)
      /\ \A x \in Segments \ Listed(pool) : SameContent(pool, pool', x)
  BY <1>1 DEF PoolInv, SameContent
<1> QED
  BY <1>1, <1>4, <1>5, <1>6, KeepsLoc

-----------------------------------------------------------------------------
(* The invariant of the segments holds.                                    *)

\* At the start every segment is in a free list, and no place holds one.
LEMMA PoolInit ==
    ASSUME Init
    PROVE  PoolInv
<1>1. /\ pool = InitPool /\ th = [c \in Sessions |-> Idle]
      /\ loc = [n \in Sqns |-> IF n \in Existing THEN StoredLoc ELSE NoLoc]
  BY DEF Init
<1>2. PoolGood(pool) /\ Listed(pool) = Segments
  <2>1. pool.free = Segments /\ pool.standby = <<>>
    BY <1>1 DEF InitPool
  <2>2. UsedFlags(pool) /\ CacheReady(pool)
    BY <2>1 DEF UsedFlags, CacheReady, Range
  <2> QED
    BY <1>1, <2>2, InitConsistent DEF PoolGood
<1>3. \A q \in Places : Holds[q] = NoSegment
  <2>1. ASSUME NEW n \in Sqns
        PROVE  IdOf(n) = NoSegment /\ SideOf(n) = NoSegment
    BY <1>1 DEF IdOf, SideOf, StoredLoc
  <2>2. \A c \in Sessions : th[c].seg = NoSegment
    BY <1>1 DEF Idle
  <2> QED
    BY <2>1, <2>2, HoldsAre, PlaceCases
<1>4. Own(Holds, Listed(pool))
  <2>1. PICK h : h = Holds
    OBVIOUS
  <2>2. h = [q \in Places |-> h[q]] /\ \A q \in Places : h[q] = NoSegment
    BY <1>3, <2>1 DEF Holds
  <2>3. Own(h, Segments)
    BY <2>2, PoolAssumption DEF Own
  <2> QED
    BY <1>2, <2>1, <2>3
<1> QED
  BY <1>2, <1>3, <1>4 DEF PoolInv, Fits

\* append() and addSegment() end: no segment is lost or held twice.
LEMMA AddSegmentMoves ==
    ASSUME StreamInv, PoolInv, NEW c \in Sessions, AppendEnd(c) \/ AddEnd(c)
    PROVE  PoolInv'
<1>1. th[c].pc \in {"append", "add"} /\ AddSegmentLocation(c)
  BY DEF AppendEnd, AddEnd
<1>2. th[c].seg # NoSegment
  BY ThreadFacts DEF AppendEnd, AddEnd, ThreadGood
<1> QED
  BY <1>1, <1>2, AddLocationMoves

\* Every step keeps PoolInv.
LEMMA PoolStep ==
    ASSUME StreamInv, PoolInv, [Next]_vars
    PROVE  PoolInv'
<1>1. ASSUME NEW c \in Sessions, Call(c)
      PROVE  PoolInv'
  <2>1. CASE AppendBegin(c)
    BY <2>1, AppendBeginMoves
  <2>2. CASE \E n \in Sqns : AddRequest(c, n)
    BY <2>2, AddRequestMoves
  <2>3. CASE \E n \in Sqns : Close(c, n)
    BY <2>3, CloseCallMoves
  <2>4. CASE \E n \in Sqns, scan \in BOOLEAN : OpenBegin(c, n, scan)
    BY <2>4, OpenBeginMoves
  <2>5. CASE CloseLoading(c)
    BY <2>5, CloseLoadingMoves
  <2>6. CASE DetachBegin(c)
    BY <2>6, QuietMoves
  <2> QED
    BY <1>1, <2>1, <2>2, <2>3, <2>4, <2>5, <2>6 DEF Call
<1>2. ASSUME NEW c \in Sessions, ThreadStep(c)
      PROVE  PoolInv'
  BY <1>2, AppendRequestMoves, AddSegmentMoves, QuietMoves,
     OpenCallMoves, AheadEndMoves, OpenFailMoves, OpenEndMoves, DetachStepMoves DEF ThreadStep
<1>3. ASSUME NEW n \in Sqns, Worker(n)
      PROVE  PoolInv'
  BY <1>3, WriteOkMoves, WriteFailMoves, ReadOkMoves, ReadFailMoves DEF Worker
<1>4. CASE UNCHANGED streamVars
  <2>1. UNCHANGED <<pool, loc, tasks, th, openLock>>
    BY <1>4 DEF streamVars
  <2>2. \A m \in Sqns : Busy(m)' \in {Busy(m), "no"}
    BY <2>1 DEF Busy
  <2>3. \A d \in Sessions : CallKept(d)
    BY <2>1 DEF CallKept
  <2> QED
    BY <2>1, <2>2, <2>3, PoolSame
<1> QED
  BY <1>1, <1>2, <1>3, <1>4 DEF Next, Spurious, vars

-----------------------------------------------------------------------------
(* What the two invariants say: the properties of the runs.                *)

StreamAndPool == StreamInv /\ PoolInv

\* The two invariants together are inductive: the steps of the stream need the
\* segment that the pool hands out to be unused, and the pool needs the places
\* of the stream to be the only ones.
LEMMA InductiveInvariant == Spec => []StreamAndPool
<1>1. Init => StreamAndPool
  BY StreamInit, PoolInit DEF StreamAndPool
<1>2. StreamAndPool /\ [Next]_vars => StreamAndPool'
  <2>1. PoolInv => PoolGood(pool)
    BY DEF PoolInv
  <2> QED
    BY <2>1, StreamStep, PoolStep DEF StreamAndPool
<1> QED
  BY <1>1, <1>2, PTL DEF Spec

\* Only sessions miss a wake-up.
LEMMA MissedType == Spec => [](missed \in SUBSET Sessions)
<1>1. Init => missed \in SUBSET Sessions
  BY DEF Init
<1>2. missed \in SUBSET Sessions /\ [Next]_vars => (missed \in SUBSET Sessions)'
  <2> SUFFICES ASSUME missed \in SUBSET Sessions, [Next]_vars
               PROVE  missed' \in SUBSET Sessions
    OBVIOUS
  <2>1. CASE UNCHANGED vars
    BY <2>1 DEF vars
  <2>2. ASSUME NEW c \in Sessions, Call(c) \/ ThreadStep(c) \/ Spurious(c)
        PROVE  missed' \in SUBSET Sessions
    <3>1. missed' = missed \/ missed' = missed \ {c}
      BY <2>2 DEF Call, ThreadStep, Spurious
    <3> QED
      BY <3>1
  <2>3. ASSUME NEW n \in Sqns, Worker(n)
        PROVE  missed' \in SUBSET Sessions
    <3>1. PICK S \in SUBSET Sessions : missed' = missed \cup S
      BY <2>3 DEF Worker, MissWakeup
    <3> QED
      BY <3>1
  <2> QED
    BY <2>1, <2>2, <2>3 DEF Next
<1> QED
  BY <1>1, <1>2, PTL DEF Spec

\* The state of the stream and of its buffer keeps its type through all
\* operations of the sessions and of the workers.
THEOREM TypeCorrect == Spec => []TypeOK
<1>1. StreamAndPool /\ missed \in SUBSET Sessions => TypeOK
  <2> SUFFICES ASSUME StreamInv, PoolInv, missed \in SUBSET Sessions
               PROVE  TypeOK
    BY DEF StreamAndPool
  <2>1. pool \in PoolType
    BY DEF PoolInv, PoolGood, Consistent
  <2>2. loc \in [Sqns -> LocType \cup {NoLoc}]
    <3>1. \A n \in Sqns : loc[n] \in LocType \cup {NoLoc}
      BY LocFacts
    <3>2. loc = [n \in Sqns |-> loc[n]]
      BY DEF StreamInv, BaseInv
    <3> QED
      BY <3>1, <3>2
  <2>3. th \in [Sessions -> ThreadType]
    <3>1. \A c \in Sessions : th[c] \in ThreadType
      BY ThreadFacts
    <3>2. th = [c \in Sessions |-> th[c]]
      BY DEF StreamInv, BaseInv
    <3> QED
      BY <3>1, <3>2
  <2> QED
    BY <2>1, <2>2, <2>3 DEF StreamInv, BaseInv, TypeOK
<1> QED
  BY <1>1, InductiveInvariant, MissedType, PTL

\* The owners of a segment are its places.
LEMMA OwnersAre ==
    ASSUME NEW s \in Segments
    PROVE  Owners(s) = {q \in Places : Holds[q] = s}
<1>1. ASSUME NEW n \in Sqns
      PROVE  /\ <<"id", n>> \in Owners(s) <=> IdOf(n) = s
             /\ <<"sideId", n>> \in Owners(s) <=> SideOf(n) = s
  <2>1. /\ <<"id", n>> \in Owners(s) <=> Allocated(n) /\ loc[n].id = s
        /\ <<"sideId", n>> \in Owners(s) <=> Allocated(n) /\ loc[n].sideId = s
    BY DEF Owners
  <2> QED
    BY <2>1, PoolAssumption DEF Allocated, IdOf, SideOf
<1>2. ASSUME NEW c \in Sessions
      PROVE  <<"call", c>> \in Owners(s) <=> th[c].seg = s
  BY DEF Owners
<1>3. ASSUME NEW q \in Places
      PROVE  q \in Owners(s) <=> Holds[q] = s
  <2>1. CASE \E n \in Sqns : q = <<"id", n>> \/ q = <<"sideId", n>>
    <3>1. PICK n \in Sqns : q = <<"id", n>> \/ q = <<"sideId", n>>
      BY <2>1
    <3>2. /\ <<"id", n>> \in Owners(s) <=> IdOf(n) = s
          /\ <<"sideId", n>> \in Owners(s) <=> SideOf(n) = s
      BY <1>1
    <3>3. Holds[<<"id", n>>] = IdOf(n) /\ Holds[<<"sideId", n>>] = SideOf(n)
      BY HoldsAre
    <3> QED
      BY <3>1, <3>2, <3>3
  <2>2. CASE \E c \in Sessions : q = <<"call", c>>
    <3>1. PICK c \in Sessions : q = <<"call", c>>
      BY <2>2
    <3>2. Holds[<<"call", c>>] = th[c].seg
      BY HoldsAre
    <3> QED
      BY <1>2, <3>1, <3>2
  <2> QED
    BY <2>1, <2>2, PlaceCases
<1>4. Owners(s) \subseteq Places
  BY DEF Owners, Places
<1> QED
  BY <1>3, <1>4

\* A segment of the buffer is in one place: in a free list, with one location, or
\* with one call that is adding it (no segment is handed out twice, and none is
\* returned to the free lists while a location or a worker uses it).
THEOREM OwnedOnce == Spec => []SegmentOwnership
<1>1. PoolInv => SegmentOwnership
  <2> SUFFICES ASSUME PoolInv, NEW s \in Segments
               PROVE  Cardinality(Owners(s)) =
                        IF s \in pool.free \/ s \in Range(pool.standby) THEN 0 ELSE 1
    BY DEF SegmentOwnership
  <2>1. Owners(s) = {q \in Places : Holds[q] = s}
    BY OwnersAre
  <2>2. CASE s \in Listed(pool)
    <3>1. Owners(s) = {}
      BY <2>1, <2>2 DEF PoolInv, Own
    <3> QED
      BY <2>2, <3>1, FS_EmptySet DEF Listed
  <2>3. CASE s \notin Listed(pool)
    <3>1. PICK q \in Places : Holds[q] = s
      BY <2>3 DEF PoolInv, Own
    <3>2. Owners(s) = {q}
      BY <2>1, <3>1, PoolAssumption DEF PoolInv, Own
    <3>3. Cardinality({q}) = 1
      BY FS_Singleton
    <3> QED
      BY <2>3, <3>2, <3>3 DEF Listed
  <2> QED
    BY <2>2, <2>3
<1> QED
  BY <1>1, InductiveInvariant, PTL DEF StreamAndPool

\* A location has one operation at a time: the reader and the writer never work
\* on the same segment (the flags of StreamSegmentLocation allow only one).  A
\* location that is processed by nobody had its read fail, and keeps its segment:
\* nothing the sessions and the workers do ends this (Simtrace3Encoder.cpp:176).
THEOREM SingleOperation == Spec => []OneOperation
<1>1. StreamInv => OneOperation
  <2> SUFFICES ASSUME StreamInv, NEW n \in Sqns, Allocated(n)
               PROVE  /\ loc[n].id = NoSegment \/ loc[n].sideId = NoSegment
                      /\ loc[n].sideId # NoSegment => InProgress(n) \/ n \in Abandoned
                      /\ <<"write", n>> \in tasks => ~loc[n].stored /\ loc[n].sideId # NoSegment
                      /\ <<"read", n>> \in tasks => loc[n].stored /\ loc[n].sideId # NoSegment
                      /\ n \in Abandoned =>
                            /\ loc[n].stored /\ loc[n].sideId # NoSegment
                            /\ {<<"read", n>>, <<"write", n>>} \cap tasks = {}
    BY DEF OneOperation
  <2>1. LocGood(loc[n], n, openList, tasks, Busy(n))
    BY LocFacts DEF Allocated
  <2>2. Busy(n) # "no" => InProgress(n)
    BY DEF Busy, InProgress
  <2>3. <<"write", n>> \in tasks \/ <<"read", n>> \in tasks => InProgress(n)
    BY DEF InProgress
  <2>4. <<"failed", n>> \in tasks <=> n \in Abandoned
    BY DEF Abandoned
  <2>5. loc[n].sideId # NoSegment => InProgress(n) \/ n \in Abandoned
    <3>1. loc[n].sideId # NoSegment =>
            \/ <<"write", n>> \in tasks \/ <<"read", n>> \in tasks \/ <<"failed", n>> \in tasks
            \/ Busy(n) \in {"openDone", "aheadDone"}
      BY <2>1 DEF LocGood
    <3> QED
      BY <2>2, <2>3, <2>4, <3>1
  <2>6. n \in Abandoned => /\ loc[n].stored /\ loc[n].sideId # NoSegment
                           /\ <<"read", n>> \notin tasks /\ <<"write", n>> \notin tasks
    BY <2>1, <2>4 DEF LocGood
  <2> QED
    BY <2>1, <2>5, <2>6 DEF LocGood
<1> QED
  BY <1>1, InductiveInvariant, PTL DEF StreamAndPool

\* The reference count of a location is the number of references of the sessions
\* (referenceCount and the counts of the sessions' open segments never part).
THEOREM CountIsSum == Spec => []ReferencesCounted
<1>1. StreamInv => ReferencesCounted
  <2> SUFFICES ASSUME StreamInv, NEW n \in Sqns
               PROVE  IF Allocated(n)
                      THEN /\ loc[n].count = SumOf(loc[n].refs)
                           /\ n \in openList <=> loc[n].count > 0
                      ELSE n \notin openList
    BY DEF ReferencesCounted, SumOf
  <2> QED
    BY LocFacts DEF Allocated, StreamInv, LocInv, LocOK, LocGood
<1> QED
  BY <1>1, InductiveInvariant, PTL DEF StreamAndPool

-----------------------------------------------------------------------------
(* The steps of the abstract stream.                                       *)

Phase == [n \in Sqns |-> PhaseOf(n)]
Mapped == {m \in Sessions \X Sqns : view[m[1]][m[2]] # NoSegment}

\* The step is one of TraceStream, or none that TraceStream sees.
Refined == [Abstract!Next]_<<Phase, Mapped>>

\* A segment is mapped for a session iff its view of the number is one.
LEMMA MappedIs ==
    ASSUME NEW c \in Sessions, NEW n \in Sqns
    PROVE  /\ <<c, n>> \in Mapped <=> view[c][n] # NoSegment
           /\ <<c, n>> \in Mapped' <=> view'[c][n] # NoSegment
  BY DEF Mapped

\* Nothing is mapped or unmapped, and no segment changes its phase.
LEMMA RefinedSame ==
    ASSUME \A m \in Sqns : PhaseOf(m)' = PhaseOf(m), view' = view
    PROVE  Refined
<1>1. Phase' = Phase
  BY DEF Phase
<1>2. Mapped' = Mapped
  BY DEF Mapped
<1> QED
  BY <1>1, <1>2 DEF Refined

\* Segment n gets a new phase.
LEMMA PhaseChanged ==
    ASSUME NEW n \in Sqns, NEW p, PhaseOf(n)' = p,
           \A m \in Sqns \ {n} : PhaseOf(m)' = PhaseOf(m)
    PROVE  Phase' = [Phase EXCEPT ![n] = p]
  BY DEF Phase

\* Handing a written segment to the writer is a step of TraceStream.
LEMMA RefinedSubmit ==
    ASSUME NEW n \in Sqns, PhaseOf(n) = "writing", PhaseOf(n)' \in {"encoding", "absent"},
           \A m \in Sqns \ {n} : PhaseOf(m)' = PhaseOf(m),
           \A d \in Sessions : view'[d][n] = NoSegment,
           \A d \in Sessions, m \in Sqns \ {n} : view'[d][m] = view[d][m]
    PROVE  Refined
<1>1. PICK p \in {"encoding", "absent"} : p = PhaseOf(n)'
  OBVIOUS
<1>2. Phase[n] = "writing" /\ Phase' = [Phase EXCEPT ![n] = p]
  BY <1>1, PhaseChanged DEF Phase
<1>3. Mapped' = Mapped \ (Sessions \X {n})
  BY DEF Mapped
<1>4. Abstract!Submit(n)
  BY <1>2, <1>3 DEF Abstract!Submit, Phase, Mapped
<1> QED
  BY <1>4 DEF Refined, Abstract!Next

\* The end of a write is a step of TraceStream.
LEMMA RefinedEncoded ==
    ASSUME NEW n \in Sqns, PhaseOf(n) = "encoding", PhaseOf(n)' \in {"stored", "absent"},
           \A m \in Sqns \ {n} : PhaseOf(m)' = PhaseOf(m), view' = view
    PROVE  Refined
<1>1. PICK p \in {"stored", "absent"} : p = PhaseOf(n)'
  OBVIOUS
<1>2. Phase[n] = "encoding" /\ Phase' = [Phase EXCEPT ![n] = p]
  BY <1>1, PhaseChanged DEF Phase
<1>3. Mapped' = Mapped
  BY DEF Mapped
<1>4. Abstract!Encoded(n)
  BY <1>2, <1>3 DEF Abstract!Encoded, Phase, Mapped
<1> QED
  BY <1>4 DEF Refined, Abstract!Next

\* Session c is given segment n.
LEMMA MappedMore ==
    ASSUME BaseInv, NEW c \in Sessions, NEW n \in Sqns, NEW s, s # NoSegment,
           view' = [view EXCEPT ![c][n] = s]
    PROVE  Mapped' = Mapped \cup {<<c, n>>}
<1>1. view'[c][n] = s
  BY DEF BaseInv
<1>2. ASSUME NEW d \in Sessions, NEW m \in Sqns, <<d, m>> # <<c, n>>
      PROVE  view'[d][m] = view[d][m]
  BY <1>2 DEF BaseInv
<1> QED
  BY <1>1, <1>2 DEF Mapped

\* A new segment is a step of TraceStream.
LEMMA RefinedCreate ==
    ASSUME BaseInv, NEW c \in Sessions, NEW n \in Sqns, NEW s, s # NoSegment,
           PhaseOf(n) = "absent", PhaseOf(n)' = "writing",
           \A m \in Sqns \ {n} : PhaseOf(m)' = PhaseOf(m),
           view' = [view EXCEPT ![c][n] = s]
    PROVE  Refined
<1>1. Phase[n] = "absent" /\ Phase' = [Phase EXCEPT ![n] = "writing"]
  BY PhaseChanged DEF Phase
<1>2. Mapped' = Mapped \cup {<<c, n>>}
  BY MappedMore
<1>3. Abstract!Create(c, n)
  BY <1>1, <1>2 DEF Abstract!Create, Phase, Mapped
<1> QED
  BY <1>3 DEF Refined, Abstract!Next

\* Mapping a stored segment is a step of TraceStream.
LEMMA RefinedMap ==
    ASSUME BaseInv, NEW c \in Sessions, NEW n \in Sqns, NEW s, s # NoSegment,
           PhaseOf(n) = "stored", \A m \in Sqns : PhaseOf(m)' = PhaseOf(m),
           view' = [view EXCEPT ![c][n] = s]
    PROVE  Refined
<1>1. Phase[n] = "stored" /\ Phase' = Phase
  BY DEF Phase
<1>2. Mapped' = Mapped \cup {<<c, n>>}
  BY MappedMore
<1>3. Abstract!Map(c, n)
  BY <1>1, <1>2 DEF Abstract!Map, Phase, Mapped
<1> QED
  BY <1>3 DEF Refined, Abstract!Next

\* Unmapping segments of a session is a step of TraceStream.
LEMMA RefinedUnmap ==
    ASSUME NEW c \in Sessions, NEW N \in SUBSET Sqns,
           \A m \in Sqns : PhaseOf(m)' = PhaseOf(m),
           \A m \in N : view'[c][m] = NoSegment,
           \A d \in Sessions, m \in Sqns : d # c \/ m \notin N => view'[d][m] = view[d][m]
    PROVE  Refined
<1>1. Phase' = Phase
  BY DEF Phase
<1>2. Mapped' = Mapped \ ({c} \X N)
  BY DEF Mapped
<1>3. Abstract!Unmap(c, N)
  BY <1>1, <1>2 DEF Abstract!Unmap, Phase, Mapped
<1> QED
  BY <1>3 DEF Refined, Abstract!Next

\* A new stream is a new TraceStream.
LEMMA RefinedInit == Init => Abstract!Init
<1> SUFFICES ASSUME Init
             PROVE  Abstract!Init
  OBVIOUS
<1>1. /\ loc = [n \in Sqns |-> IF n \in Existing THEN StoredLoc ELSE NoLoc]
      /\ view = [c \in Sessions |-> [n \in Sqns |-> NoSegment]]
  BY DEF Init
<1>2. StoredLoc # NoLoc /\ StoredLoc.stored
  <2>1. PICK n \in Sqns : TRUE
    BY StreamAssumption DEF Sqns
  <2> QED
    BY StoredLocGood, GoodIsLoc DEF StoredLoc
<1>3. \A n \in Sqns : PhaseOf(n) = IF n \in Existing THEN "stored" ELSE "absent"
  BY <1>1, <1>2 DEF PhaseOf, Allocated
<1> QED
  BY <1>1, <1>3 DEF Abstract!Init

-----------------------------------------------------------------------------
(* What the sessions have mapped.                                          *)

Leaving == {"detach", "drain", "gone"}

\* What holds if session d was given segment n and has not closed it.
ViewOK(d, n) ==
    view[d][n] # NoSegment =>
        /\ th[d].pc \notin Leaving
        /\ loc[n] # NoLoc /\ loc[n].id = view[d][n] /\ loc[n].refs[d] > 0
        /\ Joined(th[d]) /\ th[d].sqn = n => loc[n].refs[d] > 1

ViewInv == \A d \in Sessions, n \in Sqns : ViewOK(d, n)

\* The mapping of n and the references of d to it stay.
Still(n, d) ==
    loc[n] # NoLoc /\ loc[n].id # NoSegment /\ loc[n].refs[d] > 0 =>
        loc'[n] # NoLoc /\ loc'[n].id = loc[n].id /\ loc'[n].refs[d] = loc[n].refs[d]

\* The thread of d neither leaves nor gets a reference to n.
Calm(d, n) ==
    /\ th'[d].pc \in Leaving => th[d].pc \in Leaving
    /\ Joined(th'[d]) /\ th'[d].sqn = n => Joined(th[d]) /\ th[d].sqn = n

\* Everything but what c has of n stays mapped.
Apart(n, c) == \A d \in Sessions, m \in Sqns : d # c \/ m # n => Still(m, d)

SamePhases == \A m \in Sqns : PhaseOf(m)' = PhaseOf(m)

\* Segment n was written and is not any more.
Submitted(n) ==
    /\ PhaseOf(n) = "writing" /\ PhaseOf(n)' \in {"encoding", "absent"}
    /\ \A m \in Sqns \ {n} : PhaseOf(m)' = PhaseOf(m)

\* A view stays right if its location keeps its segment and its references.
LEMMA ViewKept ==
    ASSUME NEW d \in Sessions, NEW n \in Sqns, ViewOK(d, n), view'[d][n] = view[d][n],
           Still(n, d), Calm(d, n)
    PROVE  ViewOK(d, n)'
<1>1. ASSUME NEW s, view[d][n] = s, s # NoSegment
      PROVE  ViewOK(d, n)'
  <2>1. /\ th[d].pc \notin Leaving
        /\ loc[n] # NoLoc /\ loc[n].id = s /\ loc[n].refs[d] > 0
        /\ Joined(th[d]) /\ th[d].sqn = n => loc[n].refs[d] > 1
    BY <1>1 DEF ViewOK
  <2>2. loc'[n] # NoLoc /\ loc'[n].id = s /\ loc'[n].refs[d] = loc[n].refs[d]
    BY <1>1, <2>1 DEF Still
  <2>3. /\ th'[d].pc \notin Leaving
        /\ Joined(th'[d]) /\ th'[d].sqn = n => loc'[n].refs[d] > 1
    BY <2>1, <2>2 DEF Calm
  <2> QED
    BY <1>1, <2>1, <2>2, <2>3 DEF ViewOK
<1>2. view[d][n] = NoSegment => ViewOK(d, n)'
  BY DEF ViewOK
<1> QED
  BY <1>1, <1>2

\* A step of c
LEMMA ViewStep ==
    ASSUME ViewInv, NEW c \in Sessions \cup {NoSession},
           \A d \in Sessions \ {c} : th'[d] = th[d],
           \A d \in Sessions \ {c}, m \in Sqns : view'[d][m] = view[d][m] /\ Still(m, d),
           c \in Sessions => \A m \in Sqns : ViewOK(c, m)'
    PROVE  ViewInv'
<1>1. ASSUME NEW d \in Sessions \ {c}, NEW m \in Sqns
      PROVE  ViewOK(d, m)'
  <2>1. Calm(d, m)
    <3>1. th'[d] = th[d]
      OBVIOUS
    <3> QED
      BY <3>1 DEF Calm, Joined
  <2> QED
    BY <2>1, ViewKept DEF ViewInv
<1> QED
  BY <1>1 DEF ViewInv

\* A step of c that changes no mapping and no phase
LEMMA SilentStep ==
    ASSUME ViewInv, NEW c \in Sessions \cup {NoSession},
           \A d \in Sessions \ {c} : th'[d] = th[d], view' = view, SamePhases,
           \A d \in Sessions, m \in Sqns : Still(m, d),
           c \in Sessions => \A m \in Sqns : Calm(c, m) \/ view[c][m] = NoSegment
    PROVE  ViewInv' /\ Refined
<1>1. Refined
  BY RefinedSame DEF SamePhases
<1>2. ASSUME c \in Sessions, NEW m \in Sqns
      PROVE  ViewOK(c, m)'
  <2>1. CASE Calm(c, m)
    BY <1>2, <2>1, ViewKept DEF ViewInv
  <2>2. CASE view[c][m] = NoSegment
    BY <2>2 DEF ViewOK
  <2> QED
    BY <1>2, <2>1, <2>2
<1> QED
  BY <1>1, <1>2, ViewStep

\* The locations are not touched.
LEMMA SameLocs ==
    ASSUME loc' = loc
    PROVE  SamePhases /\ \A d \in Sessions, m \in Sqns : Still(m, d)
  BY DEF SamePhases, PhaseOf, Allocated, Still

\* A stored segment gets a new location, and nobody had it mapped.
LEMMA SameStored ==
    ASSUME StreamInv, NEW n \in Sqns, loc[n] # NoLoc, loc[n].stored,
           NEW v, loc' = [loc EXCEPT ![n] = v], v \in LocType, v.stored,
           loc[n].count = 0 \/ loc[n].id = NoSegment
    PROVE  SamePhases /\ \A d \in Sessions, m \in Sqns : Still(m, d)
<1>1. loc'[n] = v /\ \A m \in Sqns \ {n} : loc'[m] = loc[m]
  BY LocChanged DEF StreamInv
<1>2. v # NoLoc
  BY LocationAssumption
<1>3. SamePhases
  BY <1>1, <1>2 DEF SamePhases, PhaseOf, Allocated
<1>4. ASSUME NEW d \in Sessions, NEW m \in Sqns
      PROVE  Still(m, d)
  <2>1. CASE m # n
    BY <1>1, <2>1 DEF Still
  <2>2. CASE m = n /\ loc[n].id = NoSegment
    BY <2>2 DEF Still
  <2>3. CASE m = n /\ loc[n].count = 0
    <3>1. loc[n] \in LocType /\ loc[n].count = SumOf(loc[n].refs)
      BY LocFacts
    <3>2. loc[n].refs[d] = 0
      BY <2>3, <3>1, OnlyReferences
    <3> QED
      BY <2>3, <3>2 DEF Still
  <2> QED
    BY <2>1, <2>2, <2>3
<1> QED
  BY <1>3, <1>4

-----------------------------------------------------------------------------
(* The steps that map and unmap nothing.                                   *)

\* A thread goes on; no location is touched.
LEMMA QuietThread ==
    ASSUME StreamInv, ViewInv, NEW c \in Sessions, NEW t, th' = [th EXCEPT ![c] = t],
           UNCHANGED <<loc, view>>,
           t.pc \in Leaving => th[c].pc \in Leaving,
           Joined(t) => Joined(th[c]) /\ t.sqn = th[c].sqn
    PROVE  ViewInv' /\ Refined
<1>1. th'[c] = t /\ \A d \in Sessions \ {c} : th'[d] = th[d]
  BY ThreadChanged DEF StreamInv
<1>2. \A m \in Sqns : Calm(c, m)
  BY <1>1 DEF Calm
<1>3. SamePhases /\ \A d \in Sessions, m \in Sqns : Still(m, d)
  BY SameLocs
<1> QED
  BY <1>1, <1>2, <1>3, SilentStep

\* A thread goes on; the location of a segment that is not mapped changes.
LEMMA LoadThread ==
    ASSUME StreamInv, ViewInv, NEW c \in Sessions, NEW t, th' = [th EXCEPT ![c] = t],
           view' = view, NEW n \in Sqns, loc[n] # NoLoc, loc[n].stored, loc[n].count = 0,
           NEW v, loc' = [loc EXCEPT ![n] = v], v \in LocType, v.stored,
           t.pc \in Leaving => th[c].pc \in Leaving,
           Joined(t) => t.sqn = n \/ (Joined(th[c]) /\ t.sqn = th[c].sqn)
    PROVE  ViewInv' /\ Refined
<1>1. th'[c] = t /\ \A d \in Sessions \ {c} : th'[d] = th[d]
  BY ThreadChanged DEF StreamInv
<1>2. SamePhases /\ \A d \in Sessions, m \in Sqns : Still(m, d)
  BY SameStored
<1>3. view[c][n] = NoSegment
  <2>1. loc[n] \in LocType /\ loc[n].count = SumOf(loc[n].refs)
    BY LocFacts
  <2>2. loc[n].refs[c] = 0
    BY <2>1, OnlyReferences
  <2> QED
    BY <2>2 DEF ViewInv, ViewOK
<1>4. \A m \in Sqns : Calm(c, m) \/ view[c][m] = NoSegment
  BY <1>1, <1>3 DEF Calm
<1> QED
  BY <1>1, <1>2, <1>4, SilentStep

\* append() and addSegment() request a segment: no view changes.
LEMMA RequestViews ==
    ASSUME StreamInv, ViewInv, NEW c \in Sessions,
           AppendRequest(c) \/ \E n \in Sqns : AddRequest(c, n)
    PROVE  ViewInv' /\ Refined
<1>1. UNCHANGED <<loc, view>>
  <2>1. AppendRequest(c) => UNCHANGED <<loc, view>>
    BY DEF AppendRequest
  <2>2. ASSUME NEW n \in Sqns, AddRequest(c, n)
        PROVE  UNCHANGED <<loc, view>>
    BY <2>2 DEF AddRequest
  <2> QED
    BY <2>1, <2>2
<1>2. \E t : /\ th' = [th EXCEPT ![c] = t]
             /\ t.pc \in {"append", "add", "idle"}
  <2>1. CASE AppendRequest(c)
    <3>1. PICK r \in Request("write", lastSqn + 1) :
            IF r[2] = NoSegment THEN th' = [th EXCEPT ![c] = Idle]
            ELSE th' = [th EXCEPT ![c].seg = r[2], ![c].sqn = lastSqn + 1]
      BY <2>1 DEF AppendRequest
    <3>2. CASE r[2] = NoSegment
      BY <3>1, <3>2, IdleFields
    <3>3. CASE r[2] # NoSegment
      <4>1. PICK t : t = [th[c] EXCEPT !.seg = r[2], !.sqn = lastSqn + 1]
        OBVIOUS
      <4>2. th' = [th EXCEPT ![c] = t]
        BY <3>1, <3>3, <4>1
      <4>3. t.pc = "append"
        BY <2>1, <4>1, ThreadFacts DEF AppendRequest, ThreadType
      <4> QED
        BY <4>2, <4>3
    <3> QED
      BY <3>2, <3>3
  <2>2. CASE \E n \in Sqns : AddRequest(c, n)
    <3>1. PICK n \in Sqns : AddRequest(c, n)
      BY <2>2
    <3>2. PICK r \in Request("write", n) :
            th' = [th EXCEPT ![c] = [Idle EXCEPT !.pc = "add", !.sqn = n, !.seg = r[2]]]
      BY <3>1, Zenon DEF AddRequest
    <3>3. PICK t : t = [Idle EXCEPT !.pc = "add", !.sqn = n, !.seg = r[2]]
      OBVIOUS
    <3>4. t.pc = "add"
      BY <3>3 DEF Idle
    <3> QED
      BY <3>2, <3>3, <3>4
  <2> QED
    BY <2>1, <2>2
<1>3. PICK t : th' = [th EXCEPT ![c] = t] /\ t.pc \in {"append", "add", "idle"}
  BY <1>2
<1>4. ~Joined(t) /\ t.pc \notin Leaving
  BY <1>3 DEF Joined, Leaving
<1> QED
  BY <1>1, <1>3, <1>4, QuietThread

\* Steps of a read ahead and of a detach that change no view.
LEMMA QuietViews ==
    ASSUME StreamInv, ViewInv, NEW c \in Sessions,
           \/ AheadSkip(c) \/ AheadCrash(c) \/ AheadDone(c) \/ DetachEnd(c) \/ DetachDone(c)
    PROVE  ViewInv' /\ Refined
<1>1. th[c] \in ThreadType /\ th = [d \in Sessions |-> th[d]]
  BY ThreadFacts DEF StreamInv, BaseInv
<1>2. UNCHANGED <<loc, view>>
  BY DEF AheadSkip, AheadCrash, AheadDone, DetachEnd, DetachDone
<1>3. CASE AheadSkip(c)
  <2>1. PICK t : t = [th[c] EXCEPT !.ahead = Tail(@)]
    OBVIOUS
  <2>2. th' = [th EXCEPT ![c] = t]
    BY <1>3, <2>1 DEF AheadSkip
  <2>3. t.pc = th[c].pc /\ t.sqn = th[c].sqn /\ t.handled = th[c].handled
    BY <1>1, <2>1 DEF ThreadType
  <2> QED
    BY <1>2, <2>2, <2>3, QuietThread DEF Joined
<1>4. CASE AheadCrash(c)
  <2>1. PICK t : t = th[c]
    OBVIOUS
  <2>2. th' = [th EXCEPT ![c] = t]
    BY <1>1, <1>4, <2>1 DEF AheadCrash
  <2> QED
    BY <1>2, <2>1, <2>2, QuietThread
<1>5. ASSUME NEW pc \in {"wait", "drain", "gone"}, th' = [th EXCEPT ![c].pc = pc],
             pc = "wait" => th[c].pc = "ahead" /\ th[c].handled,
             pc # "wait" => th[c].pc \in Leaving
      PROVE  ViewInv' /\ Refined
  <2>1. PICK t : t = [th[c] EXCEPT !.pc = pc]
    OBVIOUS
  <2>2. t.sqn = th[c].sqn /\ t.pc = pc
    BY <1>1, <2>1 DEF ThreadType
  <2>3. th' = [th EXCEPT ![c] = t]
    BY <1>5, <2>1
  <2>4. /\ t.pc \in Leaving => th[c].pc \in Leaving
        /\ Joined(t) => Joined(th[c])
    BY <1>5, <2>2 DEF Leaving, Joined
  <2> QED
    BY <1>2, <2>2, <2>3, <2>4, QuietThread
<1>6. CASE AheadDone(c)
  BY <1>5, <1>6 DEF AheadDone, Goto
<1>7. CASE DetachEnd(c) \/ DetachDone(c)
  BY <1>5, <1>7 DEF DetachEnd, DetachDone, Goto, Leaving
<1> QED
  BY <1>3, <1>4, <1>6, <1>7

\* The encoder is called: the views stay right.
LEMMA OpenCallViews ==
    ASSUME StreamInv, PoolInv, ViewInv, NEW c \in Sessions, AheadBegin(c) \/ OpenRead(c)
    PROVE  ViewInv' /\ Refined
<1>1. ASSUME NEW m \in Sqns, loc[m] # NoLoc, loc[m].stored, loc[m].count = 0,
             th[c].pc = "ahead", NEW prefetch \in BOOLEAN, NEW async \in BOOLEAN,
             NEW pc \in {"aheadEnd", "openEnd"}, OpenSegment(c, m, prefetch, async, pc)
      PROVE  ViewInv' /\ Refined
  <2>1. PICK kind \in {"write", "read", "prefetch"} : kind = IF prefetch THEN "prefetch" ELSE "read"
    OBVIOUS
  <2>2. PICK r \in Request(kind, m) :
          /\ loc' = [loc EXCEPT ![m].prefetched = prefetch, ![m].cancel = prefetch,
                                ![m].sideId = r[2]]
          /\ th' = [th EXCEPT ![c].pc = pc, ![c].complete = ~(r[2] # NoSegment /\ ~r[3] /\ async)]
          /\ view' = view
    BY <1>1, <2>1 DEF OpenSegment
  <2>3. PICK load \in BOOLEAN : load <=> r[2] # NoSegment /\ ~r[3] /\ async
    OBVIOUS
  <2>4. PICK s \in Segments \cup {NoSegment} : s = r[2]
    BY RequestType DEF PoolInv
  <2>5. PICK t : t = Calling(th[c], pc, load)
    OBVIOUS
  <2>6. PICK l : l = Opening(loc[m], prefetch, s)
    OBVIOUS
  <2>7. loc' = [loc EXCEPT ![m] = l] /\ th' = [th EXCEPT ![c] = t]
    BY <2>2, <2>3, <2>4, <2>5, <2>6 DEF Opening, Calling
  <2>8. t.pc = pc /\ t.sqn = th[c].sqn /\ t.handled = th[c].handled
    <3>1. Called(th[c], pc, load, t)
      BY <2>5, ThreadFacts, CallingFields
    <3> QED
      BY <3>1 DEF Called
  <2>9. l \in LocType /\ l.stored
    <3>1. loc[m] \in LocType
      BY <1>1, LocFacts
    <3>2. Opened(loc[m], prefetch, s, l)
      BY <2>6, <3>1, OpeningFields
    <3> QED
      BY <1>1, <3>2 DEF Opened
  <2>10. t.pc \notin Leaving /\ (Joined(t) => Joined(th[c]) /\ t.sqn = th[c].sqn)
    BY <1>1, <2>8 DEF Leaving, Joined
  <2> QED
    BY <1>1, <2>2, <2>7, <2>9, <2>10, LoadThread
<1>2. CASE AheadBegin(c)
  <2>1. PICK m : m = Head(th[c].ahead)
    OBVIOUS
  <2>2. /\ th[c].pc = "ahead" /\ th[c].ahead # <<>>
        /\ loc[m] # NoLoc /\ loc[m].stored /\ loc[m].count = 0
        /\ OpenSegment(c, m, TRUE, TRUE, "aheadEnd")
    BY <1>2, <2>1 DEF AheadBegin
  <2>3. m \in Sqns
    BY <2>1, <2>2, ThreadFacts, AheadFields
  <2> QED
    BY <1>1, <2>1, <2>2, <2>3
<1>3. CASE OpenRead(c)
  <2>1. PICK m : m = th[c].sqn
    OBVIOUS
  <2>2. PICK async \in BOOLEAN : async <=> c \in AsyncSessions
    OBVIOUS
  <2>3. /\ th[c].pc = "ahead" /\ th[c].ahead = <<>> /\ ~th[c].handled
        /\ OpenSegment(c, m, FALSE, async, "openEnd")
    BY <1>3, <2>1, <2>2 DEF OpenRead
  <2>4. m \in Sqns /\ loc[m] # NoLoc /\ loc[m].stored /\ loc[m].count = 0
    BY <2>1, <2>3, ThreadFacts DEF ThreadGood
  <2> QED
    BY <1>1, <2>1, <2>3, <2>4
<1> QED
  BY <1>2, <1>3

\* The encoder refuses to open a segment: the views stay right.
LEMMA OpenFailViews ==
    ASSUME StreamInv, ViewInv, NEW c \in Sessions, OpenFail(c)
    PROVE  ViewInv' /\ Refined
<1>1. PICK n : n = th[c].sqn
  OBVIOUS
<1>2. PICK v : v = Cleared(loc[n])
  OBVIOUS
<1>3. /\ th[c].pc = "ahead" /\ ~th[c].handled /\ th' = [th EXCEPT ![c] = Idle]
      /\ loc' = [loc EXCEPT ![n] = v] /\ view' = view
  BY <1>1, <1>2 DEF OpenFail, Cleared
<1>4. n \in Sqns /\ loc[n] # NoLoc /\ loc[n].stored /\ loc[n].count = 0
  BY <1>1, <1>3, ThreadFacts DEF ThreadGood
<1>5. v \in LocType /\ v.stored
  <2>1. loc[n] \in LocType
    BY <1>4, LocFacts
  <2> QED
    BY <1>2, <1>4, <2>1 DEF Cleared, LocType
<1>6. Idle.pc \notin Leaving /\ ~Joined(Idle)
  BY IdleFields DEF Leaving, Joined
<1> QED
  BY <1>3, <1>4, <1>5, <1>6, LoadThread

\* openSegment returns for a read ahead: the views stay right.
LEMMA AheadEndViews ==
    ASSUME StreamInv, ViewInv, NEW c \in Sessions, AheadEnd(c)
    PROVE  ViewInv' /\ Refined
<1>1. PICK m : m = Head(th[c].ahead)
  OBVIOUS
<1>2. PICK l : l = Reference(loc[m], c)
  OBVIOUS
<1>3. PICK a : a = IF loc[m].id = NoSegment /\ loc[m].sideId = NoSegment
                   THEN <<>> ELSE Tail(th[c].ahead)
  OBVIOUS
<1>4. PICK t : t = Continued(th[c], a)
  OBVIOUS
<1>5. th[c].pc = "aheadEnd" /\ th' = [th EXCEPT ![c] = t] /\ view' = view
  BY <1>1, <1>3, <1>4 DEF AheadEnd, Continued
<1>6. \E v \in {Cleared(loc[m]), LoadedLoc(l), l} : loc' = [loc EXCEPT ![m] = v]
  BY <1>1, <1>2 DEF AheadEnd, OpenNothing, Cleared
<1>7. ThreadGood(c) /\ openLock = c /\ m \in Sqns /\ loc[m] # NoLoc
  BY <1>1, <1>5, ThreadFacts, AheadFields DEF ThreadGood
<1>8. Busy(m) # "no"
  BY <1>1, <1>5, <1>7 DEF Busy
<1>9. LocGood(loc[m], m, openList, tasks, Busy(m)) /\ loc[m] \in LocType
  BY <1>7, LocFacts
<1>10. loc[m].stored /\ loc[m].count = 0
  BY <1>8, <1>9 DEF LocGood
<1>11. l \in LocType /\ l.count = SumOf(l.refs) /\ l.stored
  <2>1. c \in Sessions /\ m \in Sqns /\ loc[m] # NoLoc /\ loc[m].count = 0
    BY <1>7, <1>10
  <2> QED
    BY <1>2, <1>10, <2>1, ReferencedIds
<1>12. ASSUME NEW v \in {Cleared(loc[m]), LoadedLoc(l), l}
       PROVE  v \in LocType /\ v.stored
  <2>1. CASE v = Cleared(loc[m])
    BY <1>9, <1>10, <2>1 DEF Cleared, LocType
  <2>2. CASE v = LoadedLoc(l)
    BY <1>11, <2>2, LoadedFields
  <2>3. CASE v = l
    BY <1>11, <2>3
  <2> QED
    BY <2>1, <2>2, <2>3
<1>13. PICK v \in {Cleared(loc[m]), LoadedLoc(l), l} : loc' = [loc EXCEPT ![m] = v]
  BY <1>6
<1>14. v \in LocType /\ v.stored
  BY <1>12
<1>15. t.pc = "ahead" /\ t.sqn = th[c].sqn /\ t.handled = th[c].handled
  BY <1>4, <1>7, ThreadFacts DEF ThreadType, Continued
<1>16. t.pc \notin Leaving /\ (Joined(t) => Joined(th[c]) /\ t.sqn = th[c].sqn)
  BY <1>5, <1>15 DEF Leaving, Joined
<1> QED
  BY <1>5, <1>7, <1>10, <1>13, <1>14, <1>16, LoadThread

\* openSegment returns for an open: the views stay right.
LEMMA OpenEndViews ==
    ASSUME StreamInv, ViewInv, NEW c \in Sessions, OpenEnd(c)
    PROVE  ViewInv' /\ Refined
<1>1. PICK n : n = th[c].sqn
  OBVIOUS
<1>2. PICK l : l = Reference(loc[n], c)
  OBVIOUS
<1>3. PICK w : w = [th[c] EXCEPT !.pc = "wait"]
  OBVIOUS
<1>4. PICK x : x = [l EXCEPT !.waits = @ \cup {c}]
  OBVIOUS
<1>5. /\ th[c].pc = "openEnd" /\ view' = view
      /\ \E v \in {Cleared(loc[n]), LoadedLoc(l), x, l} : loc' = [loc EXCEPT ![n] = v]
      /\ \E t \in {Idle, w} : th' = [th EXCEPT ![c] = t]
  <2>1. th[c].pc = "openEnd" /\ view' = view
    BY DEF OpenEnd
  <2>2. IF loc[n].id = NoSegment /\ loc[n].sideId = NoSegment
        THEN loc' = OpenNothing(n) /\ th' = [th EXCEPT ![c] = Idle]
        ELSE /\ loc' = [loc EXCEPT ![n] = IF th[c].complete THEN LoadedLoc(l)
                                         ELSE IF l.id = NoSegment THEN x ELSE l]
             /\ Goto(c, "wait")
    BY <1>1, <1>2, <1>4, Zenon DEF OpenEnd
  <2>3. \E v \in {Cleared(loc[n]), LoadedLoc(l), x, l} : loc' = [loc EXCEPT ![n] = v]
    <3>1. OpenNothing(n) = [loc EXCEPT ![n] = Cleared(loc[n])]
      BY DEF OpenNothing, Cleared
    <3>2. PICK y : y = IF th[c].complete THEN LoadedLoc(l) ELSE IF l.id = NoSegment THEN x ELSE l
      OBVIOUS
    <3>3. y \in {LoadedLoc(l), x, l}
      BY <3>2
    <3>4. loc' = [loc EXCEPT ![n] = Cleared(loc[n])] \/ loc' = [loc EXCEPT ![n] = y]
      BY <2>2, <3>1, <3>2, Zenon
    <3> QED
      BY <3>3, <3>4
  <2>4. \E t \in {Idle, w} : th' = [th EXCEPT ![c] = t]
    <3>1. th' = [th EXCEPT ![c] = Idle] \/ Goto(c, "wait")
      BY <2>2, Zenon
    <3> QED
      BY <1>3, <3>1 DEF Goto
  <2> QED
    BY <2>1, <2>3, <2>4
<1>6. ThreadGood(c) /\ openLock = c /\ n \in Sqns /\ loc[n] # NoLoc
  BY <1>1, <1>5, ThreadFacts DEF ThreadGood
<1>7. Busy(n) # "no"
  BY <1>1, <1>5, <1>6 DEF Busy
<1>8. LocGood(loc[n], n, openList, tasks, Busy(n)) /\ loc[n] \in LocType
  BY <1>6, LocFacts
<1>9. loc[n].stored /\ loc[n].count = 0
  BY <1>7, <1>8 DEF LocGood
<1>10. l \in LocType /\ l.count = SumOf(l.refs) /\ l.stored
  <2>1. c \in Sessions /\ n \in Sqns /\ loc[n] # NoLoc /\ loc[n].count = 0
    BY <1>6, <1>9
  <2> QED
    BY <1>2, <1>9, <2>1, ReferencedIds
<1>11. ASSUME NEW v \in {Cleared(loc[n]), LoadedLoc(l), x, l}
       PROVE  v \in LocType /\ v.stored
  <2>1. CASE v = Cleared(loc[n])
    BY <1>8, <1>9, <2>1 DEF Cleared, LocType
  <2>2. CASE v = LoadedLoc(l)
    BY <1>10, <2>2, LoadedFields
  <2>3. CASE v = x
    BY <1>4, <1>10, <2>3 DEF LocType
  <2>4. CASE v = l
    BY <1>10, <2>4
  <2> QED
    BY <2>1, <2>2, <2>3, <2>4
<1>12. PICK v \in {Cleared(loc[n]), LoadedLoc(l), x, l} : loc' = [loc EXCEPT ![n] = v]
  BY <1>5
<1>13. v \in LocType /\ v.stored
  BY <1>11
<1>14. PICK t \in {Idle, w} : th' = [th EXCEPT ![c] = t]
  BY <1>5
<1>15. t.pc \notin Leaving /\ (Joined(t) => t.sqn = n)
  <2>1. w.pc = "wait" /\ w.sqn = n
    BY <1>1, <1>3, ThreadFacts, AtPc DEF Pcs
  <2> QED
    BY <2>1, IdleFields DEF Leaving, Joined
<1> QED
  BY <1>5, <1>6, <1>9, <1>12, <1>13, <1>14, <1>15, LoadThread

\* open() begins: the views stay right.
LEMMA OpenBeginViews ==
    ASSUME StreamInv, ViewInv, NEW c \in Sessions, NEW n \in Sqns, NEW scan \in BOOLEAN,
           OpenBegin(c, n, scan)
    PROVE  ViewInv' /\ Refined
<1>1. Began(c, n)
  BY OpenBeginFacts
<1>2. /\ th'[c].pc = "ahead" /\ th'[c].sqn = n
      /\ \A d \in Sessions \ {c} : th'[d] = th[d]
      /\ loc[n] # NoLoc /\ loc[n].stored /\ view' = view
  BY <1>1 DEF Began, Opens
<1>3. LocGood(loc[n], n, openList, tasks, Busy(n)) /\ loc[n] \in LocType
      /\ loc[n].count = SumOf(loc[n].refs)
  BY <1>2, LocFacts
<1>4. loc[n].count \in Nat /\ \A d \in Sessions : loc[n].refs[d] \in Nat
  BY <1>3, LocFields
<1>5. \A m \in Sqns \ {n} : Calm(c, m)
  BY <1>2 DEF Calm, Leaving
<1>6. CASE loc[n].count = 0
  <2>1. loc' = loc
    BY <1>1, <1>6 DEF Began
  <2>2. SamePhases /\ \A d \in Sessions, m \in Sqns : Still(m, d)
    BY <2>1, SameLocs
  <2>3. loc[n].refs[c] = 0
    BY <1>3, <1>6, OnlyReferences
  <2>4. view[c][n] = NoSegment
    BY <2>3 DEF ViewInv, ViewOK
  <2> QED
    BY <1>2, <1>5, <2>2, <2>4, SilentStep
<1>7. CASE loc[n].count > 0
  <2>1. PICK l : loc' = [loc EXCEPT ![n] = l] /\ Shared(loc[n], c, l)
    BY <1>1, <1>7 DEF Began
  <2>2. /\ l \in LocType /\ l.stored /\ l.id = loc[n].id
        /\ ~loc[n].prefetched => /\ l.refs[c] = loc[n].refs[c] + 1
                                 /\ \A d \in Sessions \ {c} : l.refs[d] = loc[n].refs[d]
    BY <1>2, <2>1 DEF Shared
  <2>3. /\ loc'[n] = l /\ \A m \in Sqns \ {n} : loc'[m] = loc[m]
    BY <2>1, LocChanged DEF StreamInv
  <2>4. l # NoLoc
    BY <2>2, LocationAssumption
  <2>5. SamePhases
    BY <1>2, <2>2, <2>3, <2>4 DEF SamePhases, PhaseOf, Allocated
  <2>6. loc[n].id # NoSegment => ~loc[n].prefetched
    BY <1>3 DEF LocGood
  <2>7. ASSUME NEW d \in Sessions, NEW m \in Sqns, d # c \/ m # n
        PROVE  Still(m, d)
    <3>1. CASE m # n
      BY <2>3, <3>1 DEF Still
    <3>2. CASE m = n
      BY <2>2, <2>3, <2>4, <2>6, <2>7, <3>2 DEF Still
    <3> QED
      BY <3>1, <3>2
  <2>8. ViewOK(c, n)'
    <3>1. PICK s : s = view[c][n]
      OBVIOUS
    <3>2. ASSUME s # NoSegment
          PROVE  loc[n].id = s /\ loc[n].refs[c] > 0 /\ l.refs[c] > 1 /\ l.id = s
      <4>1. loc[n].id = s /\ loc[n].refs[c] > 0
        BY <3>1, <3>2 DEF ViewInv, ViewOK
      <4>2. loc[n].id # NoSegment
        BY <3>2, <4>1
      <4>3. l.refs[c] = loc[n].refs[c] + 1
        BY <2>2, <2>6, <4>2
      <4>4. loc[n].refs[c] \in Nat
        BY <1>4
      <4>5. l.refs[c] > 1
        BY <4>1, <4>3, <4>4
      <4> QED
        BY <2>2, <4>1, <4>5
    <3>3. view'[c][n] = s /\ th'[c].pc \notin Leaving
      BY <1>2, <3>1 DEF Leaving
    <3>4. s # NoSegment => l.refs[c] > 0
      <4>1. l.refs[c] \in Nat
        BY <2>2, LocFields
      <4>2. s # NoSegment => l.refs[c] > 1
        BY <3>2
      <4> QED
        BY <4>1, <4>2
    <3> QED
      BY <2>3, <2>4, <3>2, <3>3, <3>4 DEF ViewOK
  <2>9. \A m \in Sqns : ViewOK(c, m)'
    <3>1. ASSUME NEW m \in Sqns \ {n}
          PROVE  ViewOK(c, m)'
      BY <1>2, <1>5, <2>7, ViewKept DEF ViewInv
    <3> QED
      BY <2>8, <3>1
  <2>10. ViewInv'
    BY <1>2, <2>7, <2>9, ViewStep
  <2> QED
    BY <1>2, <2>5, <2>10, RefinedSame DEF SamePhases
<1> QED
  BY <1>4, <1>6, <1>7

\* open returns: the segment is mapped, or the caller learns that it is not.
LEMMA OpenReturnViews ==
    ASSUME StreamInv, ViewInv, NEW c \in Sessions, OpenReturn(c)
    PROVE  ViewInv' /\ Refined
<1>1. PICK n : n = th[c].sqn
  OBVIOUS
<1>2. PICK s : s = loc[n].id
  OBVIOUS
<1>3. /\ th[c].pc = "wait" /\ view' = [view EXCEPT ![c][n] = s]
      /\ th' = [th EXCEPT ![c] = Idle] /\ loc' = loc
  BY <1>1, <1>2 DEF OpenReturn
<1>4. ThreadGood(c) /\ n \in Sqns /\ loc[n] # NoLoc /\ loc[n].stored /\ loc[n].refs[c] > 0
  BY <1>1, <1>3, ThreadFacts DEF ThreadGood, Joined
<1>5. th'[c] = Idle /\ \A d \in Sessions \ {c} : th'[d] = th[d]
  BY <1>3, ThreadChanged DEF StreamInv
<1>6. SamePhases /\ \A d \in Sessions, m \in Sqns : Still(m, d)
  BY <1>3, SameLocs
<1>7. /\ view'[c][n] = s /\ \A m \in Sqns \ {n} : view'[c][m] = view[c][m]
      /\ \A d \in Sessions \ {c}, m \in Sqns : view'[d][m] = view[d][m]
  BY <1>3, <1>4 DEF StreamInv, BaseInv
<1>8. Idle.pc \notin Leaving /\ ~Joined(Idle)
  BY IdleFields DEF Leaving, Joined
<1>9. ViewOK(c, n)'
  BY <1>2, <1>3, <1>4, <1>5, <1>7, <1>8 DEF ViewOK
<1>10. ASSUME NEW m \in Sqns \ {n}
       PROVE  ViewOK(c, m)'
  <2>1. Calm(c, m)
    BY <1>5, <1>8 DEF Calm
  <2> QED
    BY <1>6, <1>7, <2>1, ViewKept DEF ViewInv
<1>11. ViewInv'
  BY <1>5, <1>6, <1>7, <1>9, <1>10, ViewStep
<1>12. CASE s # NoSegment
  <2>1. PhaseOf(n) = "stored"
    BY <1>4 DEF PhaseOf, Allocated
  <2> QED
    BY <1>3, <1>4, <1>6, <1>11, <1>12, <2>1, RefinedMap DEF SamePhases, StreamInv
<1>13. CASE s = NoSegment
  <2>1. view[c][n] = NoSegment
    BY <1>2, <1>4, <1>13 DEF ViewInv, ViewOK
  <2>2. view' = view
    BY <1>3, <1>4, <1>13, <2>1 DEF StreamInv, BaseInv
  <2> QED
    BY <1>6, <1>11, <2>2, RefinedSame DEF SamePhases
<1> QED
  BY <1>12, <1>13

\* A session that detaches loses its views: they are unmapped in TraceStream.
LEMMA DetachBeginViews ==
    ASSUME StreamInv, ViewInv, NEW c \in Sessions, DetachBegin(c)
    PROVE  ViewInv' /\ Refined
<1>1. /\ view' = [view EXCEPT ![c] = [n \in Sqns |-> NoSegment]] /\ loc' = loc
      /\ \E t : th' = [th EXCEPT ![c] = t]
  BY DEF DetachBegin
<1>2. \A d \in Sessions \ {c} : th'[d] = th[d]
  BY <1>1, ThreadChanged DEF StreamInv
<1>3. SamePhases /\ \A d \in Sessions, m \in Sqns : Still(m, d)
  BY <1>1, SameLocs
<1>4. /\ \A m \in Sqns : view'[c][m] = NoSegment
      /\ \A d \in Sessions \ {c}, m \in Sqns : view'[d][m] = view[d][m]
  BY <1>1 DEF StreamInv, BaseInv
<1>5. ViewInv'
  <2>1. \A m \in Sqns : ViewOK(c, m)'
    BY <1>4 DEF ViewOK
  <2> QED
    BY <1>2, <1>3, <1>4, <2>1, ViewStep
<1>6. Refined
  <2>1. PICK N \in SUBSET Sqns : N = Sqns
    OBVIOUS
  <2>2. \A m \in N : view'[c][m] = NoSegment
    BY <1>4, <2>1
  <2>3. \A d \in Sessions, m \in Sqns : d # c \/ m \notin N => view'[d][m] = view[d][m]
    BY <1>4, <2>1
  <2> QED
    BY <1>3, <2>2, <2>3, RefinedUnmap DEF SamePhases
<1> QED
  BY <1>5, <1>6

-----------------------------------------------------------------------------
(* The steps that create, close and finish a segment.                      *)

\* _addSegmentLocation: the segment is mapped for writing.
LEMMA AddLocationViews ==
    ASSUME StreamInv, ViewInv, NEW c \in Sessions, th[c].pc \in {"append", "add"},
           th[c].seg # NoSegment, AddSegmentLocation(c)
    PROVE  ViewInv' /\ Refined
<1>1. PICK n : n = th[c].sqn
  OBVIOUS
<1>2. PICK s : s = th[c].seg
  OBVIOUS
<1>3. PICK l : l = NewLoc(c, s)
  OBVIOUS
<1>4. /\ loc' = [loc EXCEPT ![n] = l] /\ view' = [view EXCEPT ![c][n] = s]
      /\ th' = [th EXCEPT ![c] = Idle]
  BY <1>1, <1>2, <1>3 DEF AddSegmentLocation
<1>5. n \in Sqns /\ s \in Segments /\ s # NoSegment /\ loc[n] = NoLoc
  BY <1>1, <1>2, ThreadFacts, PoolAssumption DEF ThreadGood
<1>6. ~l.stored /\ l.id = s /\ l.refs[c] = 1 /\ l # NoLoc
  <2>1. LocGood(l, n, {n}, {}, "no") /\ ~l.stored /\ l.id = s /\ l.refs[c] = 1
    <3>1. PICK ol : ol = {n}
      OBVIOUS
    <3>2. PICK ts : ts = {}
      OBVIOUS
    <3>3. n \in ol /\ <<"write", n>> \notin ts /\ <<"read", n>> \notin ts /\ <<"failed", n>> \notin ts
      BY <3>1, <3>2
    <3>4. s \in Segments /\ n \in Sqns
      BY <1>5
    <3>5. LocGood(l, n, ol, ts, "no") /\ ~l.stored /\ l.id = s /\ l.refs[c] = 1
      BY <1>3, <3>3, <3>4, NewLocGood
    <3> QED
      BY <3>1, <3>2, <3>5
  <2> QED
    BY <2>1, GoodIsLoc
<1>7. loc'[n] = l /\ \A m \in Sqns \ {n} : loc'[m] = loc[m]
  BY <1>4, <1>5, LocChanged DEF StreamInv
<1>8. th'[c] = Idle /\ \A d \in Sessions \ {c} : th'[d] = th[d]
  BY <1>4, ThreadChanged DEF StreamInv
<1>9. /\ view'[c][n] = s /\ \A m \in Sqns \ {n} : view'[c][m] = view[c][m]
      /\ \A d \in Sessions \ {c}, m \in Sqns : view'[d][m] = view[d][m]
  BY <1>4, <1>5 DEF StreamInv, BaseInv
<1>10. \A d \in Sessions, m \in Sqns : Still(m, d)
  BY <1>5, <1>7 DEF Still
<1>11. Idle.pc \notin Leaving /\ ~Joined(Idle)
  BY IdleFields DEF Leaving, Joined
<1>12. ViewOK(c, n)'
  BY <1>6, <1>7, <1>8, <1>9, <1>11 DEF ViewOK
<1>13. ASSUME NEW m \in Sqns \ {n}
       PROVE  ViewOK(c, m)'
  <2>1. Calm(c, m)
    BY <1>8, <1>11 DEF Calm
  <2> QED
    BY <1>9, <1>10, <2>1, ViewKept DEF ViewInv
<1>14. ViewInv'
  BY <1>8, <1>9, <1>10, <1>12, <1>13, ViewStep
<1>15. PhaseOf(n) = "absent" /\ PhaseOf(n)' = "writing"
  BY <1>5, <1>6, <1>7 DEF PhaseOf, Allocated
<1>16. \A m \in Sqns \ {n} : PhaseOf(m)' = PhaseOf(m)
  BY <1>7 DEF PhaseOf, Allocated
<1> QED
  BY <1>4, <1>5, <1>14, <1>15, <1>16, RefinedCreate DEF StreamInv

\* append() and addSegment() map the new segment: it is created in TraceStream.
LEMMA AddViews ==
    ASSUME StreamInv, ViewInv, NEW c \in Sessions, AppendEnd(c) \/ AddEnd(c)
    PROVE  ViewInv' /\ Refined
<1>1. th[c].pc \in {"append", "add"} /\ AddSegmentLocation(c)
  BY DEF AppendEnd, AddEnd
<1>2. th[c].seg # NoSegment
  BY ThreadFacts DEF AppendEnd, AddEnd, ThreadGood
<1> QED
  BY <1>1, <1>2, AddLocationViews

\* The last reference to segment n is closed: what the others have stays.
CloseEffect(n, c) == Apart(n, c) /\ (SamePhases \/ Submitted(n))

\* What the close of a location that no other session references does to it.
LEMMA CloseEffects ==
    ASSUME StreamInv, NEW c \in Sessions, NEW n \in Sqns, loc[n] # NoLoc,
           \A d \in Sessions \ {c} : loc[n].refs[d] = 0,
           NEW waiter \in SUBSET Sessions, CloseLocation(n, waiter)
    PROVE  CloseEffect(n, c)
<1>1. loc[n] \in LocType
  BY LocFacts
<1>2. \E v : loc' = [loc EXCEPT ![n] = v]
  BY DEF CloseLocation, CloseInProgress, CloseRead, CloseWrite, CloseDrop
<1>3. \A m \in Sqns \ {n} : loc'[m] = loc[m]
  BY <1>2, LocChanged DEF StreamInv
<1>4. Apart(n, c)
  <2>1. ASSUME NEW d \in Sessions, NEW m \in Sqns, d # c \/ m # n
        PROVE  Still(m, d)
    <3>1. CASE m # n
      BY <1>3, <3>1 DEF Still
    <3>2. CASE m = n
      <4>1. loc[n].refs[d] = 0
        BY <2>1, <3>2
      <4> QED
        BY <3>2, <4>1 DEF Still
    <3> QED
      BY <3>1, <3>2
  <2> QED
    BY <2>1 DEF Apart
<1>5. \A m \in Sqns \ {n} : PhaseOf(m)' = PhaseOf(m)
  BY <1>3 DEF PhaseOf, Allocated
<1>6. ASSUME NEW v \in LocType, loc' = [loc EXCEPT ![n] = v], v.stored = loc[n].stored,
             v.stored \/ v.id = loc[n].id
      PROVE  SamePhases
  <2>1. loc'[n] = v /\ v # NoLoc
    BY <1>6, LocChanged, LocationAssumption DEF StreamInv
  <2>2. PhaseOf(n)' = PhaseOf(n)
    BY <1>6, <2>1 DEF PhaseOf, Allocated
  <2> QED
    BY <1>5, <2>2 DEF SamePhases
<1>7. CASE CloseInProgress(n, waiter)
  <2>1. PICK w : w = loc[n].waits \cup waiter
    OBVIOUS
  <2>2. PICK v : v = Canceled(loc[n], w)
    OBVIOUS
  <2>3. w \in SUBSET Sessions
    BY <1>1, <2>1, LocFields
  <2>4. v \in LocType /\ v.stored = loc[n].stored /\ v.id = loc[n].id
    BY <1>1, <2>2, <2>3, CanceledFields
  <2>5. loc' = [loc EXCEPT ![n] = v]
    BY <1>7, <2>1, <2>2 DEF CloseInProgress, Canceled
  <2> QED
    BY <1>4, <1>6, <2>4, <2>5 DEF CloseEffect
<1>8. CASE CloseRead(n)
  <2>1. PICK v : v = Unreferenced(loc[n])
    OBVIOUS
  <2>2. loc[n].stored /\ loc' = [loc EXCEPT ![n] = v]
    BY <1>8, <2>1 DEF CloseRead
  <2>3. v \in LocType /\ v.stored = loc[n].stored
    BY <1>1, <2>1, UnreferencedFields
  <2> QED
    BY <1>4, <1>6, <2>2, <2>3 DEF CloseEffect
<1>9. CASE CloseWrite(n, waiter)
  <2>1. PICK w : w = loc[n].waits \cup waiter
    OBVIOUS
  <2>2. PICK v : v = Written(loc[n], w)
    OBVIOUS
  <2>3. w \in SUBSET Sessions
    BY <1>1, <2>1, LocFields
  <2>4. v \in LocType /\ v.stored = loc[n].stored /\ v.id = NoSegment
    BY <1>1, <2>2, <2>3, WrittenFields
  <2>5. loc' = [loc EXCEPT ![n] = v] /\ loc[n].id # NoSegment /\ ~loc[n].stored
    BY <1>9, <2>1, <2>2 DEF CloseWrite, Written
  <2>6. loc'[n] = v /\ v # NoLoc
    BY <2>4, <2>5, LocChanged, LocationAssumption DEF StreamInv
  <2>7. PhaseOf(n) = "writing" /\ PhaseOf(n)' = "encoding"
    BY <2>4, <2>5, <2>6 DEF PhaseOf, Allocated
  <2> QED
    BY <1>4, <1>5, <2>7 DEF CloseEffect, Submitted
<1>10. CASE CloseDrop(n)
  <2>1. loc[n].id # NoSegment /\ ~loc[n].stored /\ loc' = [loc EXCEPT ![n] = NoLoc]
    BY <1>10 DEF CloseDrop
  <2>2. loc'[n] = NoLoc
    BY <2>1, LocChanged DEF StreamInv
  <2>3. PhaseOf(n) = "writing" /\ PhaseOf(n)' = "absent"
    BY <2>1, <2>2 DEF PhaseOf, Allocated
  <2> QED
    BY <1>4, <1>5, <2>3 DEF CloseEffect, Submitted
<1> QED
  BY <1>7, <1>8, <1>9, <1>10 DEF CloseLocation

\* Some references of c to segment n are closed: what the others have stays.
LEMMA ReleaseEffects ==
    ASSUME StreamInv, NEW c \in Sessions, NEW n \in Sqns, loc[n] # NoLoc,
           NEW k \in 1..loc[n].refs[c],
           loc' = [loc EXCEPT ![n] = Released(loc[n], c, k)]
    PROVE  /\ Apart(n, c) /\ SamePhases
           /\ loc'[n] # NoLoc /\ loc'[n].id = loc[n].id
           /\ loc'[n].refs[c] = loc[n].refs[c] - k
<1>1. PICK v : v = Released(loc[n], c, k)
  OBVIOUS
<1>2. loc[n] \in LocType /\ loc[n].count = SumOf(loc[n].refs)
  BY LocFacts
<1>3. /\ v \in LocType /\ v.refs[c] = loc[n].refs[c] - k
      /\ \A d \in Sessions \ {c} : v.refs[d] = loc[n].refs[d]
      /\ v.stored = loc[n].stored /\ v.id = loc[n].id
  BY <1>1, <1>2, ReleasedFields
<1>4. loc'[n] = v /\ (\A m \in Sqns \ {n} : loc'[m] = loc[m]) /\ v # NoLoc
  BY <1>1, <1>3, LocChanged, LocationAssumption DEF StreamInv
<1>5. SamePhases
  BY <1>3, <1>4 DEF SamePhases, PhaseOf, Allocated
<1>6. Apart(n, c)
  BY <1>3, <1>4 DEF Apart, Still
<1> QED
  BY <1>3, <1>4, <1>5, <1>6

\* A thread that is in no call of open and does not begin to detach
Free(t, c) == ~Joined(t) /\ (t.pc \in Leaving => th[c].pc \in Leaving)

\* Only session c has referenced segment n, and it loses it.
LEMMA CloseViews ==
    ASSUME StreamInv, ViewInv, NEW c \in Sessions, NEW n \in Sqns, loc[n] # NoLoc,
           \A d \in Sessions \ {c} : loc[n].refs[d] = 0, CloseEffect(n, c),
           NEW t, th' = [th EXCEPT ![c] = t], Free(t, c),
           view' = [view EXCEPT ![c][n] = NoSegment]
    PROVE  ViewInv' /\ Refined
<1>1. th'[c] = t /\ \A d \in Sessions \ {c} : th'[d] = th[d]
  BY ThreadChanged DEF StreamInv
<1>2. /\ view'[c][n] = NoSegment /\ \A m \in Sqns \ {n} : view'[c][m] = view[c][m]
      /\ \A d \in Sessions \ {c}, m \in Sqns : view'[d][m] = view[d][m]
  BY DEF StreamInv, BaseInv
<1>3. ASSUME NEW d \in Sessions \ {c}
      PROVE  view[d][n] = NoSegment
  <2>1. loc[n].refs[d] = 0
    OBVIOUS
  <2> QED
    BY <2>1 DEF ViewInv, ViewOK
<1>4. Apart(n, c)
  BY DEF CloseEffect
<1>5. ViewOK(c, n)'
  BY <1>2 DEF ViewOK
<1>6. ASSUME NEW m \in Sqns \ {n}
      PROVE  ViewOK(c, m)'
  <2>1. Calm(c, m)
    BY <1>1 DEF Calm, Free
  <2>2. Still(m, c)
    BY <1>4 DEF Apart
  <2> QED
    BY <1>2, <2>1, <2>2, ViewKept DEF ViewInv
<1>7. ViewInv'
  <2>1. \A d \in Sessions \ {c}, m \in Sqns : view'[d][m] = view[d][m] /\ Still(m, d)
    BY <1>2, <1>4 DEF Apart
  <2> QED
    BY <1>1, <1>5, <1>6, <2>1, ViewStep
<1>8. CASE SamePhases
  <2>1. PICK N \in SUBSET Sqns : N = {n}
    OBVIOUS
  <2>2. \A m \in N : view'[c][m] = NoSegment
    BY <1>2, <2>1
  <2>3. \A d \in Sessions, m \in Sqns : d # c \/ m \notin N => view'[d][m] = view[d][m]
    BY <1>2, <2>1
  <2> QED
    BY <1>7, <1>8, <2>2, <2>3, RefinedUnmap DEF SamePhases
<1>9. CASE Submitted(n)
  <2>1. \A d \in Sessions : view'[d][n] = NoSegment
    BY <1>2, <1>3
  <2>2. \A d \in Sessions, m \in Sqns \ {n} : view'[d][m] = view[d][m]
    BY <1>2
  <2> QED
    BY <1>7, <1>9, <2>1, <2>2, RefinedSubmit DEF Submitted
<1> QED
  BY <1>8, <1>9 DEF CloseEffect

\* Session c drops k references to segment n, and its mapping unless more
\* are left.
LEMMA ReleaseViews ==
    ASSUME StreamInv, ViewInv, NEW c \in Sessions, NEW n \in Sqns, loc[n] # NoLoc,
           NEW k \in 1..loc[n].refs[c],
           loc' = [loc EXCEPT ![n] = Released(loc[n], c, k)],
           NEW t, th' = [th EXCEPT ![c] = t], Free(t, c),
           NEW s, view' = [view EXCEPT ![c][n] = s],
           s # NoSegment => s = view[c][n] /\ loc[n].refs[c] > k
    PROVE  ViewInv' /\ Refined
<1>1. th'[c] = t /\ \A d \in Sessions \ {c} : th'[d] = th[d]
  BY ThreadChanged DEF StreamInv
<1>2. /\ view'[c][n] = s /\ \A m \in Sqns \ {n} : view'[c][m] = view[c][m]
      /\ \A d \in Sessions \ {c}, m \in Sqns : view'[d][m] = view[d][m]
  BY DEF StreamInv, BaseInv
<1>3. /\ Apart(n, c) /\ SamePhases
      /\ loc'[n] # NoLoc /\ loc'[n].id = loc[n].id
      /\ loc'[n].refs[c] = loc[n].refs[c] - k
  BY ReleaseEffects
<1>4. loc[n].refs[c] \in Nat
  <2>1. loc[n] \in LocType
    BY LocFacts
  <2> QED
    BY <2>1, LocFields
<1>5. ViewOK(c, n)'
  <2>1. SUFFICES ASSUME s # NoSegment
                 PROVE  ViewOK(c, n)'
    BY <1>2 DEF ViewOK
  <2>2. s = view[c][n] /\ th[c].pc \notin Leaving /\ loc[n].id = s
    BY <2>1 DEF ViewInv, ViewOK
  <2>3. loc'[n].refs[c] > 0
    BY <1>3, <1>4, <2>1
  <2>4. th'[c].pc \notin Leaving /\ ~Joined(th'[c])
    BY <1>1, <2>2 DEF Free
  <2> QED
    BY <1>2, <1>3, <2>2, <2>3, <2>4 DEF ViewOK
<1>6. ASSUME NEW m \in Sqns \ {n}
      PROVE  ViewOK(c, m)'
  <2>1. Calm(c, m)
    BY <1>1 DEF Calm, Free
  <2>2. Still(m, c)
    BY <1>3 DEF Apart
  <2> QED
    BY <1>2, <2>1, <2>2, ViewKept DEF ViewInv
<1>7. ViewInv'
  <2>1. \A d \in Sessions \ {c}, m \in Sqns : view'[d][m] = view[d][m] /\ Still(m, d)
    BY <1>2, <1>3 DEF Apart
  <2> QED
    BY <1>1, <1>5, <1>6, <2>1, ViewStep
<1>8. CASE s = NoSegment
  <2>1. PICK N \in SUBSET Sqns : N = {n}
    OBVIOUS
  <2>2. \A m \in N : view'[c][m] = NoSegment
    BY <1>2, <1>8, <2>1
  <2>3. \A d \in Sessions, m \in Sqns : d # c \/ m \notin N => view'[d][m] = view[d][m]
    BY <1>2, <2>1
  <2> QED
    BY <1>3, <1>7, <2>2, <2>3, RefinedUnmap DEF SamePhases
<1>9. CASE s # NoSegment
  <2>1. view' = view
    BY <1>9 DEF StreamInv, BaseInv
  <2> QED
    BY <1>3, <1>7, <2>1, RefinedSame DEF SamePhases
<1> QED
  BY <1>8, <1>9

\* append() unmaps and submits the segment before: with one session that appends,
\* nobody else had it mapped.
LEMMA AppendBeginViews ==
    ASSUME StreamInv, ViewInv, ~SharedAppend, NEW c \in Sessions, AppendBegin(c)
    PROVE  ViewInv' /\ Refined
<1>1. PICK t : t = [th[c] EXCEPT !.pc = "append"]
  OBVIOUS
<1>2. th[c].pc = "idle" /\ th' = [th EXCEPT ![c] = t]
  BY <1>1 DEF AppendBegin
<1>3. t.pc = "append"
  BY <1>1, ThreadFacts DEF ThreadType
<1>4. Free(t, c)
  BY <1>3 DEF Free, Joined, Leaving
<1>5. CASE lastAppend = NoSqn
  <2>1. UNCHANGED <<loc, view>>
    BY <1>5 DEF AppendBegin
  <2> QED
    BY <1>2, <1>4, <2>1, QuietThread DEF Free
<1>6. CASE lastAppend # NoSqn
  <2>1. PICK n : n = lastAppend
    OBVIOUS
  <2>2. PICK w : w = {}
    OBVIOUS
  <2>3. /\ CloseLocation(n, w) /\ view' = [view EXCEPT ![c][n] = NoSegment]
        /\ view[c][n] # NoSegment
    BY <1>6, <2>1, <2>2, Zenon DEF AppendBegin
  <2>4. n \in Sqns /\ loc[n] # NoLoc /\ ~loc[n].stored /\ w \in SUBSET Sessions
    BY <1>6, <2>1, <2>2 DEF StreamInv, BaseInv, AppendInv
  <2>5. /\ loc[n] \in LocType /\ loc[n].count = SumOf(loc[n].refs)
        /\ loc[n].count = 1
    BY <2>4, LocFacts DEF LocGood
  <2>6. loc[n].refs[c] > 0
    BY <2>3, <2>4 DEF ViewInv, ViewOK
  <2>7. \A d \in Sessions \ {c} : loc[n].refs[d] = 0
    BY <2>5, <2>6, OnlyReferences
  <2>8. CloseEffect(n, c)
    BY <2>3, <2>4, <2>7, CloseEffects
  <2> QED
    BY <1>2, <1>4, <2>3, <2>4, <2>7, <2>8, CloseViews
<1> QED
  BY <1>5, <1>6

\* close(session, sqn): the segment is closed, or one reference is dropped.
LEMMA CloseSqnFacts ==
    ASSUME StreamInv, NEW c \in Sessions, NEW n \in Sqns, CloseSqn(c, n)
    PROVE  /\ loc[n] # NoLoc /\ loc[n].refs[c] \in Nat /\ loc[n].refs[c] > 0
           /\ 1 \in 1..loc[n].refs[c]
           /\ \/ /\ CloseEffect(n, c) /\ loc[n].refs[c] = 1
                 /\ \A d \in Sessions \ {c} : loc[n].refs[d] = 0
              \/ loc' = [loc EXCEPT ![n] = Released(loc[n], c, 1)]
<1>1. loc[n] # NoLoc /\ loc[n].refs[c] > 0
  BY DEF CloseSqn
<1>2. loc[n] \in LocType /\ loc[n].count = SumOf(loc[n].refs)
  BY <1>1, LocFacts
<1>3. loc[n].refs[c] \in Nat /\ 1 \in 1..loc[n].refs[c]
  <2>1. loc[n].refs[c] \in Nat
    BY <1>2, LocFields
  <2> QED
    BY <1>1, <2>1
<1>4. CASE loc[n].count = 1
  <2>1. PICK w : w = {}
    OBVIOUS
  <2>2. w \in SUBSET Sessions /\ CloseLocation(n, w)
    BY <1>4, <2>1 DEF CloseSqn
  <2>3. (\A d \in Sessions \ {c} : loc[n].refs[d] = 0) /\ loc[n].count = loc[n].refs[c]
    BY <1>1, <1>2, <1>4, OnlyReferences
  <2>4. CloseEffect(n, c)
    BY <1>1, <2>2, <2>3, CloseEffects
  <2> QED
    BY <1>1, <1>3, <1>4, <2>3, <2>4
<1>5. CASE loc[n].count # 1
  <2>1. loc' = [loc EXCEPT ![n].count = @ - 1, ![n].refs[c] = @ - 1]
    BY <1>5 DEF CloseSqn
  <2>2. loc' = [loc EXCEPT ![n] = Released(loc[n], c, 1)]
    BY <2>1 DEF Released
  <2> QED
    BY <1>1, <1>3, <2>2
<1> QED
  BY <1>4, <1>5

\* close() unmaps the segment for the session alone.
LEMMA CloseCallViews ==
    ASSUME StreamInv, ViewInv, NEW c \in Sessions, NEW n \in Sqns, Close(c, n)
    PROVE  ViewInv' /\ Refined
<1>1. PICK t : t = th[c]
  OBVIOUS
<1>2. PICK s : s = IF loc[n].refs[c] > 1 THEN view[c][n] ELSE NoSegment
  OBVIOUS
<1>3. /\ th[c].pc = "idle" /\ CloseSqn(c, n) /\ th' = th
      /\ view' = [view EXCEPT ![c][n] = s]
  BY <1>2 DEF Close
<1>4. th' = [th EXCEPT ![c] = t]
  BY <1>1, <1>3 DEF StreamInv, BaseInv
<1>5. Free(t, c)
  BY <1>1, <1>3 DEF Free, Joined, Leaving
<1>6. /\ loc[n] # NoLoc /\ loc[n].refs[c] \in Nat /\ loc[n].refs[c] > 0
      /\ 1 \in 1..loc[n].refs[c]
      /\ \/ /\ CloseEffect(n, c) /\ loc[n].refs[c] = 1
            /\ \A d \in Sessions \ {c} : loc[n].refs[d] = 0
         \/ loc' = [loc EXCEPT ![n] = Released(loc[n], c, 1)]
  BY <1>3, CloseSqnFacts
<1>7. CASE /\ CloseEffect(n, c) /\ loc[n].refs[c] = 1
           /\ \A d \in Sessions \ {c} : loc[n].refs[d] = 0
  <2>1. s = NoSegment
    BY <1>2, <1>7
  <2> QED
    BY <1>3, <1>4, <1>5, <1>6, <1>7, <2>1, CloseViews
<1>8. CASE loc' = [loc EXCEPT ![n] = Released(loc[n], c, 1)]
  <2>1. s # NoSegment => s = view[c][n] /\ loc[n].refs[c] > 1
    BY <1>2
  <2> QED
    BY <1>3, <1>4, <1>5, <1>6, <1>8, <2>1, ReleaseViews
<1> QED
  BY <1>6, <1>7, <1>8

\* close() of a segment that is being loaded: the views stay right.
LEMMA CloseLoadingViews ==
    ASSUME StreamInv, ViewInv, NEW c \in Sessions, CloseLoading(c)
    PROVE  ViewInv' /\ Refined
<1>1. PICK n : n = th[c].sqn
  OBVIOUS
<1>2. PICK s : s = view[c][n]
  OBVIOUS
<1>3. /\ th[c].pc = "wait" /\ CloseSqn(c, n) /\ th' = [th EXCEPT ![c] = Idle]
      /\ view' = view
  BY <1>1 DEF CloseLoading
<1>4. n \in Sqns
  BY <1>1, <1>3, ThreadFacts DEF ThreadGood
<1>5. Free(Idle, c)
  BY IdleFields DEF Free, Joined, Leaving
<1>6. /\ loc[n] # NoLoc /\ loc[n].refs[c] \in Nat /\ loc[n].refs[c] > 0
      /\ 1 \in 1..loc[n].refs[c]
      /\ \/ /\ CloseEffect(n, c) /\ loc[n].refs[c] = 1
            /\ \A d \in Sessions \ {c} : loc[n].refs[d] = 0
         \/ loc' = [loc EXCEPT ![n] = Released(loc[n], c, 1)]
  BY <1>3, <1>4, CloseSqnFacts
<1>7. s # NoSegment => loc[n].refs[c] > 1
  BY <1>1, <1>2, <1>3, <1>4 DEF ViewInv, ViewOK, Joined
<1>8. view' = [view EXCEPT ![c][n] = s]
  BY <1>2, <1>3, <1>4 DEF StreamInv, BaseInv
<1>9. CASE /\ CloseEffect(n, c) /\ loc[n].refs[c] = 1
           /\ \A d \in Sessions \ {c} : loc[n].refs[d] = 0
  <2>1. s = NoSegment
    BY <1>7, <1>9
  <2> QED
    BY <1>3, <1>4, <1>5, <1>6, <1>8, <1>9, <2>1, CloseViews
<1>10. CASE loc' = [loc EXCEPT ![n] = Released(loc[n], c, 1)]
  <2>1. s # NoSegment => s = view[c][n] /\ loc[n].refs[c] > 1
    BY <1>2, <1>7
  <2> QED
    BY <1>3, <1>4, <1>5, <1>6, <1>8, <1>10, <2>1, ReleaseViews
<1> QED
  BY <1>6, <1>9, <1>10

\* The detach closes a segment that the session has mapped: the views of the
\* other sessions stay right.
LEMMA DetachStepViews ==
    ASSUME StreamInv, ViewInv, NEW c \in Sessions, DetachStep(c)
    PROVE  ViewInv' /\ Refined
<1>1. th[c].pc = "detach" /\ view' = view
  BY DEF DetachStep
<1>2. PICK n \in th[c].todo :
          /\ th' = [th EXCEPT ![c].todo = @ \ {n}]
          /\ IF loc[n].refs[c] = 0
             THEN UNCHANGED <<pool, loc, openList, tasks, lastAppend>>
             ELSE IF loc[n].count = loc[n].refs[c]
             THEN CloseLocation(n, {c})
             ELSE /\ loc' = [loc EXCEPT ![n].count = @ - loc[n].refs[c],
                                        ![n].refs[c] = 0]
                  /\ UNCHANGED <<pool, openList, tasks, lastAppend>>
  BY DEF DetachStep
<1>3. PICK t : t = [th[c] EXCEPT !.todo = th[c].todo \ {n}]
  OBVIOUS
<1>4. th' = [th EXCEPT ![c] = t]
  BY <1>2, <1>3
<1>5. t.pc = "detach"
  BY <1>1, <1>3, ThreadFacts DEF ThreadType
<1>6. Free(t, c)
  BY <1>1, <1>5 DEF Free, Joined, Leaving
<1>7. n \in Sqns /\ n \in openList
  BY <1>1, <1>2, ThreadFacts DEF ThreadGood, StreamInv, BaseInv
<1>8. loc[n] # NoLoc
  BY <1>7 DEF StreamInv, LocInv, LocOK
<1>9. loc[n] \in LocType /\ loc[n].count = SumOf(loc[n].refs)
  BY <1>7, <1>8, LocFacts
<1>10. loc[n].refs[c] \in Nat
  BY <1>9, LocFields
<1>11. view' = [view EXCEPT ![c][n] = NoSegment]
  <2>1. view[c][n] = NoSegment
    BY <1>1, <1>7 DEF ViewInv, ViewOK, Leaving
  <2> QED
    BY <1>1, <1>7, <2>1 DEF StreamInv, BaseInv
<1>12. CASE loc[n].refs[c] = 0
  <2>1. loc' = loc
    BY <1>2, <1>12
  <2> QED
    BY <1>1, <1>4, <1>6, <2>1, QuietThread DEF Free
<1>13. CASE loc[n].refs[c] # 0 /\ loc[n].count = loc[n].refs[c]
  <2>1. PICK w : w = {c}
    OBVIOUS
  <2>2. w \in SUBSET Sessions /\ CloseLocation(n, w)
    BY <1>2, <1>13, <2>1
  <2>3. \A d \in Sessions \ {c} : loc[n].refs[d] = 0
    BY <1>9, <1>13, OnlyReferences
  <2>4. CloseEffect(n, c)
    BY <1>7, <1>8, <2>2, <2>3, CloseEffects
  <2> QED
    BY <1>4, <1>6, <1>7, <1>8, <1>11, <2>3, <2>4, CloseViews
<1>14. CASE loc[n].refs[c] # 0 /\ loc[n].count # loc[n].refs[c]
  <2>1. PICK k : k = loc[n].refs[c]
    OBVIOUS
  <2>2. k \in 1..loc[n].refs[c] /\ k - k = 0
    BY <1>10, <1>14, <2>1
  <2>3. loc' = [loc EXCEPT ![n].count = @ - k, ![n].refs[c] = 0]
    BY <1>2, <1>14, <2>1, Zenon
  <2>4. [loc[n].refs EXCEPT ![c] = 0] = [loc[n].refs EXCEPT ![c] = @ - k]
    BY <2>1, <2>2
  <2>5. loc' = [loc EXCEPT ![n] = Released(loc[n], c, k)]
    BY <2>3, <2>4 DEF Released
  <2>6. PICK s : s = NoSegment
    OBVIOUS
  <2>7. view' = [view EXCEPT ![c][n] = s] /\ (s # NoSegment => s = view[c][n] /\ loc[n].refs[c] > k)
    BY <1>11, <2>6
  <2> QED
    BY <1>4, <1>6, <1>7, <1>8, <2>2, <2>5, <2>7, ReleaseViews
<1> QED
  BY <1>12, <1>13, <1>14

\* The worker ends its work item for a segment that is not mapped.
LEMMA WriteViews ==
    ASSUME StreamInv, ViewInv, NEW n \in Sqns, WriteOk(n) \/ WriteFail(n)
    PROVE  ViewInv' /\ Refined
<1>1. PICK kind : kind = "write"
  OBVIOUS
<1>2. TaskDone(kind, n) /\ kind \in {"read", "write"}
  BY <1>1 DEF WriteOk, WriteFail
<1>3. /\ loc[n] # NoLoc /\ loc[n] \in LocType /\ ~loc[n].stored /\ loc[n].id = NoSegment
  BY <1>1, <1>2, TaskFacts
<1>4. th' = th /\ view' = view
  BY <1>2 DEF TaskDone
<1>5. PICK u : u = Encoded(loc[n])
  OBVIOUS
<1>6. u \in LocType /\ u.stored
  BY <1>3, <1>5, EncodedFields
<1>7. \E v \in {u, NoLoc} : loc' = [loc EXCEPT ![n] = v]
  BY <1>5 DEF WriteOk, WriteFail, Encoded
<1>8. PICK v \in {u, NoLoc} : loc' = [loc EXCEPT ![n] = v]
  BY <1>7
<1>9. loc'[n] = v /\ \A m \in Sqns \ {n} : loc'[m] = loc[m]
  BY <1>8, LocChanged DEF StreamInv
<1>10. PhaseOf(n) = "encoding"
  BY <1>3 DEF PhaseOf, Allocated
<1>11. PhaseOf(n)' \in {"stored", "absent"}
  BY <1>6, <1>9 DEF PhaseOf, Allocated
<1>12. \A m \in Sqns \ {n} : PhaseOf(m)' = PhaseOf(m)
  BY <1>9 DEF PhaseOf, Allocated
<1>13. \A d \in Sessions, m \in Sqns : Still(m, d)
  BY <1>3, <1>9 DEF Still
<1>14. ViewInv'
  <2>1. PICK c \in Sessions \cup {NoSession} : c = NoSession
    OBVIOUS
  <2>2. c \notin Sessions
    BY <2>1, StreamAssumption
  <2>3. /\ \A d \in Sessions \ {c} : th'[d] = th[d]
        /\ \A d \in Sessions \ {c}, m \in Sqns : view'[d][m] = view[d][m] /\ Still(m, d)
    BY <1>4, <1>13
  <2> QED
    BY <2>2, <2>3, ViewStep
<1> QED
  BY <1>4, <1>10, <1>11, <1>12, <1>14, RefinedEncoded

\* The end of a load: the views stay right.
LEMMA ReadViews ==
    ASSUME StreamInv, ViewInv, NEW n \in Sqns, ReadOk(n) \/ ReadFail(n)
    PROVE  ViewInv' /\ Refined
<1>1. PICK kind : kind = "read"
  OBVIOUS
<1>2. TaskEnds(kind, n) /\ kind \in {"read", "write"}
  BY <1>1, TaskEnding DEF ReadOk
<1>3. /\ loc[n] # NoLoc /\ loc[n] \in LocType /\ loc[n].stored /\ loc[n].id = NoSegment
      /\ loc[n].count = SumOf(loc[n].refs)
  BY <1>1, <1>2, TaskLoc DEF TaskEnds
<1>4. th' = th /\ view' = view
  BY <1>2 DEF TaskEnds
<1>5. SamePhases /\ \A d \in Sessions, m \in Sqns : Still(m, d)
  <2>1. CASE ReadOk(n)
    <3>1. PICK v : v = LoadedLoc(loc[n])
      OBVIOUS
    <3>2. loc' = [loc EXCEPT ![n] = v]
      BY <2>1, <3>1 DEF ReadOk
    <3>3. v \in LocType /\ v.stored
      BY <1>3, <3>1, LoadedFields
    <3> QED
      BY <1>3, <3>2, <3>3, SameStored
  <2>2. CASE ReadFail(n)
    BY <2>2, SameLocs DEF ReadFail
  <2> QED
    BY <2>1, <2>2
<1>6. PICK c \in Sessions \cup {NoSession} : c = NoSession
  OBVIOUS
<1>7. c \notin Sessions /\ \A d \in Sessions \ {c} : th'[d] = th[d]
  BY <1>4, <1>6, StreamAssumption
<1> QED
  BY <1>4, <1>5, <1>7, SilentStep

-----------------------------------------------------------------------------
(* The invariant of the mappings, and the refinement.                      *)

\* A new stream has no view.
LEMMA ViewInit ==
    ASSUME Init
    PROVE  ViewInv
  BY DEF Init, ViewInv, ViewOK

\* Every step keeps ViewInv and is a step of TraceStream, or stutters.
LEMMA ViewNext ==
    ASSUME StreamInv, PoolInv, ViewInv, ~SharedAppend, [Next]_vars
    PROVE  ViewInv' /\ Refined
<1>1. ASSUME NEW c \in Sessions, Call(c)
      PROVE  ViewInv' /\ Refined
  <2>1. CASE AppendBegin(c)
    BY <2>1, AppendBeginViews
  <2>2. ASSUME NEW n \in Sqns, AddRequest(c, n)
        PROVE  ViewInv' /\ Refined
    BY <2>2, RequestViews
  <2>3. ASSUME NEW n \in Sqns, Close(c, n)
        PROVE  ViewInv' /\ Refined
    BY <2>3, CloseCallViews
  <2>4. ASSUME NEW n \in Sqns, NEW scan \in BOOLEAN, OpenBegin(c, n, scan)
        PROVE  ViewInv' /\ Refined
    BY <2>4, OpenBeginViews
  <2>5. CASE CloseLoading(c)
    BY <2>5, CloseLoadingViews
  <2>6. CASE DetachBegin(c)
    BY <2>6, DetachBeginViews
  <2> QED
    BY <1>1, <2>1, <2>2, <2>3, <2>4, <2>5, <2>6 DEF Call
<1>2. ASSUME NEW c \in Sessions, ThreadStep(c)
      PROVE  ViewInv' /\ Refined
  <2>1. CASE AppendRequest(c)
    BY <2>1, RequestViews
  <2>2. CASE AppendEnd(c) \/ AddEnd(c)
    BY <2>2, AddViews
  <2>3. CASE AheadSkip(c) \/ AheadCrash(c) \/ AheadDone(c) \/ DetachEnd(c) \/ DetachDone(c)
    BY <2>3, QuietViews
  <2>4. CASE AheadBegin(c) \/ OpenRead(c)
    BY <2>4, OpenCallViews
  <2>5. CASE AheadEnd(c)
    BY <2>5, AheadEndViews
  <2>6. CASE OpenFail(c)
    BY <2>6, OpenFailViews
  <2>7. CASE OpenEnd(c)
    BY <2>7, OpenEndViews
  <2>8. CASE OpenReturn(c)
    BY <2>8, OpenReturnViews
  <2>9. CASE DetachStep(c)
    BY <2>9, DetachStepViews
  <2> QED
    BY <1>2, <2>1, <2>2, <2>3, <2>4, <2>5, <2>6, <2>7, <2>8, <2>9 DEF ThreadStep
<1>3. ASSUME NEW n \in Sqns, Worker(n)
      PROVE  ViewInv' /\ Refined
  BY <1>3, WriteViews, ReadViews DEF Worker
<1>4. CASE UNCHANGED streamVars
  <2>1. UNCHANGED <<loc, th, view>>
    BY <1>4 DEF streamVars
  <2>2. ViewInv'
    BY <2>1 DEF ViewInv, ViewOK, Joined
  <2>3. SamePhases
    BY <2>1, SameLocs
  <2> QED
    BY <2>1, <2>2, <2>3, RefinedSame DEF SamePhases
<1> QED
  BY <1>1, <1>2, <1>3, <1>4 DEF Next, Spurious, vars

\* A stream that one session appends to
ViewsHold == StreamAndPool /\ ViewInv

\* With one session that appends, the views are right in all states.
LEMMA ViewsInvariant ==
    ASSUME ~SharedAppend
    PROVE  Spec => []ViewsHold
<1>1. Init => ViewInv
  BY ViewInit
<1>2. StreamAndPool /\ ViewInv /\ [Next]_vars => ViewInv'
  BY ViewNext DEF StreamAndPool
<1> QED
  BY <1>1, <1>2, InductiveInvariant, PTL DEF Spec, ViewsHold

\* Where one session appends, a session keeps what it was given.
THEOREM MappingHolds ==
    ASSUME ~SharedAppend
    PROVE  Spec => []MappingStable
<1>1. ViewsHold => MappingStable
  <2> SUFFICES ASSUME ViewsHold, NEW c \in Sessions, NEW n \in Sqns, view[c][n] # NoSegment
               PROVE  /\ Allocated(n)
                      /\ loc[n].id = view[c][n]
                      /\ loc[n].refs[c] > 0
                      /\ pool.seg[view[c][n]].link = n
                      /\ InUse(pool, view[c][n])
                      /\ loc[n].stored => pool.seg[view[c][n]].ready
    BY DEF MappingStable
  <2>1. StreamInv /\ PoolInv /\ ViewInv
    BY DEF ViewsHold, StreamAndPool
  <2>2. Allocated(n) /\ loc[n].id = view[c][n] /\ loc[n].refs[c] > 0
    BY <2>1 DEF ViewInv, ViewOK, Allocated
  <2>3. PICK s : s = view[c][n]
    OBVIOUS
  <2>4. PICK l : l = loc[n]
    OBVIOUS
  <2>5. loc[n] # NoLoc /\ l.id = s /\ s # NoSegment
    BY <2>2, <2>3, <2>4 DEF Allocated
  <2>6. /\ PoolGood(pool) /\ s \in Segments \ Listed(pool)
        /\ pool.seg[s].link = n /\ (l.stored => pool.seg[s].ready)
    BY <2>1, <2>4, <2>5, IdFacts
  <2>7. "InUse" \in pool.seg[s].flags
    BY <2>6 DEF PoolGood, UsedFlags, Listed
  <2> QED
    BY <2>2, <2>3, <2>4, <2>6, <2>7 DEF InUse, Listed
<1> QED
  BY <1>1, ViewsInvariant, PTL

\* Every step is one of TraceStream.
THEOREM StreamRefines ==
    ASSUME ~SharedAppend
    PROVE  Spec => ImplementsTraceStream
<1>1. Init => Abstract!Init
  BY RefinedInit
<1>2. ViewsHold /\ [Next]_vars =>
        [Abstract!Next]_<<[n \in Sqns |-> PhaseOf(n)],
                          {m \in Sessions \X Sqns : view[m[1]][m[2]] # NoSegment}>>
  BY ViewNext DEF ViewsHold, StreamAndPool, Refined, Phase, Mapped
<1> QED
  BY <1>1, <1>2, ViewsInvariant, PTL DEF Spec, ImplementsTraceStream, Abstract!Spec

-----------------------------------------------------------------------------
(* The references, where no open is canceled.                              *)

\* The call of c opens n and has its reference.
In(c, n) == Joined(th[c]) /\ th[c].sqn = n

\* Session c is detaching and has not come to n, or has.
Closing(c, n) == th[c].pc = "detach" /\ n \in th[c].todo
Out(c, n) == th[c].pc \in {"drain", "gone"} \/ (th[c].pc = "detach" /\ n \notin th[c].todo)

\* Who knows of the references of c to n
LeakOK(c, n) ==
    loc[n] # NoLoc =>
        /\ loc[n].refs[c] > 0 =>
              /\ loc[n].id = NoSegment => ~loc[n].stored \/ loc[n].prefetched \/ In(c, n)
              /\ loc[n].id # NoSegment => view[c][n] # NoSegment \/ In(c, n) \/ Closing(c, n)
              /\ Out(c, n) => loc[n].id = NoSegment /\ c \in loc[n].waits
        /\ In(c, n) /\ loc[n].id = NoSegment => c \in loc[n].waits
        /\ th[c].pc = "gone" => c \notin loc[n].waits

LeakInv == \A c \in Sessions, n \in Sqns : LeakOK(c, n)

\* The session goes on, and knows of n what it knew before.
Follows(c, n) ==
    /\ In(c, n)' <=> In(c, n)
    /\ Closing(c, n) => Closing(c, n)'
    /\ Out(c, n)' => Out(c, n)
    /\ th'[c].pc = "gone" => th[c].pc = "gone"
    /\ view[c][n] # NoSegment => view'[c][n] # NoSegment

\* Location n changes, but not in what c has of it.
Alike(c, n) ==
    /\ loc[n] # NoLoc /\ loc'[n].refs[c] = loc[n].refs[c] /\ loc'[n].id = loc[n].id
    /\ loc'[n].stored <=> loc[n].stored
    /\ loc'[n].prefetched <=> loc[n].prefetched
    /\ c \in loc'[n].waits <=> c \in loc[n].waits

\* Session c has no reference to n after the step.
NoneLeft(c, n) ==
    /\ loc'[n].refs[c] = 0 /\ ~In(c, n)
    /\ c \in loc'[n].waits => loc[n] # NoLoc /\ c \in loc[n].waits

\* Segment n goes to the encoder.
Submits(c, n) ==
    /\ loc[n] # NoLoc /\ loc[n].id # NoSegment /\ ~loc'[n].stored
    /\ loc'[n].id = NoSegment /\ loc'[n].refs[c] = loc[n].refs[c] /\ ~In(c, n)
    /\ c \in loc'[n].waits <=> c \in loc[n].waits

\* The data of segment n has arrived.
Loads(c, n) ==
    /\ loc'[n].id # NoSegment /\ c \notin loc'[n].waits
    /\ loc'[n].refs[c] > 0 => In(c, n)

Watched(c, n) ==
    \/ loc'[n] = loc[n] \/ loc'[n] = NoLoc
    \/ Alike(c, n) \/ NoneLeft(c, n) \/ Submits(c, n) \/ Loads(c, n)

\* What is said of the references of c to n stays true of a step that changes
\* neither the call nor the references of c.
LEMMA LeakKept ==
    ASSUME NEW c \in Sessions, NEW n \in Sqns, LeakOK(c, n), Follows(c, n), Watched(c, n)
    PROVE  LeakOK(c, n)'
<1>1. CASE loc'[n] = NoLoc
  BY <1>1 DEF LeakOK
<1>2. CASE loc'[n] = loc[n]
  BY <1>2 DEF LeakOK, Follows
<1>3. CASE Alike(c, n)
  BY <1>3 DEF LeakOK, Follows, Alike
<1>4. CASE NoneLeft(c, n)
  <2>1. ~In(c, n)' /\ ~(loc'[n].refs[c] > 0)
    BY <1>4 DEF NoneLeft, Follows
  <2>2. th'[c].pc = "gone" => c \notin loc'[n].waits
    BY <1>4 DEF NoneLeft, Follows, LeakOK
  <2> QED
    BY <2>1, <2>2 DEF LeakOK
<1>5. CASE Submits(c, n)
  BY <1>5 DEF LeakOK, Follows, Submits
<1>6. CASE Loads(c, n)
  <2>1. In(c, n)' => ~Out(c, n)'
    BY DEF In, Out, Joined
  <2> QED
    BY <1>6, <2>1 DEF LeakOK, Follows, Loads
<1> QED
  BY <1>1, <1>2, <1>3, <1>4, <1>5, <1>6 DEF Watched

\* A session whose thread stays where it is and whose mapping stays
LEMMA FollowsSame ==
    ASSUME NEW c \in Sessions, NEW n \in Sqns, th'[c] = th[c], view'[c][n] = view[c][n]
    PROVE  Follows(c, n)
  BY DEF Follows, In, Closing, Out, Joined

\* A call goes on, and neither begins nor ends to detach.
LEMMA FollowsCall ==
    ASSUME NEW c \in Sessions, NEW n \in Sqns, view'[c][n] = view[c][n],
           th[c].pc \notin Leaving, th'[c].pc \notin Leaving,
           In(c, n)' <=> In(c, n)
    PROVE  Follows(c, n)
  BY DEF Follows, Closing, Out, Leaving

\* A step of c
LEMMA LeakStep ==
    ASSUME LeakInv, NEW c \in Sessions \cup {NoSession},
           \A d \in Sessions \ {c} : th'[d] = th[d],
           \A d \in Sessions \ {c}, m \in Sqns : view'[d][m] = view[d][m] /\ Watched(d, m),
           c \in Sessions => \A m \in Sqns : LeakOK(c, m)'
    PROVE  LeakInv'
<1>1. ASSUME NEW d \in Sessions \ {c}, NEW m \in Sqns
      PROVE  LeakOK(d, m)'
  BY FollowsSame, LeakKept DEF LeakInv
<1> QED
  BY <1>1 DEF LeakInv

\* The same, if c knows of everything what it knew
LEMMA LeakFollows ==
    ASSUME LeakInv, NEW c \in Sessions \cup {NoSession},
           \A d \in Sessions \ {c} : th'[d] = th[d],
           \A d \in Sessions \ {c}, m \in Sqns : view'[d][m] = view[d][m],
           \A d \in Sessions, m \in Sqns : Watched(d, m),
           c \in Sessions => \A m \in Sqns : Follows(c, m)
    PROVE  LeakInv'
<1>1. c \in Sessions => \A m \in Sqns : LeakOK(c, m)'
  BY LeakKept DEF LeakInv
<1> QED
  BY <1>1, LeakStep

\* A thread in a call has its reference.
LEMMA InFacts ==
    ASSUME StreamInv, NEW c \in Sessions, NEW n \in Sqns, In(c, n)
    PROVE  /\ loc[n] # NoLoc /\ loc[n].stored /\ loc[n].refs[c] > 0
           /\ ~loc[n].prefetched /\ ~loc[n].cancel
  BY ThreadFacts DEF In, Joined, ThreadGood

\* Only location n is touched, and nobody had a reference to it or has one
\* now, except d.
LEMMA WatchedLoad ==
    ASSUME StreamInv, NEW n \in Sqns, NEW v, loc' = [loc EXCEPT ![n] = v],
           NEW d \in Sessions, loc[n] = NoLoc \/ loc[n].refs[d] = 0,
           v.refs[d] = 0, d \in v.waits => loc[n] # NoLoc /\ d \in loc[n].waits
    PROVE  \A m \in Sqns : Watched(d, m)
<1>1. loc'[n] = v /\ \A m \in Sqns \ {n} : loc'[m] = loc[m]
  BY LocChanged DEF StreamInv
<1>2. ~In(d, n)
  BY InFacts
<1>3. NoneLeft(d, n)
  BY <1>1, <1>2 DEF NoneLeft
<1> QED
  BY <1>1, <1>3 DEF Watched

\* The thread t of c goes on in its call.
Goes(t, c) ==
    /\ th[c].pc \notin Leaving /\ t.pc \notin Leaving
    /\ Joined(t) <=> Joined(th[c])
    /\ Joined(t) => t.sqn = th[c].sqn

\* A thread that goes on in its call keeps what it is waiting for.
LEMMA GoesFollows ==
    ASSUME StreamInv, NEW c \in Sessions, NEW t, th' = [th EXCEPT ![c] = t], Goes(t, c),
           view' = view
    PROVE  /\ \A m \in Sqns : Follows(c, m)
           /\ \A d \in Sessions \ {c} : th'[d] = th[d]
<1>1. th'[c] = t /\ \A d \in Sessions \ {c} : th'[d] = th[d]
  BY ThreadChanged DEF StreamInv
<1>2. ASSUME NEW m \in Sqns
      PROVE  Follows(c, m)
  <2>1. In(c, m)' <=> In(c, m)
    BY <1>1 DEF In, Goes
  <2> QED
    BY <1>1, <2>1, FollowsCall DEF Goes
<1> QED
  BY <1>1, <1>2

\* A thread goes on; no location is touched.
LEMMA LeakThread ==
    ASSUME StreamInv, LeakInv, NEW c \in Sessions, NEW t, th' = [th EXCEPT ![c] = t],
           Goes(t, c), UNCHANGED <<loc, view>>
    PROVE  LeakInv'
<1>1. /\ \A m \in Sqns : Follows(c, m)
      /\ \A d \in Sessions \ {c} : th'[d] = th[d]
  BY GoesFollows
<1>2. \A d \in Sessions, m \in Sqns : Watched(d, m)
  BY DEF Watched
<1> QED
  BY <1>1, <1>2, LeakFollows

\* A thread goes on; a location changes that nobody refers to.
LEMMA LeakLoad ==
    ASSUME StreamInv, LeakInv, NEW c \in Sessions, NEW t, th' = [th EXCEPT ![c] = t],
           Goes(t, c), view' = view,
           NEW n \in Sqns, loc[n] # NoLoc, loc[n].count = 0,
           NEW v, loc' = [loc EXCEPT ![n] = v], v.refs = loc[n].refs, v.waits = loc[n].waits
    PROVE  LeakInv'
<1>1. /\ \A m \in Sqns : Follows(c, m)
      /\ \A d \in Sessions \ {c} : th'[d] = th[d]
  BY GoesFollows
<1>2. ASSUME NEW d \in Sessions
      PROVE  \A m \in Sqns : Watched(d, m)
  <2>1. loc[n] \in LocType /\ loc[n].count = SumOf(loc[n].refs)
    BY LocFacts
  <2>2. loc[n].refs[d] = 0
    BY <2>1, OnlyReferences
  <2> QED
    BY <2>2, WatchedLoad
<1> QED
  BY <1>1, <1>2, LeakFollows

\* Steps that take and release no reference leak none.
LEMMA QuietLeaks ==
    ASSUME StreamInv, LeakInv, NEW c \in Sessions,
           \/ AppendRequest(c) \/ \E n \in Sqns : AddRequest(c, n)
           \/ AheadSkip(c) \/ AheadCrash(c) \/ AheadDone(c)
    PROVE  LeakInv'
<1>1. th[c] \in ThreadType /\ th = [d \in Sessions |-> th[d]]
  BY ThreadFacts DEF StreamInv, BaseInv
<1>2. CASE AppendRequest(c)
  <2>1. PICK r \in Request("write", lastSqn + 1) :
          /\ IF r[2] = NoSegment THEN th' = [th EXCEPT ![c] = Idle]
             ELSE th' = [th EXCEPT ![c].seg = r[2], ![c].sqn = lastSqn + 1]
          /\ th[c].pc = "append" /\ UNCHANGED <<loc, view>>
    BY <1>2 DEF AppendRequest
  <2>2. PICK u : u = [th[c] EXCEPT !.seg = r[2], !.sqn = lastSqn + 1]
    OBVIOUS
  <2>3. PICK t : th' = [th EXCEPT ![c] = t] /\ t \in {Idle, u}
    BY <2>1, <2>2
  <2>4. t.pc \in {"idle", "append"}
    BY <1>1, <2>1, <2>2, <2>3, IdleFields DEF ThreadType
  <2>5. Goes(t, c)
    BY <2>1, <2>4 DEF Goes, Joined, Leaving
  <2> QED
    BY <2>1, <2>3, <2>5, LeakThread
<1>3. ASSUME NEW n \in Sqns, AddRequest(c, n)
      PROVE  LeakInv'
  <2>1. PICK r \in Request("write", n) :
          /\ th' = [th EXCEPT ![c] = [Idle EXCEPT !.pc = "add", !.sqn = n, !.seg = r[2]]]
    BY <1>3, Zenon DEF AddRequest
  <2>2. PICK t : t = [Idle EXCEPT !.pc = "add", !.sqn = n, !.seg = r[2]]
    OBVIOUS
  <2>3. t.pc = "add"
    BY <2>2 DEF Idle
  <2>4. th[c].pc = "idle" /\ UNCHANGED <<loc, view>>
    BY <1>3 DEF AddRequest
  <2>5. Goes(t, c)
    BY <2>3, <2>4 DEF Goes, Joined, Leaving
  <2> QED
    BY <2>1, <2>2, <2>4, <2>5, LeakThread
<1>4. CASE AheadSkip(c)
  <2>1. PICK t : t = [th[c] EXCEPT !.ahead = Tail(@)]
    OBVIOUS
  <2>2. th' = [th EXCEPT ![c] = t] /\ th[c].pc = "ahead" /\ UNCHANGED <<loc, view>>
    BY <1>4, <2>1 DEF AheadSkip
  <2>3. t.pc = th[c].pc /\ t.sqn = th[c].sqn /\ t.handled = th[c].handled
    BY <1>1, <2>1 DEF ThreadType
  <2>4. Goes(t, c)
    BY <2>2, <2>3 DEF Goes, Joined, Leaving
  <2> QED
    BY <2>2, <2>4, LeakThread
<1>5. CASE AheadCrash(c)
  <2>1. PICK t : t = th[c]
    OBVIOUS
  <2>2. th' = [th EXCEPT ![c] = t] /\ th[c].pc = "ahead" /\ UNCHANGED <<loc, view>>
    BY <1>1, <1>5, <2>1 DEF AheadCrash
  <2>3. Goes(t, c)
    BY <2>1, <2>2 DEF Goes, Leaving
  <2> QED
    BY <2>2, <2>3, LeakThread
<1>6. CASE AheadDone(c)
  <2>1. PICK t : t = [th[c] EXCEPT !.pc = "wait"]
    OBVIOUS
  <2>2. th' = [th EXCEPT ![c] = t] /\ th[c].pc = "ahead" /\ th[c].handled
        /\ UNCHANGED <<loc, view>>
    BY <1>6, <2>1 DEF AheadDone, Goto
  <2>3. t.pc = "wait" /\ t.sqn = th[c].sqn
    BY <1>1, <2>1 DEF ThreadType
  <2>4. Goes(t, c)
    BY <2>2, <2>3 DEF Goes, Joined, Leaving
  <2> QED
    BY <2>2, <2>4, LeakThread
<1> QED
  BY <1>2, <1>3, <1>4, <1>5, <1>6

\* The encoder is called with the reference of the call: none is leaked.
LEMMA OpenCallLeaks ==
    ASSUME StreamInv, PoolInv, LeakInv, NEW c \in Sessions, AheadBegin(c) \/ OpenRead(c)
    PROVE  LeakInv'
<1>1. ASSUME NEW m \in Sqns, loc[m] # NoLoc, loc[m].count = 0,
             th[c].pc = "ahead", NEW prefetch \in BOOLEAN, NEW async \in BOOLEAN,
             NEW pc \in {"aheadEnd", "openEnd"}, pc = "openEnd" => ~th[c].handled,
             OpenSegment(c, m, prefetch, async, pc)
      PROVE  LeakInv'
  <2>1. PICK kind \in {"write", "read", "prefetch"} : kind = IF prefetch THEN "prefetch" ELSE "read"
    OBVIOUS
  <2>2. PICK r \in Request(kind, m) :
          /\ loc' = [loc EXCEPT ![m].prefetched = prefetch, ![m].cancel = prefetch,
                                ![m].sideId = r[2]]
          /\ th' = [th EXCEPT ![c].pc = pc, ![c].complete = ~(r[2] # NoSegment /\ ~r[3] /\ async)]
          /\ view' = view
    BY <1>1, <2>1 DEF OpenSegment
  <2>3. PICK load \in BOOLEAN : load <=> r[2] # NoSegment /\ ~r[3] /\ async
    OBVIOUS
  <2>4. PICK s \in Segments \cup {NoSegment} : s = r[2]
    BY RequestType DEF PoolInv
  <2>5. PICK t : t = Calling(th[c], pc, load)
    OBVIOUS
  <2>6. PICK l : l = Opening(loc[m], prefetch, s)
    OBVIOUS
  <2>7. loc' = [loc EXCEPT ![m] = l] /\ th' = [th EXCEPT ![c] = t]
    BY <2>2, <2>3, <2>4, <2>5, <2>6 DEF Opening, Calling
  <2>8. t.pc = pc /\ t.sqn = th[c].sqn /\ t.handled = th[c].handled
    <3>1. Called(th[c], pc, load, t)
      BY <2>5, ThreadFacts, CallingFields
    <3> QED
      BY <3>1 DEF Called
  <2>9. l.refs = loc[m].refs /\ l.waits = loc[m].waits
    <3>1. loc[m] \in LocType
      BY <1>1, LocFacts
    <3>2. Opened(loc[m], prefetch, s, l)
      BY <2>6, <3>1, OpeningFields
    <3> QED
      BY <1>1, <3>2 DEF Opened
  <2>10. Goes(t, c)
    BY <1>1, <2>8 DEF Goes, Leaving, Joined
  <2> QED
    BY <1>1, <2>2, <2>7, <2>9, <2>10, LeakLoad
<1>2. CASE AheadBegin(c)
  <2>1. PICK m : m = Head(th[c].ahead)
    OBVIOUS
  <2>2. /\ th[c].pc = "ahead" /\ th[c].ahead # <<>>
        /\ loc[m] # NoLoc /\ loc[m].count = 0
        /\ OpenSegment(c, m, TRUE, TRUE, "aheadEnd")
    BY <1>2, <2>1 DEF AheadBegin
  <2>3. m \in Sqns
    BY <2>1, <2>2, ThreadFacts, AheadFields
  <2> QED
    BY <1>1, <2>1, <2>2, <2>3
<1>3. CASE OpenRead(c)
  <2>1. PICK m : m = th[c].sqn
    OBVIOUS
  <2>2. PICK async \in BOOLEAN : async <=> c \in AsyncSessions
    OBVIOUS
  <2>3. /\ th[c].pc = "ahead" /\ th[c].ahead = <<>> /\ ~th[c].handled
        /\ OpenSegment(c, m, FALSE, async, "openEnd")
    BY <1>3, <2>1, <2>2 DEF OpenRead
  <2>4. m \in Sqns /\ loc[m] # NoLoc /\ loc[m].stored /\ loc[m].count = 0
    BY <2>1, <2>3, ThreadFacts DEF ThreadGood
  <2> QED
    BY <1>1, <2>1, <2>3, <2>4
<1> QED
  BY <1>2, <1>3

\* The encoder refuses to open a segment: no reference is leaked.
LEMMA OpenFailLeaks ==
    ASSUME StreamInv, LeakInv, NEW c \in Sessions, OpenFail(c)
    PROVE  LeakInv'
<1>1. PICK n : n = th[c].sqn
  OBVIOUS
<1>2. PICK v : v = Cleared(loc[n])
  OBVIOUS
<1>3. /\ th[c].pc = "ahead" /\ ~th[c].handled /\ th' = [th EXCEPT ![c] = Idle]
      /\ loc' = [loc EXCEPT ![n] = v] /\ view' = view
  BY <1>1, <1>2 DEF OpenFail, Cleared
<1>4. n \in Sqns /\ loc[n] # NoLoc /\ loc[n].count = 0
  BY <1>1, <1>3, ThreadFacts DEF ThreadGood
<1>5. v.refs = loc[n].refs /\ v.waits = loc[n].waits
  <2>1. loc[n] \in LocType
    BY <1>4, LocFacts
  <2> QED
    BY <1>2, <1>4, <2>1 DEF Cleared, LocType
<1>6. Goes(Idle, c)
  BY <1>3, IdleFields DEF Goes, Leaving, Joined
<1> QED
  BY <1>3, <1>4, <1>5, <1>6, LeakLoad

\* Session c takes the first reference to n.
LEMMA LeakFirst ==
    ASSUME StreamInv, LeakInv, NEW c \in Sessions,
           \A d \in Sessions \ {c} : th'[d] = th[d],
           view' = view, NEW n \in Sqns, loc[n] # NoLoc, loc[n].count = 0,
           NEW v, loc' = [loc EXCEPT ![n] = v],
           \A d \in Sessions \ {c} : v.refs[d] = 0 /\ (d \in v.waits => d \in loc[n].waits),
           \A m \in Sqns \ {n} : Follows(c, m), LeakOK(c, n)'
    PROVE  LeakInv'
<1>1. ASSUME NEW d \in Sessions \ {c}
      PROVE  \A m \in Sqns : Watched(d, m)
  <2>1. loc[n] \in LocType /\ loc[n].count = SumOf(loc[n].refs)
    BY LocFacts
  <2>2. loc[n].refs[d] = 0
    BY <2>1, OnlyReferences
  <2>3. v.refs[d] = 0 /\ (d \in v.waits => d \in loc[n].waits)
    OBVIOUS
  <2> QED
    BY <2>2, <2>3, WatchedLoad
<1>2. ASSUME NEW m \in Sqns \ {n}
      PROVE  LeakOK(c, m)'
  <2>1. Watched(c, m)
    BY LocChanged DEF StreamInv, Watched
  <2> QED
    BY <2>1, LeakKept DEF LeakInv
<1> QED
  BY <1>1, <1>2, LeakStep

\* openSegment returns for a read ahead: no reference is leaked.
LEMMA AheadEndLeaks ==
    ASSUME StreamInv, LeakInv, NEW c \in Sessions, AheadEnd(c)
    PROVE  LeakInv'
<1>1. PICK m : m = Head(th[c].ahead)
  OBVIOUS
<1>2. PICK l : l = Reference(loc[m], c)
  OBVIOUS
<1>3. PICK a : a = IF loc[m].id = NoSegment /\ loc[m].sideId = NoSegment
                   THEN <<>> ELSE Tail(th[c].ahead)
  OBVIOUS
<1>4. PICK t : t = Continued(th[c], a)
  OBVIOUS
<1>5. th[c].pc = "aheadEnd" /\ th' = [th EXCEPT ![c] = t] /\ view' = view
  BY <1>1, <1>3, <1>4 DEF AheadEnd, Continued
<1>6. IF loc[m].id = NoSegment /\ loc[m].sideId = NoSegment
      THEN loc' = OpenNothing(m)
      ELSE loc' = [loc EXCEPT ![m] = LoadedLoc(l)] \/ loc' = [loc EXCEPT ![m] = l]
  BY <1>1, <1>2 DEF AheadEnd
<1>7. /\ ThreadGood(c) /\ openLock = c /\ m \in Sqns /\ loc[m] # NoLoc
      /\ m # th[c].sqn
  <2>1. ThreadGood(c) /\ th[c].ahead # <<>> /\ th[c].ahead \in AheadLists
    BY <1>5, ThreadFacts DEF ThreadGood
  <2>2. m = th[c].ahead[1] /\ 1 \in DOMAIN th[c].ahead /\ m \in Sqns
    BY <1>1, <2>1, AheadFields
  <2> QED
    BY <1>1, <1>5, <2>1, <2>2 DEF ThreadGood
<1>8. Busy(m) \in {"ahead", "aheadDone"}
  BY <1>1, <1>5, <1>7 DEF Busy
<1>9. /\ loc[m] \in LocType /\ loc[m].count = SumOf(loc[m].refs)
      /\ LocGood(loc[m], m, openList, tasks, Busy(m))
  BY <1>7, LocFacts
<1>10. /\ loc[m].stored /\ loc[m].count = 0 /\ loc[m].prefetched /\ loc[m].id = NoSegment
       /\ loc[m].sideId # NoSegment => loc[m].cancel
  BY <1>8, <1>9 DEF LocGood
<1>11. t.pc = "ahead" /\ t.sqn = th[c].sqn /\ t.handled = th[c].handled
  BY <1>4, <1>7, ThreadFacts DEF ThreadType, Continued
<1>12. Goes(t, c)
  BY <1>5, <1>11 DEF Goes, Leaving, Joined
<1>13. /\ \A k \in Sqns : Follows(c, k)
       /\ \A d \in Sessions \ {c} : th'[d] = th[d]
       /\ th'[c] = t
  BY <1>5, <1>12, GoesFollows, ThreadChanged DEF StreamInv
<1>14. \A d \in Sessions : loc[m].refs[d] = 0
  BY <1>9, <1>10, OnlyReferences
<1>15. CASE loc[m].sideId = NoSegment
  <2>1. PICK v : v = Cleared(loc[m])
    OBVIOUS
  <2>2. loc' = [loc EXCEPT ![m] = v]
    BY <1>6, <1>10, <1>15, <2>1 DEF OpenNothing, Cleared
  <2>3. v.refs = loc[m].refs /\ v.waits = loc[m].waits
    BY <1>9, <2>1 DEF Cleared, LocType
  <2> QED
    BY <1>5, <1>7, <1>10, <1>12, <2>2, <2>3, LeakLoad
<1>16. CASE loc[m].sideId # NoSegment
  <2>1. /\ l \in LocType /\ l.count = SumOf(l.refs) /\ l.stored = loc[m].stored
        /\ l.id = loc[m].id /\ l.cancel = loc[m].cancel /\ l.prefetched = loc[m].prefetched
        /\ l.waits = loc[m].waits
        /\ \A d \in Sessions \ {c} : l.refs[d] = loc[m].refs[d]
    <3>1. loc[m].refs[c] < MaxRefs
      BY <1>14, StreamAssumption
    <3> QED
      BY <1>2, <1>9, <3>1, ReferenceFields
  <2>2. CASE loc' = [loc EXCEPT ![m] = LoadedLoc(l)]
    <3>1. PICK v : v = LoadedLoc(l)
      OBVIOUS
    <3>2. v.waits = {} /\ \A d \in Sessions : v.refs[d] = 0
      BY <1>10, <1>16, <2>1, <3>1, LoadedFields
    <3>3. loc' = [loc EXCEPT ![m] = v]
      BY <2>2, <3>1
    <3>4. LeakOK(c, m)'
      <4>1. \A k \in Sqns : Watched(c, k)
        BY <1>7, <1>14, <3>2, <3>3, WatchedLoad
      <4> QED
        BY <1>7, <1>13, <4>1, LeakKept DEF LeakInv
    <3> QED
      BY <1>5, <1>7, <1>10, <1>13, <3>2, <3>3, <3>4, LeakFirst
  <2>3. CASE loc' = [loc EXCEPT ![m] = l]
    <3>1. loc'[m] = l
      BY <1>7, <2>3, LocChanged DEF StreamInv
    <3>2. ~In(c, m)' /\ ~Out(c, m)' /\ th'[c].pc # "gone"
      BY <1>7, <1>11, <1>13 DEF In, Out
    <3>3. l.id = NoSegment /\ l.prefetched
      BY <1>10, <2>1
    <3>4. LeakOK(c, m)'
      BY <3>1, <3>2, <3>3 DEF LeakOK
    <3>5. \A d \in Sessions \ {c} : l.refs[d] = 0 /\ (d \in l.waits => d \in loc[m].waits)
      BY <1>14, <2>1
    <3> QED
      BY <1>5, <1>7, <1>10, <1>13, <2>3, <3>4, <3>5, LeakFirst
  <2> QED
    BY <1>6, <1>16, <2>2, <2>3
<1> QED
  BY <1>15, <1>16

\* openSegment returns for an open: its reference belongs to the call.
LEMMA OpenEndLeaks ==
    ASSUME StreamInv, LeakInv, NEW c \in Sessions, OpenEnd(c)
    PROVE  LeakInv'
<1>1. PICK n : n = th[c].sqn
  OBVIOUS
<1>2. PICK l : l = Reference(loc[n], c)
  OBVIOUS
<1>3. PICK w : w = [th[c] EXCEPT !.pc = "wait"]
  OBVIOUS
<1>4. PICK x : x = [l EXCEPT !.waits = @ \cup {c}]
  OBVIOUS
<1>5. th[c].pc = "openEnd" /\ view' = view
  BY DEF OpenEnd
<1>6. IF loc[n].id = NoSegment /\ loc[n].sideId = NoSegment
      THEN loc' = OpenNothing(n) /\ th' = [th EXCEPT ![c] = Idle]
      ELSE /\ loc' = [loc EXCEPT ![n] = IF th[c].complete THEN LoadedLoc(l)
                                       ELSE IF l.id = NoSegment THEN x ELSE l]
           /\ Goto(c, "wait")
  BY <1>1, <1>2, <1>4, Zenon DEF OpenEnd
<1>7. ThreadGood(c) /\ openLock = c /\ n \in Sqns /\ loc[n] # NoLoc
  BY <1>1, <1>5, ThreadFacts DEF ThreadGood
<1>8. Busy(n) = IF th[c].complete THEN "openDone" ELSE "open"
  BY <1>1, <1>5, <1>7 DEF Busy
<1>9. /\ loc[n] \in LocType /\ loc[n].count = SumOf(loc[n].refs)
      /\ LocGood(loc[n], n, openList, tasks, Busy(n))
  BY <1>7, LocFacts
<1>10. /\ loc[n].stored /\ loc[n].count = 0 /\ ~loc[n].cancel
       /\ th[c].complete => loc[n].id = NoSegment
  BY <1>8, <1>9 DEF LocGood
<1>11. \A d \in Sessions : loc[n].refs[d] = 0
  BY <1>9, <1>10, OnlyReferences
<1>12. CASE loc[n].id = NoSegment /\ loc[n].sideId = NoSegment
  <2>1. PICK v : v = Cleared(loc[n])
    OBVIOUS
  <2>2. loc' = [loc EXCEPT ![n] = v] /\ th' = [th EXCEPT ![c] = Idle]
    BY <1>6, <1>12, <2>1 DEF OpenNothing, Cleared
  <2>3. v.refs = loc[n].refs /\ v.waits = loc[n].waits
    BY <1>9, <2>1 DEF Cleared, LocType
  <2>4. Goes(Idle, c)
    BY <1>5, IdleFields DEF Goes, Leaving, Joined
  <2> QED
    BY <1>5, <1>7, <1>10, <2>2, <2>3, <2>4, LeakLoad
<1>13. CASE ~(loc[n].id = NoSegment /\ loc[n].sideId = NoSegment)
  <2>1. /\ l \in LocType /\ l.count = SumOf(l.refs) /\ l.id = loc[n].id
        /\ l.cancel = loc[n].cancel /\ l.waits = loc[n].waits /\ l.sideId = loc[n].sideId
        /\ \A d \in Sessions \ {c} : l.refs[d] = 0
    <3>1. loc[n].refs[c] < MaxRefs
      BY <1>11, StreamAssumption
    <3> QED
      BY <1>2, <1>9, <1>11, <3>1, ReferenceFields
  <2>2. PICK v : v = IF th[c].complete THEN LoadedLoc(l) ELSE IF l.id = NoSegment THEN x ELSE l
    OBVIOUS
  <2>3. loc' = [loc EXCEPT ![n] = v] /\ th' = [th EXCEPT ![c] = w]
    BY <1>3, <1>6, <1>13, <2>2 DEF Goto
  <2>4. /\ \A d \in Sessions \ {c} : v.refs[d] = 0 /\ (d \in v.waits => d \in loc[n].waits)
        /\ v.id = NoSegment => c \in v.waits
    <3>1. CASE th[c].complete
      <4>1. v = LoadedLoc(l)
        BY <2>2, <3>1
      <4>2. v.waits = {} /\ v.refs = l.refs /\ v.id = l.sideId
        BY <1>10, <2>1, <4>1, LoadedFields
      <4>3. l.sideId # NoSegment
        BY <1>10, <1>13, <2>1, <3>1
      <4> QED
        BY <2>1, <4>2, <4>3
    <3>2. CASE ~th[c].complete /\ l.id = NoSegment
      <4>1. v = x
        BY <2>2, <3>2
      <4>2. v.refs = l.refs /\ v.waits = l.waits \cup {c}
        BY <1>4, <2>1, <4>1 DEF LocType
      <4> QED
        BY <2>1, <4>2
    <3>3. CASE ~th[c].complete /\ l.id # NoSegment
      <4>1. v = l
        BY <2>2, <3>3
      <4> QED
        BY <2>1, <3>3, <4>1
    <3> QED
      BY <3>1, <3>2, <3>3
  <2>5. w.pc = "wait" /\ w.sqn = n
    BY <1>1, <1>3, ThreadFacts, AtPc DEF Pcs
  <2>6. th'[c] = w /\ \A d \in Sessions \ {c} : th'[d] = th[d]
    BY <2>3, ThreadChanged DEF StreamInv
  <2>7. In(c, n)' /\ ~Out(c, n)' /\ th'[c].pc # "gone"
    BY <2>5, <2>6 DEF In, Out, Joined
  <2>8. loc'[n] = v
    BY <1>7, <2>3, LocChanged DEF StreamInv
  <2>9. LeakOK(c, n)'
    BY <2>4, <2>7, <2>8 DEF LeakOK
  <2>10. ASSUME NEW m \in Sqns \ {n}
         PROVE  Follows(c, m)
    <3>1. ~In(c, m) /\ ~In(c, m)'
      BY <1>1, <2>5, <2>6 DEF In
    <3> QED
      BY <1>5, <2>5, <2>6, <3>1, FollowsCall DEF Leaving
  <2> QED
    BY <1>5, <1>7, <1>10, <2>3, <2>4, <2>6, <2>9, <2>10, LeakFirst
<1> QED
  BY <1>12, <1>13

\* open() returns: its reference belongs to the view, or to the wait.
LEMMA OpenReturnLeaks ==
    ASSUME StreamInv, LeakInv, NEW c \in Sessions, OpenReturn(c)
    PROVE  LeakInv'
<1>1. PICK n : n = th[c].sqn
  OBVIOUS
<1>2. /\ th[c].pc = "wait" /\ view' = [view EXCEPT ![c][n] = loc[n].id]
      /\ th' = [th EXCEPT ![c] = Idle] /\ loc' = loc /\ ~Waiting(c)
  BY <1>1 DEF OpenReturn
<1>3. n \in Sqns /\ loc[n] # NoLoc /\ In(c, n)
  BY <1>1, <1>2, ThreadFacts DEF ThreadGood, In, Joined
<1>4. th'[c] = Idle /\ \A d \in Sessions \ {c} : th'[d] = th[d]
  BY <1>2, ThreadChanged DEF StreamInv
<1>5. /\ view'[c][n] = loc[n].id /\ \A m \in Sqns \ {n} : view'[c][m] = view[c][m]
      /\ \A d \in Sessions \ {c}, m \in Sqns : view'[d][m] = view[d][m]
  BY <1>2, <1>3 DEF StreamInv, BaseInv
<1>6. loc[n].id # NoSegment
  <2>1. c \notin loc[n].waits
    BY <1>2, <1>3 DEF Waiting
  <2> QED
    BY <1>3, <2>1 DEF LeakInv, LeakOK
<1>7. th'[c].pc = "idle" /\ ~Joined(th'[c])
  BY <1>4, IdleFields DEF Joined
<1>8. LeakOK(c, n)'
  BY <1>2, <1>5, <1>6, <1>7 DEF LeakOK, In, Out
<1>9. ASSUME NEW m \in Sqns \ {n}
      PROVE  LeakOK(c, m)'
  <2>1. ~In(c, m) /\ ~In(c, m)'
    BY <1>1, <1>7 DEF In
  <2>2. Follows(c, m)
    BY <1>2, <1>5, <1>7, <2>1, FollowsCall DEF Leaving
  <2> QED
    BY <1>2, <2>2, LeakKept DEF LeakInv, Watched
<1> QED
  BY <1>2, <1>4, <1>5, <1>8, <1>9, LeakStep DEF Watched

\* open() takes a reference for the caller.
LEMMA OpenBeginLeaks ==
    ASSUME StreamInv, LeakInv, NEW c \in Sessions, NEW n \in Sqns, NEW scan \in BOOLEAN,
           OpenBegin(c, n, scan)
    PROVE  LeakInv'
<1>1. Began(c, n)
  BY OpenBeginFacts
<1>2. /\ th[c].pc = "idle" /\ th'[c].pc = "ahead" /\ th'[c].sqn = n
      /\ \A d \in Sessions \ {c} : th'[d] = th[d]
      /\ th'[c].handled => loc[n].count > 0
      /\ loc[n] # NoLoc /\ loc[n].stored /\ view' = view
  BY <1>1 DEF Began, Opens
<1>3. LocGood(loc[n], n, openList, tasks, Busy(n)) /\ loc[n] \in LocType
  BY <1>2, LocFacts
<1>4. loc[n].count \in Nat
  BY <1>3, LocFields
<1>5. \A m \in Sqns : ~In(c, m)
  BY <1>2 DEF In, Joined
<1>6. \A m \in Sqns : In(c, m)' => m = n /\ loc[n].count > 0
  BY <1>2 DEF In, Joined
<1>7. \A m \in Sqns \ {n} : Follows(c, m)
  BY <1>2, <1>5, <1>6, FollowsCall DEF Leaving
<1>8. CASE loc[n].count = 0
  <2>1. loc' = loc
    BY <1>1, <1>8 DEF Began
  <2>2. ~In(c, n)'
    BY <1>6, <1>8
  <2>3. Follows(c, n)
    BY <1>2, <1>5, <2>2, FollowsCall DEF Leaving
  <2> QED
    BY <1>2, <1>7, <2>1, <2>3, LeakFollows DEF Watched
<1>9. CASE loc[n].count > 0
  <2>1. PICK l : loc' = [loc EXCEPT ![n] = l] /\ Shared(loc[n], c, l)
    BY <1>1, <1>9 DEF Began
  <2>2. loc'[n] = l /\ \A m \in Sqns \ {n} : loc'[m] = loc[m]
    BY <2>1, LocChanged DEF StreamInv
  <2>3. ASSUME NEW d \in Sessions \ {c}
        PROVE  Watched(d, n)
    <3>1. d \in l.waits <=> d \in loc[n].waits
      BY <2>1 DEF Shared
    <3>2. CASE loc[n].prefetched
      <4>1. l.refs[d] = 0
        BY <2>1, <3>2 DEF Shared
      <4>2. ~In(d, n)
        BY <3>2, InFacts
      <4> QED
        BY <1>2, <2>2, <3>1, <4>1, <4>2 DEF Watched, NoneLeft
    <3>3. CASE ~loc[n].prefetched
      <4>1. /\ l.refs[d] = loc[n].refs[d] /\ l.id = loc[n].id /\ l.stored = loc[n].stored
            /\ ~l.prefetched
        BY <2>1, <3>3 DEF Shared
      <4>2. Alike(d, n)
        BY <1>2, <2>2, <3>1, <3>3, <4>1 DEF Alike
      <4> QED
        BY <4>2 DEF Watched
    <3> QED
      BY <3>2, <3>3
  <2>4. ASSUME NEW d \in Sessions \ {c}, NEW m \in Sqns
        PROVE  Watched(d, m)
    BY <2>2, <2>3 DEF Watched
  <2>5. LeakOK(c, n)'
    <3>1. In(c, n)'
      <4>1. th'[c].handled
        BY <1>1, <1>9 DEF Began, Opens
      <4> QED
        BY <1>2, <4>1 DEF In, Joined
    <3>2. ~Out(c, n)' /\ th'[c].pc # "gone"
      BY <1>2 DEF Out
    <3>3. l.id = NoSegment => c \in l.waits
      BY <2>1 DEF Shared
    <3> QED
      BY <2>2, <3>1, <3>2, <3>3 DEF LeakOK
  <2>6. ASSUME NEW m \in Sqns \ {n}
        PROVE  LeakOK(c, m)'
    BY <1>7, <2>2, LeakKept DEF LeakInv, Watched
  <2> QED
    BY <1>2, <2>4, <2>5, <2>6, LeakStep
<1> QED
  BY <1>4, <1>8, <1>9

\* A new segment has the reference of the session that maps it.
LEMMA AddLeaks ==
    ASSUME StreamInv, LeakInv, NEW c \in Sessions, AppendEnd(c) \/ AddEnd(c)
    PROVE  LeakInv'
<1>1. PICK n : n = th[c].sqn
  OBVIOUS
<1>2. PICK s : s = th[c].seg
  OBVIOUS
<1>3. PICK l : l = NewLoc(c, s)
  OBVIOUS
<1>4. /\ th[c].pc \in {"append", "add"} /\ AddSegmentLocation(c)
      /\ loc' = [loc EXCEPT ![n] = l] /\ view' = [view EXCEPT ![c][n] = s]
      /\ th' = [th EXCEPT ![c] = Idle]
  BY <1>1, <1>2, <1>3 DEF AppendEnd, AddEnd, AddSegmentLocation
<1>5. th[c].seg # NoSegment
  BY ThreadFacts DEF AppendEnd, AddEnd, ThreadGood
<1>6. n \in Sqns /\ s \in Segments /\ s # NoSegment /\ loc[n] = NoLoc
  BY <1>1, <1>2, <1>5, ThreadFacts, PoolAssumption DEF ThreadGood
<1>7. l.id = s /\ l.waits = {} /\ \A d \in Sessions \ {c} : l.refs[d] = 0
  BY <1>3 DEF NewLoc, NoRefs
<1>8. loc'[n] = l /\ \A m \in Sqns \ {n} : loc'[m] = loc[m]
  BY <1>4, <1>6, LocChanged DEF StreamInv
<1>9. th'[c] = Idle /\ \A d \in Sessions \ {c} : th'[d] = th[d]
  BY <1>4, ThreadChanged DEF StreamInv
<1>10. /\ view'[c][n] = s /\ \A m \in Sqns \ {n} : view'[c][m] = view[c][m]
       /\ \A d \in Sessions \ {c}, m \in Sqns : view'[d][m] = view[d][m]
  BY <1>4, <1>6 DEF StreamInv, BaseInv
<1>11. ASSUME NEW d \in Sessions \ {c}
       PROVE  \A m \in Sqns : Watched(d, m)
  <2>1. l.refs[d] = 0 /\ d \notin l.waits
    BY <1>7
  <2> QED
    BY <1>4, <1>6, <2>1, WatchedLoad
<1>12. th'[c].pc = "idle" /\ ~Joined(th'[c]) /\ ~Joined(th[c])
  BY <1>4, <1>9, IdleFields DEF Joined
<1>13. LeakOK(c, n)'
  BY <1>6, <1>7, <1>8, <1>10, <1>12 DEF LeakOK, In, Out
<1>14. ASSUME NEW m \in Sqns \ {n}
       PROVE  LeakOK(c, m)'
  <2>1. Follows(c, m)
    BY <1>4, <1>10, <1>12, FollowsCall DEF In, Leaving
  <2> QED
    BY <1>8, <2>1, LeakKept DEF LeakInv, Watched
<1> QED
  BY <1>9, <1>10, <1>11, <1>13, <1>14, LeakStep

\* What the references of d to n are after _close or a release by c
Ended(n, c) ==
    /\ \A m \in Sqns \ {n} : loc'[m] = loc[m]
    /\ \A d \in Sessions \ {c} : Watched(d, n)
    /\ \/ loc'[n] = NoLoc \/ loc'[n].refs[c] = 0
       \/ /\ loc'[n].id = NoSegment
          /\ ~loc'[n].stored \/ loc'[n].prefetched

\* A session has closed n, or dropped references to it.
LEMMA LeakClose ==
    ASSUME StreamInv, LeakInv, NEW c \in Sessions, NEW n \in Sqns, Ended(n, c),
           \A d \in Sessions \ {c} : th'[d] = th[d],
           \A d \in Sessions, m \in Sqns : d # c \/ m # n => view'[d][m] = view[d][m],
           \A m \in Sqns \ {n} : Follows(c, m), ~In(c, n)',
           th'[c].pc # "gone",
           Out(c, n)' => loc'[n] = NoLoc \/ loc'[n].refs[c] = 0 \/ c \in loc'[n].waits
    PROVE  LeakInv'
<1>1. LeakOK(c, n)'
  <2>1. CASE loc'[n] = NoLoc
    BY <2>1 DEF LeakOK
  <2>2. CASE loc'[n].refs[c] = 0
    <3>1. ~(loc'[n].refs[c] > 0)
      BY <2>2
    <3> QED
      BY <3>1 DEF LeakOK
  <2>3. CASE /\ loc'[n].id = NoSegment /\ ~(loc'[n].refs[c] = 0) /\ loc'[n] # NoLoc
             /\ ~loc'[n].stored \/ loc'[n].prefetched
    BY <2>3 DEF LeakOK
  <2> QED
    BY <2>1, <2>2, <2>3 DEF Ended
<1>2. ASSUME NEW m \in Sqns \ {n}
      PROVE  LeakOK(c, m)'
  BY LeakKept DEF LeakInv, Watched, Ended
<1>3. ASSUME NEW d \in Sessions \ {c}, NEW m \in Sqns
      PROVE  view'[d][m] = view[d][m] /\ Watched(d, m)
  BY DEF Ended, Watched
<1> QED
  BY <1>1, <1>2, <1>3, LeakStep

\* _close, for the only session that has a reference, or for the appender
LEMMA CloseEnds ==
    ASSUME StreamInv, LeakInv, NEW c \in Sessions, NEW n \in Sqns, loc[n] # NoLoc,
           ~In(c, n), \A d \in Sessions \ {c} : loc[n].stored => loc[n].refs[d] = 0,
           NEW waiter \in SUBSET {c}, CloseLocation(n, waiter)
    PROVE  /\ Ended(n, c)
           /\ c \in waiter => loc'[n] = NoLoc \/ loc'[n].refs[c] = 0 \/ c \in loc'[n].waits
<1>1. loc[n] \in LocType
  BY LocFacts
<1>2. loc[n].waits \in SUBSET Sessions /\ loc[n].refs[c] \in Nat
  BY <1>1, LocFields
<1>3. \E v : loc' = [loc EXCEPT ![n] = v]
  BY DEF CloseLocation, CloseInProgress, CloseRead, CloseWrite, CloseDrop
<1>4. \A m \in Sqns \ {n} : loc'[m] = loc[m]
  BY <1>3, LocChanged DEF StreamInv
<1>5. ASSUME NEW d \in Sessions, ~loc[n].stored
      PROVE  ~In(d, n)
  BY <1>5, InFacts
<1>6. PICK w : w = loc[n].waits \cup waiter
  OBVIOUS
<1>7. w \in SUBSET Sessions /\ \A d \in Sessions \ {c} : d \in w <=> d \in loc[n].waits
  BY <1>2, <1>6
<1>8. CASE CloseInProgress(n, waiter)
  <2>1. PICK v : v = Canceled(loc[n], w)
    OBVIOUS
  <2>2. /\ v.stored = loc[n].stored /\ v.id = loc[n].id /\ v.prefetched = loc[n].prefetched
        /\ v.refs = loc[n].refs /\ v.waits = w
    BY <1>1, <1>7, <2>1, CanceledFields
  <2>3. loc[n].id = NoSegment /\ loc' = [loc EXCEPT ![n] = v]
    BY <1>6, <1>8, <2>1 DEF CloseInProgress, Canceled
  <2>4. loc'[n] = v
    BY <2>3, LocChanged DEF StreamInv
  <2>5. \A d \in Sessions \ {c} : Watched(d, n)
    BY <1>7, <2>2, <2>4 DEF Watched, Alike
  <2>6. loc[n].refs[c] = 0 \/ ~loc[n].stored \/ loc[n].prefetched
    BY <1>2, <2>3 DEF LeakInv, LeakOK
  <2> QED
    BY <1>4, <1>6, <2>2, <2>3, <2>4, <2>5, <2>6 DEF Ended
<1>9. CASE CloseRead(n)
  <2>1. PICK v : v = Unreferenced(loc[n])
    OBVIOUS
  <2>2. loc[n].stored /\ loc' = [loc EXCEPT ![n] = v]
    BY <1>9, <2>1 DEF CloseRead
  <2>3. v.waits = loc[n].waits /\ \A d \in Sessions : v.refs[d] = 0
    BY <1>1, <2>1, UnreferencedFields
  <2>4. loc'[n] = v
    BY <2>2, LocChanged DEF StreamInv
  <2>5. ASSUME NEW d \in Sessions \ {c}
        PROVE  Watched(d, n)
    <3>1. loc[n].refs[d] = 0
      BY <2>2
    <3>2. ~In(d, n)
      BY <3>1, InFacts
    <3> QED
      BY <2>3, <2>4, <3>2 DEF Watched, NoneLeft
  <2> QED
    BY <1>4, <2>3, <2>4, <2>5 DEF Ended
<1>10. CASE CloseWrite(n, waiter)
  <2>1. PICK v : v = Written(loc[n], w)
    OBVIOUS
  <2>2. /\ v.stored = loc[n].stored /\ v.id = NoSegment
        /\ v.refs = loc[n].refs /\ v.waits = w
    BY <1>1, <1>7, <2>1, WrittenFields
  <2>3. loc' = [loc EXCEPT ![n] = v] /\ loc[n].id # NoSegment /\ ~loc[n].stored
    BY <1>6, <1>10, <2>1 DEF CloseWrite, Written
  <2>4. loc'[n] = v
    BY <2>3, LocChanged DEF StreamInv
  <2>5. \A d \in Sessions \ {c} : Watched(d, n)
    BY <1>5, <1>7, <2>2, <2>3, <2>4 DEF Watched, Submits
  <2> QED
    BY <1>4, <1>6, <2>2, <2>3, <2>4, <2>5 DEF Ended
<1>11. CASE CloseDrop(n)
  <2>1. loc' = [loc EXCEPT ![n] = NoLoc]
    BY <1>11 DEF CloseDrop
  <2>2. loc'[n] = NoLoc
    BY <2>1, LocChanged DEF StreamInv
  <2> QED
    BY <1>4, <2>2 DEF Ended, Watched
<1> QED
  BY <1>8, <1>9, <1>10, <1>11 DEF CloseLocation

\* References of c to n are dropped: what it leaves alone.
LEMMA ReleaseEnds ==
    ASSUME StreamInv, LeakInv, NEW c \in Sessions, NEW n \in Sqns, loc[n] # NoLoc,
           NEW k \in 1..loc[n].refs[c],
           loc' = [loc EXCEPT ![n] = Released(loc[n], c, k)]
    PROVE  /\ \A m \in Sqns \ {n} : loc'[m] = loc[m]
           /\ \A d \in Sessions \ {c} : Watched(d, n)
           /\ loc'[n] # NoLoc /\ loc'[n].refs[c] = loc[n].refs[c] - k
           /\ loc'[n].id = loc[n].id /\ loc'[n].waits = loc[n].waits
           /\ loc'[n].stored = loc[n].stored /\ loc'[n].prefetched = loc[n].prefetched
<1>1. PICK v : v = Released(loc[n], c, k)
  OBVIOUS
<1>2. loc[n] \in LocType /\ loc[n].count = SumOf(loc[n].refs)
  BY LocFacts
<1>3. /\ v \in LocType /\ v.refs[c] = loc[n].refs[c] - k
      /\ \A d \in Sessions \ {c} : v.refs[d] = loc[n].refs[d]
      /\ v.stored = loc[n].stored /\ v.id = loc[n].id
      /\ v.prefetched = loc[n].prefetched /\ v.waits = loc[n].waits
  BY <1>1, <1>2, ReleasedFields
<1>4. loc'[n] = v /\ (\A m \in Sqns \ {n} : loc'[m] = loc[m]) /\ v # NoLoc
  BY <1>1, <1>3, LocChanged, LocationAssumption DEF StreamInv
<1>5. \A d \in Sessions \ {c} : Watched(d, n)
  BY <1>3, <1>4 DEF Watched, Alike
<1> QED
  BY <1>3, <1>4, <1>5

\* append() releases the reference of the segment before it.
LEMMA AppendBeginLeaks ==
    ASSUME StreamInv, LeakInv, NEW c \in Sessions, AppendBegin(c)
    PROVE  LeakInv'
<1>1. PICK t : t = [th[c] EXCEPT !.pc = "append"]
  OBVIOUS
<1>2. th[c].pc = "idle" /\ th' = [th EXCEPT ![c] = t]
  BY <1>1 DEF AppendBegin
<1>3. t.pc = "append"
  BY <1>1, ThreadFacts DEF ThreadType
<1>4. Goes(t, c)
  BY <1>2, <1>3 DEF Goes, Joined, Leaving
<1>5. CASE lastAppend = NoSqn
  <2>1. UNCHANGED <<loc, view>>
    BY <1>5 DEF AppendBegin
  <2> QED
    BY <1>2, <1>4, <2>1, LeakThread
<1>6. CASE lastAppend # NoSqn
  <2>1. PICK n : n = lastAppend
    OBVIOUS
  <2>2. PICK w : w = {}
    OBVIOUS
  <2>3. CloseLocation(n, w) /\ view' = [view EXCEPT ![c][n] = NoSegment]
    BY <1>6, <2>1, <2>2, Zenon DEF AppendBegin
  <2>4. n \in Sqns /\ loc[n] # NoLoc /\ ~loc[n].stored /\ w \in SUBSET {c}
    BY <1>6, <2>1, <2>2 DEF StreamInv, BaseInv, AppendInv
  <2>5. \A m \in Sqns : ~In(c, m)
    BY <1>2 DEF In, Joined
  <2>6. Ended(n, c)
    BY <2>3, <2>4, <2>5, CloseEnds
  <2>7. th'[c] = t /\ \A d \in Sessions \ {c} : th'[d] = th[d]
    BY <1>2, ThreadChanged DEF StreamInv
  <2>8. \A d \in Sessions, m \in Sqns : d # c \/ m # n => view'[d][m] = view[d][m]
    BY <2>3, <2>4 DEF StreamInv, BaseInv
  <2>9. (\A m \in Sqns : ~In(c, m)') /\ ~Out(c, n)' /\ th'[c].pc = "append"
    BY <1>3, <2>7 DEF In, Joined, Out
  <2>10. ASSUME NEW m \in Sqns \ {n}
         PROVE  Follows(c, m)
    BY <1>2, <2>5, <2>8, <2>9, FollowsCall DEF Leaving
  <2> QED
    BY <2>4, <2>6, <2>7, <2>8, <2>9, <2>10, LeakClose
<1> QED
  BY <1>5, <1>6

\* close() releases the references of the session.
LEMMA CloseLeaks ==
    ASSUME StreamInv, LeakInv, NEW c \in Sessions, NEW n \in Sqns, Close(c, n)
    PROVE  LeakInv'
<1>1. PICK s : s = IF loc[n].refs[c] > 1 THEN view[c][n] ELSE NoSegment
  OBVIOUS
<1>2. /\ th[c].pc = "idle" /\ CloseSqn(c, n) /\ th' = th /\ view[c][n] # NoSegment
      /\ view' = [view EXCEPT ![c][n] = s]
  BY <1>1 DEF Close
<1>3. loc[n] # NoLoc /\ loc[n].refs[c] > 0
  BY <1>2 DEF CloseSqn
<1>4. loc[n] \in LocType /\ loc[n].count = SumOf(loc[n].refs)
  BY <1>3, LocFacts
<1>5. loc[n].refs[c] \in Nat
  BY <1>4, LocFields
<1>6. /\ view'[c][n] = s
      /\ \A d \in Sessions, m \in Sqns : d # c \/ m # n => view'[d][m] = view[d][m]
  BY <1>2 DEF StreamInv, BaseInv
<1>7. \A m \in Sqns : ~In(c, m) /\ ~In(c, m)'
  BY <1>2 DEF In, Joined
<1>8. ASSUME NEW m \in Sqns \ {n}
      PROVE  Follows(c, m)
  BY <1>2, <1>6, <1>7, FollowsCall DEF Leaving
<1>9. ~Out(c, n)' /\ th'[c].pc # "gone"
  BY <1>2 DEF Out
<1>10. CASE loc[n].count = 1
  <2>1. PICK w : w = {}
    OBVIOUS
  <2>2. w \in SUBSET {c} /\ CloseLocation(n, w)
    BY <1>2, <1>10, <2>1 DEF CloseSqn
  <2>3. \A d \in Sessions \ {c} : loc[n].refs[d] = 0
    BY <1>3, <1>4, <1>10, OnlyReferences
  <2>4. Ended(n, c)
    BY <1>3, <1>7, <2>2, <2>3, CloseEnds
  <2> QED
    BY <1>2, <1>6, <1>7, <1>8, <1>9, <2>4, LeakClose
<1>11. CASE loc[n].count # 1
  <2>1. loc' = [loc EXCEPT ![n] = Released(loc[n], c, 1)] /\ 1 \in 1..loc[n].refs[c]
    <3>1. loc' = [loc EXCEPT ![n].count = @ - 1, ![n].refs[c] = @ - 1]
      BY <1>2, <1>11 DEF CloseSqn
    <3>2. loc' = [loc EXCEPT ![n] = Released(loc[n], c, 1)]
      BY <3>1 DEF Released
    <3>3. 1 \in 1..loc[n].refs[c]
      BY <1>3, <1>5
    <3> QED
      BY <3>2, <3>3
  <2>2. /\ \A m \in Sqns \ {n} : loc'[m] = loc[m]
        /\ \A d \in Sessions \ {c} : Watched(d, n)
        /\ loc'[n] # NoLoc /\ loc'[n].refs[c] = loc[n].refs[c] - 1
        /\ loc'[n].id = loc[n].id /\ loc'[n].waits = loc[n].waits
        /\ loc'[n].stored = loc[n].stored /\ loc'[n].prefetched = loc[n].prefetched
    BY <1>3, <2>1, ReleaseEnds
  <2>3. CASE loc[n].refs[c] = 1
    <3>1. Ended(n, c)
      BY <2>2, <2>3 DEF Ended
    <3> QED
      BY <1>2, <1>6, <1>7, <1>8, <1>9, <3>1, LeakClose
  <2>4. CASE loc[n].refs[c] # 1
    <3>1. s = view[c][n]
      BY <1>1, <1>3, <1>5, <2>4
    <3>2. LeakOK(c, n)'
      BY <1>2, <1>3, <1>6, <1>7, <1>9, <2>2, <3>1 DEF LeakInv, LeakOK
    <3>3. ASSUME NEW m \in Sqns \ {n}
          PROVE  LeakOK(c, m)'
      BY <1>8, <2>2, LeakKept DEF LeakInv, Watched
    <3>4. \A d \in Sessions \ {c}, m \in Sqns : view'[d][m] = view[d][m] /\ Watched(d, m)
      BY <1>6, <2>2 DEF Watched
    <3> QED
      BY <1>2, <3>2, <3>3, <3>4, LeakStep
  <2> QED
    BY <2>3, <2>4
<1> QED
  BY <1>10, <1>11

\* A session that detaches has a reference only to the segments it will close.
LEMMA DetachBeginLeaks ==
    ASSUME StreamInv, LeakInv, NEW c \in Sessions, DetachBegin(c)
    PROVE  LeakInv'
<1>1. PICK t : t = [Idle EXCEPT !.pc = "detach", !.todo = openList]
  OBVIOUS
<1>2. /\ th[c].pc = "idle" /\ th' = [th EXCEPT ![c] = t] /\ loc' = loc
      /\ view' = [view EXCEPT ![c] = [n \in Sqns |-> NoSegment]]
  BY <1>1 DEF DetachBegin
<1>3. t.pc = "detach" /\ t.todo = openList
  BY <1>1 DEF Idle
<1>4. th'[c] = t /\ \A d \in Sessions \ {c} : th'[d] = th[d]
  BY <1>2, ThreadChanged DEF StreamInv
<1>5. \A d \in Sessions \ {c}, m \in Sqns : view'[d][m] = view[d][m]
  BY <1>2 DEF StreamInv, BaseInv
<1>6. ASSUME NEW n \in Sqns
      PROVE  LeakOK(c, n)'
  <2>1. SUFFICES ASSUME loc[n] # NoLoc
                 PROVE  LeakOK(c, n)'
    BY <1>2 DEF LeakOK
  <2>2. /\ loc[n] \in LocType /\ loc[n].count = SumOf(loc[n].refs)
        /\ n \in openList <=> loc[n].count > 0
    BY <2>1, LocFacts DEF LocGood
  <2>3. loc[n].count \in Nat /\ loc[n].refs[c] \in Nat
    BY <2>2, LocFields
  <2>4. loc[n].refs[c] > 0 => n \in openList
    <3>1. loc[n].count = 0 => loc[n].refs[c] = 0
      BY <2>2, OnlyReferences
    <3> QED
      BY <2>2, <2>3, <3>1
  <2>5. ~In(c, n) /\ ~In(c, n)' /\ th'[c].pc = "detach"
    BY <1>2, <1>3, <1>4 DEF In, Joined
  <2>6. loc[n].refs[c] > 0 => Closing(c, n)' /\ ~Out(c, n)'
    BY <1>3, <1>4, <2>4 DEF Closing, Out
  <2>7. loc[n].refs[c] > 0 /\ loc[n].id = NoSegment => ~loc[n].stored \/ loc[n].prefetched
    BY <2>1, <2>5 DEF LeakInv, LeakOK
  <2> QED
    BY <1>2, <2>5, <2>6, <2>7 DEF LeakOK
<1> QED
  BY <1>2, <1>4, <1>5, <1>6, LeakStep DEF Watched

\* The detach releases the references of the session to one segment.
LEMMA DetachStepLeaks ==
    ASSUME StreamInv, LeakInv, NEW c \in Sessions, DetachStep(c)
    PROVE  LeakInv'
<1>1. th[c].pc = "detach" /\ view' = view
  BY DEF DetachStep
<1>2. PICK n \in th[c].todo :
          /\ th' = [th EXCEPT ![c].todo = @ \ {n}]
          /\ IF loc[n].refs[c] = 0
             THEN UNCHANGED <<pool, loc, openList, tasks, lastAppend>>
             ELSE IF loc[n].count = loc[n].refs[c]
             THEN CloseLocation(n, {c})
             ELSE /\ loc' = [loc EXCEPT ![n].count = @ - loc[n].refs[c],
                                        ![n].refs[c] = 0]
                  /\ UNCHANGED <<pool, openList, tasks, lastAppend>>
  BY DEF DetachStep
<1>3. PICK t : t = [th[c] EXCEPT !.todo = th[c].todo \ {n}]
  OBVIOUS
<1>4. th' = [th EXCEPT ![c] = t]
  BY <1>2, <1>3
<1>5. t.pc = "detach" /\ t.todo = th[c].todo \ {n}
  BY <1>1, <1>3, ThreadFacts DEF ThreadType
<1>6. th'[c] = t /\ \A d \in Sessions \ {c} : th'[d] = th[d]
  BY <1>4, ThreadChanged DEF StreamInv
<1>7. n \in Sqns /\ n \in openList
  BY <1>1, <1>2, ThreadFacts DEF ThreadGood, StreamInv, BaseInv
<1>8. loc[n] # NoLoc
  BY <1>7 DEF StreamInv, LocInv, LocOK
<1>9. loc[n] \in LocType /\ loc[n].count = SumOf(loc[n].refs)
  BY <1>7, <1>8, LocFacts
<1>10. loc[n].refs[c] \in Nat
  BY <1>9, LocFields
<1>11. \A m \in Sqns : ~In(c, m) /\ ~In(c, m)'
  BY <1>1, <1>5, <1>6 DEF In, Joined
<1>12. ASSUME NEW m \in Sqns \ {n}
       PROVE  Follows(c, m)
  BY <1>1, <1>5, <1>6, <1>11 DEF Follows, Closing, Out
<1>13. th'[c].pc # "gone"
  BY <1>5, <1>6
<1>14. ASSUME Ended(n, c),
              Out(c, n)' => loc'[n] = NoLoc \/ loc'[n].refs[c] = 0 \/ c \in loc'[n].waits
       PROVE  LeakInv'
  BY <1>1, <1>6, <1>7, <1>11, <1>12, <1>13, <1>14, LeakClose
<1>15. CASE loc[n].refs[c] = 0
  <2>1. loc' = loc
    BY <1>2, <1>15
  <2>2. Ended(n, c)
    BY <1>15, <2>1 DEF Ended, Watched
  <2> QED
    BY <1>14, <1>15, <2>1, <2>2
<1>16. CASE loc[n].refs[c] # 0 /\ loc[n].count = loc[n].refs[c]
  <2>1. PICK w : w = {c}
    OBVIOUS
  <2>2. w \in SUBSET {c} /\ c \in w /\ CloseLocation(n, w)
    BY <1>2, <1>16, <2>1
  <2>3. \A d \in Sessions \ {c} : loc[n].refs[d] = 0
    BY <1>9, <1>16, OnlyReferences
  <2>4. /\ Ended(n, c)
        /\ loc'[n] = NoLoc \/ loc'[n].refs[c] = 0 \/ c \in loc'[n].waits
    BY <1>7, <1>8, <1>11, <2>2, <2>3, CloseEnds
  <2> QED
    BY <1>14, <2>4
<1>17. CASE loc[n].refs[c] # 0 /\ loc[n].count # loc[n].refs[c]
  <2>1. PICK k : k = loc[n].refs[c]
    OBVIOUS
  <2>2. k \in 1..loc[n].refs[c] /\ k - k = 0
    BY <1>10, <1>17, <2>1
  <2>3. loc' = [loc EXCEPT ![n].count = @ - k, ![n].refs[c] = 0]
    BY <1>2, <1>17, <2>1, Zenon
  <2>4. [loc[n].refs EXCEPT ![c] = 0] = [loc[n].refs EXCEPT ![c] = @ - k]
    BY <2>1, <2>2
  <2>5. loc' = [loc EXCEPT ![n] = Released(loc[n], c, k)]
    BY <2>3, <2>4 DEF Released
  <2>6. /\ \A m \in Sqns \ {n} : loc'[m] = loc[m]
        /\ \A d \in Sessions \ {c} : Watched(d, n)
        /\ loc'[n].refs[c] = loc[n].refs[c] - k
    BY <1>7, <1>8, <2>2, <2>5, ReleaseEnds
  <2>7. loc'[n].refs[c] = 0
    BY <2>1, <2>2, <2>6
  <2>8. Ended(n, c)
    BY <2>6, <2>7 DEF Ended
  <2> QED
    BY <1>14, <2>7, <2>8
<1> QED
  BY <1>15, <1>16, <1>17

\* At the end of a detach no reference of the session is left.
LEMMA DetachEndLeaks ==
    ASSUME StreamInv, LeakInv, NEW c \in Sessions, DetachEnd(c) \/ DetachDone(c)
    PROVE  LeakInv'
<1>1. UNCHANGED <<loc, view>>
  BY DEF DetachEnd, DetachDone
<1>2. ASSUME NEW pc \in {"drain", "gone"}, th' = [th EXCEPT ![c].pc = pc]
      PROVE  /\ th'[c].pc = pc /\ \A d \in Sessions \ {c} : th'[d] = th[d]
             /\ \A m \in Sqns : ~In(c, m)' /\ ~Closing(c, m)' /\ Out(c, m)'
  <2>1. PICK t : t = [th[c] EXCEPT !.pc = pc]
    OBVIOUS
  <2>2. t.pc = pc
    BY <2>1, ThreadFacts DEF ThreadType
  <2>3. th'[c] = t /\ \A d \in Sessions \ {c} : th'[d] = th[d]
    BY <1>2, <2>1, ThreadChanged DEF StreamInv
  <2> QED
    BY <2>2, <2>3 DEF In, Closing, Out, Joined
<1>3. CASE DetachEnd(c)
  <2>1. th[c].pc = "detach" /\ th[c].todo = {} /\ th' = [th EXCEPT ![c].pc = "drain"]
    BY <1>3 DEF DetachEnd, Goto
  <2>2. /\ th'[c].pc = "drain" /\ \A d \in Sessions \ {c} : th'[d] = th[d]
        /\ \A m \in Sqns : ~In(c, m)' /\ ~Closing(c, m)' /\ Out(c, m)'
    BY <1>2, <2>1
  <2>3. \A m \in Sqns : Follows(c, m)
    BY <1>1, <2>1, <2>2 DEF Follows, In, Joined, Closing, Out
  <2> QED
    BY <1>1, <2>2, <2>3, LeakFollows DEF Watched
<1>4. CASE DetachDone(c)
  <2>1. th[c].pc = "drain" /\ th' = [th EXCEPT ![c].pc = "gone"] /\ ~Waiting(c)
    BY <1>4 DEF DetachDone, Goto
  <2>2. /\ th'[c].pc = "gone" /\ \A d \in Sessions \ {c} : th'[d] = th[d]
        /\ \A m \in Sqns : ~In(c, m)' /\ ~Closing(c, m)' /\ Out(c, m)'
    BY <1>2, <2>1
  <2>3. ASSUME NEW m \in Sqns
        PROVE  LeakOK(c, m)'
    <3>1. ~In(c, m) /\ ~Closing(c, m) /\ Out(c, m)
      BY <2>1 DEF In, Joined, Closing, Out
    <3>2. loc[m] # NoLoc => c \notin loc[m].waits
      BY <2>1 DEF Waiting
    <3>3. LeakOK(c, m)
      BY DEF LeakInv
    <3> QED
      BY <1>1, <2>2, <3>1, <3>2, <3>3 DEF LeakOK
  <2> QED
    BY <1>1, <2>2, <2>3, LeakStep DEF Watched
<1> QED
  BY <1>3, <1>4

\* The end of a load or of a write: no reference is leaked.
LEMMA WorkerLeaks ==
    ASSUME StreamInv, LeakInv, NEW n \in Sqns, Worker(n)
    PROVE  LeakInv'
<1>1. ASSUME NEW kind \in {"read", "write"}, TaskEnds(kind, n),
             \A d \in Sessions : Watched(d, n),
             \E v : loc' = [loc EXCEPT ![n] = v]
      PROVE  LeakInv'
  <2>1. th' = th /\ view' = view
    BY <1>1 DEF TaskEnds
  <2>2. \A m \in Sqns \ {n} : loc'[m] = loc[m]
    BY <1>1, LocChanged DEF StreamInv
  <2>3. \A d \in Sessions, m \in Sqns : Watched(d, m)
    BY <1>1, <2>2 DEF Watched
  <2>4. PICK c \in Sessions \cup {NoSession} : c = NoSession
    OBVIOUS
  <2>5. c \notin Sessions
    BY <2>4, StreamAssumption
  <2> QED
    BY <2>1, <2>3, <2>5, LeakFollows
<1>2. CASE WriteOk(n)
  <2>1. PICK kind \in {"read", "write"} : kind = "write"
    OBVIOUS
  <2>2. TaskDone(kind, n)
    BY <1>2, <2>1 DEF WriteOk
  <2>3. loc[n] \in LocType /\ ~loc[n].stored
    BY <2>1, <2>2, TaskFacts
  <2>4. PICK v : v = Encoded(loc[n])
    OBVIOUS
  <2>5. loc' = [loc EXCEPT ![n] = v]
    BY <1>2, <2>4 DEF WriteOk, Encoded
  <2>6. v.waits = {} /\ \A d \in Sessions : v.refs[d] = 0
    BY <2>3, <2>4, EncodedFields
  <2>7. loc'[n] = v
    BY <2>5, LocChanged DEF StreamInv
  <2>8. ASSUME NEW d \in Sessions
        PROVE  Watched(d, n)
    <3>1. ~In(d, n)
      BY <2>3, InFacts
    <3> QED
      BY <2>6, <2>7, <3>1 DEF Watched, NoneLeft
  <2> QED
    BY <1>1, <2>2, <2>5, <2>8, TaskEnding
<1>3. CASE WriteFail(n)
  <2>1. PICK kind \in {"read", "write"} : kind = "write"
    OBVIOUS
  <2>2. TaskDone(kind, n) /\ loc' = [loc EXCEPT ![n] = NoLoc]
    BY <1>3, <2>1 DEF WriteFail
  <2>3. loc'[n] = NoLoc
    BY <2>2, LocChanged DEF StreamInv
  <2> QED
    BY <1>1, <2>2, <2>3, TaskEnding DEF Watched
<1>4. CASE ReadOk(n)
  <2>1. PICK kind \in {"read", "write"} : kind = "read"
    OBVIOUS
  <2>2. TaskDone(kind, n)
    BY <1>4, <2>1 DEF ReadOk
  <2>3. /\ loc[n] # NoLoc /\ loc[n] \in LocType /\ loc[n].count = SumOf(loc[n].refs)
        /\ LocGood(loc[n], n, openList, tasks, Busy(n))
        /\ loc[n].stored /\ loc[n].sideId # NoSegment /\ loc[n].id = NoSegment
    BY <2>1, <2>2, TaskFacts
  <2>4. PICK v : v = LoadedLoc(loc[n])
    OBVIOUS
  <2>5. loc' = [loc EXCEPT ![n] = v]
    BY <1>4, <2>4 DEF ReadOk
  <2>6. loc'[n] = v
    BY <2>5, LocChanged DEF StreamInv
  <2>7. /\ v.waits = {}
        /\ loc[n].cancel => \A d \in Sessions : v.refs[d] = 0
        /\ ~loc[n].cancel => v.refs = loc[n].refs /\ v.id = loc[n].sideId
    BY <2>3, <2>4, LoadedFields
  <2>8. ASSUME NEW d \in Sessions
        PROVE  Watched(d, n)
    <3>1. CASE loc[n].cancel
      <4>1. ~In(d, n)
        BY <3>1, InFacts
      <4> QED
        BY <2>6, <2>7, <3>1, <4>1 DEF Watched, NoneLeft
    <3>2. CASE ~loc[n].cancel
      <4>1. ~loc[n].prefetched
        BY <2>3, <3>2 DEF LocGood
      <4>2. loc[n].refs[d] > 0 => In(d, n)
        BY <2>3, <4>1 DEF LeakInv, LeakOK
      <4> QED
        BY <2>3, <2>6, <2>7, <3>2, <4>2 DEF Watched, Loads
    <3> QED
      BY <3>1, <3>2
  <2> QED
    BY <1>1, <2>2, <2>5, <2>8, TaskEnding
<1>5. CASE ReadFail(n)
  <2>1. PICK kind \in {"read", "write"} : kind = "read"
    OBVIOUS
  <2>2. TaskEnds(kind, n) /\ loc' = loc
    BY <1>5, <2>1, TaskEnding DEF ReadFail
  <2>3. loc' = [loc EXCEPT ![n] = loc[n]]
    BY <2>2 DEF StreamInv, BaseInv
  <2> QED
    BY <1>1, <2>2, <2>3 DEF Watched
<1> QED
  BY <1>2, <1>3, <1>4, <1>5 DEF Worker

\* A new stream has no reference.
LEMMA LeakInit ==
    ASSUME Init
    PROVE  LeakInv
<1> SUFFICES ASSUME NEW c \in Sessions, NEW n \in Sqns, loc[n] # NoLoc
             PROVE  LeakOK(c, n)
  BY DEF LeakInv, LeakOK
<1>1. loc[n] = StoredLoc /\ th[c] = Idle
  BY DEF Init
<1>2. loc[n].refs[c] = 0
  BY <1>1 DEF StoredLoc, NoRefs
<1>3. ~In(c, n) /\ th[c].pc # "gone"
  BY <1>1, IdleFields DEF In, Joined
<1> QED
  BY <1>2, <1>3 DEF LeakOK

\* Every step keeps LeakInv, if no load is canceled.
LEMMA LeakNext ==
    ASSUME StreamInv, PoolInv, LeakInv, ~CancelLoads, [Next]_vars
    PROVE  LeakInv'
<1>1. ASSUME NEW c \in Sessions, Call(c)
      PROVE  LeakInv'
  <2>1. CASE AppendBegin(c)
    BY <2>1, AppendBeginLeaks
  <2>2. ASSUME NEW n \in Sqns, AddRequest(c, n)
        PROVE  LeakInv'
    BY <2>2, QuietLeaks
  <2>3. ASSUME NEW n \in Sqns, Close(c, n)
        PROVE  LeakInv'
    BY <2>3, CloseLeaks
  <2>4. ASSUME NEW n \in Sqns, NEW scan \in BOOLEAN, OpenBegin(c, n, scan)
        PROVE  LeakInv'
    BY <2>4, OpenBeginLeaks
  <2>5. ~CloseLoading(c)
    BY DEF CloseLoading
  <2>6. CASE DetachBegin(c)
    BY <2>6, DetachBeginLeaks
  <2> QED
    BY <1>1, <2>1, <2>2, <2>3, <2>4, <2>5, <2>6 DEF Call
<1>2. ASSUME NEW c \in Sessions, ThreadStep(c)
      PROVE  LeakInv'
  <2>1. CASE AppendRequest(c)
    BY <2>1, QuietLeaks
  <2>2. CASE AppendEnd(c) \/ AddEnd(c)
    BY <2>2, AddLeaks
  <2>3. CASE AheadSkip(c) \/ AheadCrash(c) \/ AheadDone(c)
    BY <2>3, QuietLeaks
  <2>4. CASE AheadBegin(c) \/ OpenRead(c)
    BY <2>4, OpenCallLeaks
  <2>5. CASE AheadEnd(c)
    BY <2>5, AheadEndLeaks
  <2>6. CASE OpenFail(c)
    BY <2>6, OpenFailLeaks
  <2>7. CASE OpenEnd(c)
    BY <2>7, OpenEndLeaks
  <2>8. CASE OpenReturn(c)
    BY <2>8, OpenReturnLeaks
  <2>9. CASE DetachStep(c)
    BY <2>9, DetachStepLeaks
  <2>10. CASE DetachEnd(c) \/ DetachDone(c)
    BY <2>10, DetachEndLeaks
  <2> QED
    BY <1>2, <2>1, <2>2, <2>3, <2>4, <2>5, <2>6, <2>7, <2>8, <2>9, <2>10 DEF ThreadStep
<1>3. ASSUME NEW n \in Sqns, Worker(n)
      PROVE  LeakInv'
  BY <1>3, WorkerLeaks
<1>4. CASE UNCHANGED streamVars
  <2>1. UNCHANGED <<loc, th, view>>
    BY <1>4 DEF streamVars
  <2> QED
    BY <2>1 DEF LeakInv, LeakOK, In, Closing, Out, Joined
<1> QED
  BY <1>1, <1>2, <1>3, <1>4 DEF Next, Spurious, vars

\* A stream whose opens are not canceled
LeaksHold == StreamAndPool /\ LeakInv

\* If no load is canceled, LeakInv holds in all states.
LEMMA LeaksInvariant ==
    ASSUME ~CancelLoads
    PROVE  Spec => []LeaksHold
<1>1. Init => LeakInv
  BY LeakInit
<1>2. StreamAndPool /\ LeakInv /\ [Next]_vars => LeakInv'
  BY LeakNext DEF StreamAndPool
<1> QED
  BY <1>1, <1>2, InductiveInvariant, PTL DEF Spec, LeaksHold

\* A session that is in no call has no reference to a segment that it does not
\* have mapped: whoever opens a segment can close it.
THEOREM NothingLeaks ==
    ASSUME ~CancelLoads
    PROVE  Spec => []NoLeakedReference
<1>1. LeaksHold => NoLeakedReference
  <2> SUFFICES ASSUME LeaksHold, NEW c \in Sessions, NEW n \in Sqns, Allocated(n),
                      loc[n].id # NoSegment, loc[n].refs[c] > 0
               PROVE  \/ view[c][n] # NoSegment
                      \/ th[c].pc \in {"ahead", "aheadEnd", "wait"} /\ th[c].sqn = n
                      \/ th[c].pc = "detach"
    BY DEF NoLeakedReference
  <2>1. LeakOK(c, n) /\ loc[n] # NoLoc
    BY DEF LeaksHold, LeakInv, Allocated
  <2>2. view[c][n] # NoSegment \/ In(c, n) \/ Closing(c, n)
    BY <2>1 DEF LeakOK
  <2> QED
    BY <2>2 DEF In, Closing, Joined
<1> QED
  BY <1>1, LeaksInvariant, PTL

\* A session that has detached leaves no reference and no view behind.
THEOREM DetachLeavesNothing ==
    ASSUME ~CancelLoads
    PROVE  Spec => []DetachedClean
<1>1. LeaksHold => DetachedClean
  <2> SUFFICES ASSUME LeaksHold, NEW c \in Sessions, th[c].pc = "gone",
                      NEW n \in Sqns, Allocated(n)
               PROVE  loc[n].refs[c] = 0 /\ c \notin loc[n].waits
    BY DEF DetachedClean
  <2>1. LeakOK(c, n) /\ loc[n] # NoLoc /\ StreamInv
    BY DEF LeaksHold, LeakInv, Allocated, StreamAndPool
  <2>2. loc[n].refs[c] \in Nat
    <3>1. loc[n] \in LocType
      BY <2>1, LocFacts
    <3> QED
      BY <3>1, LocFields
  <2>3. c \notin loc[n].waits /\ ~(loc[n].refs[c] > 0)
    BY <2>1 DEF LeakOK, Out
  <2> QED
    BY <2>2, <2>3
<1> QED
  BY <1>1, LeaksInvariant, PTL

=============================================================================

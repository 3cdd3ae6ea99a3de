---------------------------- MODULE KitsProofs -----------------------------
(* Proofs about NodeKits: for any wells, meshes of elements, legends, axes,  *)
(* trees of objects and pies, and any number of them.                        *)
EXTENDS NodeKits, FiniteSetTheorems, WellFoundedInduction, TLAPS

(* Numbers up to n, one after the other.                                    *)
LEMMA UpTo ==
  ASSUME NEW n \in Nat, NEW T, 0 \in T, \A i \in 1..n : i - 1 \in T => i \in T
  PROVE  0..n \subseteq T
  <1> DEFINE S == (0..n) \ T
  <1>1. ASSUME S # {} PROVE FALSE
    <2>1. PICK m \in S : \A y \in S : ~(<<y, m>> \in OpToRel(<, Nat))
      <3>1. S \subseteq Nat
        OBVIOUS
      <3> HIDE DEF S
      <3> QED
        BY <1>1, <3>1, WFMin, NatLessThanWellFounded
    <2>2. m \in 1..n /\ m \in Nat /\ m - 1 \in Nat /\ m - 1 \in 0..n
      OBVIOUS
    <2>3. <<m - 1, m>> \in OpToRel(<, Nat)
      BY <2>2 DEF OpToRel
    <2>4. m - 1 \in T
      BY <2>1, <2>2, <2>3
    <2> QED
      BY <2>2, <2>4
  <1> QED
    BY <1>1

(* A loop that runs n times has a value after each of its steps.            *)
Loops(f, n, base, step) == f[0] = base /\ \A i \in 1..n : f[i] = step[i][f[i - 1]]

LEMMA LoopRuns ==
  ASSUME NEW n \in Nat, NEW S, NEW base \in S, NEW step \in [1..n -> [S -> S]]
  PROVE  \E f \in [0..n -> S] : Loops(f, n, base, step)
  <1> DEFINE Runs(m, f) == f[0] = base /\ \A i \in 1..m : f[i] = step[i][f[i - 1]]
             T == {m \in 0..n : \E f \in [0..m -> S] : Runs(m, f)}
  <1>1. 0 \in T
    <2> DEFINE f == [i \in 0..0 |-> base]
    <2>1. f \in [0..0 -> S] /\ Runs(0, f)
      OBVIOUS
    <2> HIDE DEF f
    <2>2. \E h \in [0..0 -> S] : Runs(0, h)
      BY <2>1
    <2> HIDE DEF Runs
    <2> QED
      BY <2>2
  <1>2. ASSUME NEW m \in 1..n, m - 1 \in T PROVE m \in T
    <2>1. PICK f \in [0..(m - 1) -> S] : Runs(m - 1, f)
      BY <1>2
    <2> DEFINE g == [i \in 0..m |-> IF i = m THEN step[m][f[m - 1]] ELSE f[i]]
    <2>2. m - 1 \in 0..(m - 1) /\ step[m][f[m - 1]] \in S
      OBVIOUS
    <2>3. g \in [0..m -> S]
      BY <2>2
    <2>4. Runs(m, g)
      <3>1. g[0] = base
        BY <2>1
      <3>2. ASSUME NEW i \in 1..m PROVE g[i] = step[i][g[i - 1]]
        <4>1. g[i - 1] = f[i - 1] /\ i - 1 \in 0..(m - 1)
          OBVIOUS
        <4>2. CASE i = m
          BY <4>1, <4>2
        <4>3. CASE i # m
          <5>1. i \in 1..(m - 1) /\ g[i] = f[i]
            BY <4>3
          <5> QED
            BY <5>1, <4>1, <2>1
        <4> QED
          BY <4>2, <4>3
      <3> QED
        BY <3>1, <3>2
    <2> HIDE DEF g
    <2>5. \E h \in [0..m -> S] : Runs(m, h)
      BY <2>3, <2>4
    <2> HIDE DEF Runs
    <2> QED
      BY <2>5
  <1> HIDE DEF T
  <1>3. n \in T
    <2>1. 0..n \subseteq T
      BY <1>1, <1>2, UpTo
    <2> QED
      BY <2>1
  <1> QED
    BY <1>3 DEF T, Loops

(* A set of numbers that is not empty has a least one, and one that is      *)
(* bounded a greatest.                                                      *)
LEMMA Least ==
  ASSUME NEW T \in SUBSET Nat, T # {}
  PROVE  Min(T) \in T /\ \A y \in T : Min(T) <= y
  <1>1. PICK m \in T : \A y \in T : ~(<<y, m>> \in OpToRel(<, Nat))
    BY WFMin, NatLessThanWellFounded
  <1>2. ASSUME NEW y \in T PROVE m <= y
    <2>1. y \in Nat /\ m \in Nat
      OBVIOUS
    <2>2. ~(y < m)
      BY <1>1, <2>1 DEF OpToRel
    <2> QED
      BY <2>1, <2>2
  <1> QED
    BY <1>2 DEF Min

LEMMA Greatest ==
  ASSUME NEW n \in Int, NEW T \in SUBSET Int, T # {}, \A y \in T : y <= n
  PROVE  Max(T) \in T /\ \A y \in T : y <= Max(T)
  <1> DEFINE D == {n - y : y \in T}
  <1>1. D \in SUBSET Nat /\ D # {}
    <2>1. \A y \in T : n - y \in Nat
      OBVIOUS
    <2> QED
      BY <2>1
  <1>2. PICK d \in D : \A e \in D : d <= e
    BY <1>1, Least
  <1>3. PICK m \in T : d = n - m
    OBVIOUS
  <1>4. \A y \in T : y <= m
    <2> TAKE y \in T
    <2>1. n - y \in D
      OBVIOUS
    <2>2. n - m <= n - y
      BY <1>2, <1>3, <2>1
    <2> QED
      BY <2>2
  <1> QED
    BY <1>4 DEF Max

LEMMA MaxOfTwo ==
  ASSUME NEW a \in Int, NEW b \in Int
  PROVE  Max({a, b}) = IF a >= b THEN a ELSE b
  BY DEF Max

(* A set that is downward closed in 1..n is the numbers up to its size.     *)
LEMMA Initial ==
  ASSUME NEW n \in Nat, NEW T \in SUBSET (1..n),
         \A i \in T : \A j \in 1..n : j <= i => j \in T
  PROVE  Cardinality(T) \in 0..n /\ T = 1..Cardinality(T)
  <1> DEFINE D == {m \in 1..(n + 1) : m \notin T}
  <1>1. D \in SUBSET Nat /\ n + 1 \in D
    OBVIOUS
  <1>2. PICK m \in D : \A y \in D : m <= y
    BY <1>1, Least
  <1>3. T = 1..(m - 1) /\ m \in 1..(n + 1)
    <2>1. \A i \in 1..(m - 1) : i \in T
      BY <1>2
    <2>2. ASSUME NEW i \in T, i >= m PROVE FALSE
      <3>1. m \in 1..n
        BY <1>2, <2>2
      <3> QED
        BY <1>2, <2>2, <3>1
    <2>3. m \in 1..(n + 1) /\ m \in Int
      BY <1>2
    <2>4. \A i \in T : i \in 1..(m - 1)
      BY <2>2, <2>3
    <2> QED
      BY <2>1, <2>3, <2>4
  <1>4. Cardinality(1..(m - 1)) = m - 1
    BY FS_Interval
  <1> QED
    BY <1>3, <1>4

-----------------------------------------------------------------------------
(* Inserting into a sorted sequence.                                        *)
Rising(s) == \A i, j \in DOMAIN s : i <= j => s[i] <= s[j]

With(l, s, i, e) ==
    /\ Len(l) = Len(s) + 1
    /\ \A k \in 1..(Len(s) + 1) : l[k] = IF k < i THEN s[k] ELSE IF k = i THEN e ELSE s[k - 1]

LEMMA InsertedIs ==
  ASSUME NEW S, NEW s \in Seq(S), NEW i \in 1..(Len(s) + 1), NEW e \in S
  PROVE  InsertAt(s, i, e) \in Seq(S) /\ With(InsertAt(s, i, e), s, i, e)
  <1> DEFINE a == SubSeq(s, 1, i - 1)
             c == SubSeq(s, i, Len(s))
  <1>1. Len(s) \in Nat /\ i \in Int
    OBVIOUS
  <1>2. a \in Seq(S) /\ Len(a) = i - 1 /\ \A k \in 1..(i - 1) : a[k] = s[k]
    BY <1>1
  <1>3. /\ c \in Seq(S) /\ Len(c) = Len(s) - i + 1
        /\ \A k \in 1..(Len(s) - i + 1) : c[k] = s[i + k - 1]
    BY <1>1
  <1> HIDE DEF a, c
  <1> DEFINE d == <<e>> \o c
  <1>5. /\ d \in Seq(S) /\ Len(d) = Len(s) - i + 2 /\ d[1] = e
        /\ \A k \in 2..(Len(s) - i + 2) : d[k] = s[i + k - 2]
    BY <1>1, <1>3
  <1>6. InsertAt(s, i, e) = a \o d
    <2>1. InsertAt(s, i, e) = a \o <<e>> \o c
      BY DEF InsertAt, a, c
    <2> QED
      BY <2>1, <1>2, <1>3
  <1> HIDE DEF d
  <1>7. a \o d \in Seq(S) /\ Len(a \o d) = Len(s) + 1
    BY <1>1, <1>2, <1>5
  <1>8. ASSUME NEW k \in 1..(Len(s) + 1)
        PROVE  (a \o d)[k] = IF k < i THEN s[k] ELSE IF k = i THEN e ELSE s[k - 1]
    <2>1. (a \o d)[k] = IF k =< Len(a) THEN a[k] ELSE d[k - Len(a)]
      <3>1. k \in 1..(Len(a) + Len(d))
        BY <1>1, <1>2, <1>5, <1>8
      <3> QED
        BY <1>2, <1>5, <3>1
    <2>2. CASE k < i
      BY <2>1, <2>2, <1>1, <1>2, <1>8
    <2>3. CASE k = i
      BY <2>1, <2>3, <1>1, <1>2, <1>5, <1>8
    <2>4. CASE k > i
      <3> DEFINE j == k - Len(a)
      <3>1. j \in 2..(Len(s) - i + 2) /\ i + j - 2 = k - 1 /\ ~(k =< Len(a))
        BY <2>4, <1>1, <1>2, <1>8
      <3>2. (a \o d)[k] = d[j]
        BY <2>1, <3>1
      <3> HIDE DEF j
      <3>3. d[j] = s[k - 1]
        BY <1>5, <3>1
      <3>4. ~(k < i) /\ k # i
        BY <2>4, <1>1
      <3> QED
        BY <3>2, <3>3, <3>4
    <2>5. k < i \/ k = i \/ k > i
      BY <1>1
    <2> QED
      BY <2>2, <2>3, <2>4, <2>5
  <1> QED
    BY <1>6, <1>7, <1>8 DEF With

LEMMA ListLength ==
  ASSUME NEW S, NEW s \in Seq(S)
  PROVE  Len(s) \in Nat /\ DOMAIN s = 1..Len(s) /\ \A i \in 1..Len(s) : s[i] \in S
  OBVIOUS

(* Without one item a sequence has the others, in their order.              *)
Without(l, s, k) == /\ Len(l) = Len(s) - 1
                    /\ \A i \in 1..(Len(s) - 1) : l[i] = IF i < k THEN s[i] ELSE s[i + 1]

LEMMA RemovedIs ==
  ASSUME NEW S, NEW s \in Seq(S), NEW k \in 1..Len(s)
  PROVE  RemoveAt(s, k) \in Seq(S) /\ Without(RemoveAt(s, k), s, k)
  <1> DEFINE a == SubSeq(s, 1, k - 1)
             c == SubSeq(s, k + 1, Len(s))
  <1>1. Len(s) \in Nat /\ k \in Int
    OBVIOUS
  <1>2. a \in Seq(S) /\ Len(a) = k - 1 /\ \A i \in 1..(k - 1) : a[i] = s[i]
    BY <1>1
  <1>3. /\ c \in Seq(S) /\ Len(c) = Len(s) - k
        /\ \A i \in 1..(Len(s) - k) : c[i] = s[k + i]
    BY <1>1
  <1>4. RemoveAt(s, k) = a \o c
    BY DEF RemoveAt
  <1> HIDE DEF a, c
  <1>5. a \o c \in Seq(S) /\ Len(a \o c) = Len(s) - 1
    <2>1. a \o c \in Seq(S)
      BY <1>2, <1>3
    <2>2. a \in Seq(S) /\ c \in Seq(S) => Len(a \o c) = Len(a) + Len(c)
      OBVIOUS
    <2>3. Len(a) + Len(c) = Len(s) - 1
      BY <1>1, <1>2, <1>3
    <2> QED
      BY <1>2, <1>3, <2>1, <2>2, <2>3
  <1>6. ASSUME NEW i \in 1..(Len(s) - 1)
        PROVE  (a \o c)[i] = IF i < k THEN s[i] ELSE s[i + 1]
    <2>1. i \in 1..(Len(a) + Len(c))
      BY <1>1, <1>2, <1>3
    <2>2. (a \o c)[i] = IF i <= Len(a) THEN a[i] ELSE c[i - Len(a)]
      BY <1>2, <1>3, <2>1
    <2>3. CASE i < k
      <3>1. i \in 1..(k - 1) /\ i <= Len(a)
        BY <2>3, <1>1, <1>2
      <3> QED
        BY <2>2, <2>3, <3>1, <1>2
    <2>4. CASE ~(i < k)
      <3> DEFINE j == i - Len(a)
      <3>1. j \in 1..(Len(s) - k) /\ k + j = i + 1 /\ ~(i <= Len(a))
        BY <2>4, <1>1, <1>2
      <3> HIDE DEF j
      <3>2. c[j] = s[i + 1]
        BY <3>1, <1>3
      <3>3. (a \o c)[i] = c[j]
        BY <2>2, <3>1 DEF j
      <3> QED
        BY <2>4, <3>2, <3>3
    <2> QED
      BY <2>3, <2>4
  <1> QED
    BY <1>4, <1>5, <1>6 DEF Without

-----------------------------------------------------------------------------
(* The legend: its sections stay sorted by their upper ends, and while the  *)
(* layout is not due the frame, the pictures and the switch follow it.      *)
LegendSpec == LegendInit /\ [][LegendNext]_legendvars

SectionSet == [uppernval : Int, color : Colors \cup {Unset}]
Ends(list) == [i \in DOMAIN list |-> list[i].uppernval]
InOrder(list) == list \in Seq(SectionSet) /\ Rising(Ends(list))
LegendInv ==
    /\ InOrder(discretelist) /\ bigtick \in Seq(Int)
    /\ desc \in {0, 1} /\ imagesize \in Nat
    /\ legendFrame # Unset => backgroundenabled
    /\ OneLayout

LEMMA PlaceIsThere ==
  ASSUME NEW s, NEW k \in Nat, DOMAIN s = 1..k, \A i \in 1..k : s[i] \in Int, NEW x \in Int
  PROVE  Place(s, x) \in 1..(k + 1)
  <1> DEFINE T == {i \in DOMAIN s : s[i] <= x}
  <1>1. IsFiniteSet(1..k) /\ Cardinality(1..k) = k
    BY FS_Interval
  <1>2. Cardinality(T) <= k /\ Cardinality(T) \in Nat
    BY <1>1, FS_Subset, FS_CardinalityType
  <1> QED
    BY <1>2 DEF Place

LEMMA PlaceSplits ==
  ASSUME NEW s, NEW k \in Nat, DOMAIN s = 1..k, \A i \in 1..k : s[i] \in Int,
         Rising(s), NEW x \in Int
  PROVE  \A i \in 1..k : IF i < Place(s, x) THEN s[i] <= x ELSE s[i] > x
  <1> DEFINE T == {i \in DOMAIN s : s[i] <= x}
  <1>1. \A i \in T : \A j \in 1..k : j <= i => j \in T
    <2> TAKE i \in T
    <2> TAKE j \in 1..k
    <2> HAVE j <= i
    <2>1. s[j] <= s[i] /\ s[i] <= x /\ s[i] \in Int /\ s[j] \in Int
      BY DEF Rising
    <2> QED
      BY <2>1
  <1>2. T \in SUBSET (1..k)
    OBVIOUS
  <1>3. Cardinality(T) \in 0..k /\ T = 1..Cardinality(T)
    <2> HIDE DEF T
    <2> QED
      BY <1>1, <1>2, Initial
  <1>4. Place(s, x) = 1 + Cardinality(T)
    BY DEF Place
  <1> DEFINE c == Cardinality(T)
  <1>5. \A i \in 1..k : s[i] <= x <=> i \in 1..c
    BY <1>3
  <1> HIDE DEF c
  <1>6. c \in 0..k /\ Place(s, x) = 1 + c
    BY <1>3, <1>4 DEF c
  <1> QED
    BY <1>5, <1>6

(* A section that is added goes behind those that do not end above it.      *)
LEMMA SectionAdded ==
  ASSUME NEW list, InOrder(list), NEW upper \in Int, NEW color \in Colors \cup {Unset}
  PROVE  InOrder(WithDiscrete(list, upper, color))
  <1> DEFINE k == Len(list)
             s == Ends(list)
             p == Place(s, upper)
             e == [uppernval |-> upper, color |-> color]
             l == WithDiscrete(list, upper, color)
  <1>1. list \in Seq(SectionSet) /\ k \in Nat /\ DOMAIN list = 1..k /\ Rising(s)
    BY DEF InOrder
  <1>2. DOMAIN s = 1..k /\ \A i \in 1..k : s[i] = list[i].uppernval /\ s[i] \in Int
    <2>1. \A i \in 1..k : list[i] \in SectionSet
      BY <1>1
    <2> QED
      BY <1>1, <2>1 DEF Ends, SectionSet
  <1>3. e \in SectionSet
    BY DEF SectionSet
  <1>4. l = InsertAt(list, p, e)
    BY DEF WithDiscrete, Ends
  <1> HIDE DEF k, s
  <1>5. p \in 1..(k + 1)
    BY <1>1, <1>2, PlaceIsThere
  <1>6. \A i \in 1..k : IF i < p THEN s[i] <= upper ELSE s[i] > upper
    BY <1>1, <1>2, PlaceSplits
  <1> HIDE DEF p, e, l
  <1>7. l \in Seq(SectionSet) /\ With(l, list, p, e)
    BY <1>1, <1>3, <1>4, <1>5, InsertedIs DEF k
  <1>8. Len(l) = k + 1 /\ DOMAIN l = 1..(k + 1)
    BY <1>7, <1>1 DEF With, k
  <1>9. \A i \in 1..(k + 1) : Ends(l)[i] = IF i < p THEN s[i] ELSE IF i = p THEN upper ELSE s[i - 1]
    <2> TAKE i \in 1..(k + 1)
    <2>1. Ends(l)[i] = l[i].uppernval
      BY <1>8 DEF Ends
    <2>2. l[i] = IF i < p THEN list[i] ELSE IF i = p THEN e ELSE list[i - 1]
      BY <1>7 DEF With, k
    <2>3. e.uppernval = upper
      BY DEF e
    <2>4. i < p => i \in 1..k
      BY <1>5, <1>1
    <2>5. ~(i < p) /\ i # p => i - 1 \in 1..k
      BY <1>5, <1>1
    <2> QED
      BY <2>1, <2>2, <2>3, <2>4, <2>5, <1>2
  <1>10. Rising(Ends(l))
    <2>1. DOMAIN Ends(l) = 1..(k + 1)
      BY <1>8 DEF Ends
    <2>2. \A i, j \in 1..k : i <= j => s[i] <= s[j]
      BY <1>1, <1>2 DEF Rising
    <2>3. ASSUME NEW i \in 1..(k + 1), NEW j \in 1..(k + 1), i <= j
          PROVE  Ends(l)[i] <= Ends(l)[j]
      <3>1. p \in Int /\ k \in Nat /\ i \in Int /\ j \in Int
        BY <1>1, <1>5
      <3>2. CASE i = j
        <4>1. Ends(l)[i] \in Int
          <5>1. i < p => i \in 1..k
            BY <1>5, <3>1
          <5>2. ~(i < p) /\ i # p => i - 1 \in 1..k
            BY <1>5, <3>1
          <5> QED
            BY <1>9, <1>2, <5>1, <5>2
        <4> QED
          BY <4>1, <3>2
      <3>3. CASE i < j /\ j < p
        <4>1. i \in 1..k /\ j \in 1..k /\ i < p
          BY <3>1, <3>3, <1>5
        <4> QED
          BY <4>1, <3>3, <1>9, <2>2, <2>3
      <3>4. CASE i < j /\ j = p
        <4>1. i \in 1..k /\ i < p
          BY <3>1, <3>4, <1>5
        <4>2. Ends(l)[i] = s[i] /\ Ends(l)[j] = upper
          BY <4>1, <3>1, <3>4, <1>9
        <4> QED
          BY <4>1, <4>2, <1>6
      <3>5. CASE i = p /\ j > p
        <4>1. j - 1 \in 1..k /\ ~(j - 1 < p) /\ ~(j < p) /\ j # p
          BY <3>1, <3>5, <1>5
        <4>2. Ends(l)[i] = upper /\ Ends(l)[j] = s[j - 1]
          BY <4>1, <3>1, <3>5, <1>9
        <4>3. s[j - 1] > upper /\ s[j - 1] \in Int
          BY <4>1, <1>6, <1>2
        <4> QED
          BY <4>2, <4>3
      <3>6. CASE i < p /\ j > p
        <4>1. i \in 1..k /\ j - 1 \in 1..k /\ i <= j - 1 /\ ~(j < p) /\ j # p
          BY <3>1, <3>6, <1>5
        <4>2. Ends(l)[i] = s[i] /\ Ends(l)[j] = s[j - 1]
          BY <4>1, <3>1, <3>6, <1>9
        <4> QED
          BY <4>1, <4>2, <2>2
      <3>7. CASE i > p /\ j > i
        <4>1. i - 1 \in 1..k /\ j - 1 \in 1..k /\ i - 1 <= j - 1 /\ ~(j < p) /\ j # p
              /\ ~(i < p) /\ i # p
          BY <3>1, <3>7, <1>5
        <4>2. Ends(l)[i] = s[i - 1] /\ Ends(l)[j] = s[j - 1]
          BY <4>1, <3>1, <3>7, <1>9
        <4> QED
          BY <4>1, <4>2, <2>2
      <3> QED
        BY <2>3, <3>1, <3>2, <3>3, <3>4, <3>5, <3>6, <3>7
    <2> QED
      BY <2>1, <2>3 DEF Rising
  <1> QED
    BY <1>7, <1>10 DEF InOrder, l

(* The sections that ticks make are in order.                               *)
LEMMA TicksInOrder ==
  ASSUME bigtick \in Seq(Int)
  PROVE  InOrder(TickSections)
  <1> DEFINE n == Len(bigtick)
             Lists == {l \in Seq(SectionSet) : Rising(Ends(l))}
             Step(l, i) == IF AboveBottom(bigtick[i]) THEN WithDiscrete(l, bigtick[i], Unset)
                           ELSE l
             step == [i \in 1..n |-> [l \in Lists |-> Step(l, i)]]
             Makes(f) == f = [i \in 0..n |->
                 IF i = 0 THEN << >>
                 ELSE IF AboveBottom(bigtick[i]) THEN WithDiscrete(f[i - 1], bigtick[i], Unset)
                 ELSE f[i - 1]]
             made == CHOOSE f : Makes(f)
  <1>1. TickSections = made[n]
    BY DEF TickSections
  <1>2. n \in Nat /\ \A i \in 1..n : bigtick[i] \in Int
    OBVIOUS
  <1>3. \A l : InOrder(l) <=> l \in Lists
    BY DEF InOrder
  <1>4. << >> \in Lists
    BY DEF Rising, Ends
  <1>5. ASSUME NEW i \in 1..n, NEW l \in Lists PROVE Step(l, i) \in Lists
    <2>1. bigtick[i] \in Int /\ InOrder(l)
      BY <1>2, <1>3
    <2>2. InOrder(WithDiscrete(l, bigtick[i], Unset))
      BY <2>1, SectionAdded
    <2> QED
      BY <2>1, <2>2, <1>3
  <1> HIDE DEF n, Lists, Step
  <1>6. step \in [1..n -> [Lists -> Lists]]
    BY <1>5
  <1>7. PICK f \in [0..n -> Lists] : f[0] = << >> /\ \A i \in 1..n : f[i] = step[i][f[i - 1]]
    <2> DEFINE none == << >>
    <2>1. n \in Nat /\ none \in Lists
      BY <1>2, <1>4
    <2> HIDE DEF step, none, Makes, made
    <2>2. \E f \in [0..n -> Lists] : Loops(f, n, none, step)
      BY <2>1, <1>6, LoopRuns
    <2> QED
      BY <2>2 DEF none, Loops
  <1>8. \A i \in 1..n : f[i] = Step(f[i - 1], i)
    <2> TAKE i \in 1..n
    <2>1. f[i - 1] \in Lists
      BY <1>2
    <2> QED
      BY <1>7, <2>1
  <1>9. Makes(f)
    <2>1. \A i \in 0..n : f[i] = IF i = 0 THEN << >>
                 ELSE IF AboveBottom(bigtick[i]) THEN WithDiscrete(f[i - 1], bigtick[i], Unset)
                 ELSE f[i - 1]
      <3> TAKE i \in 0..n
      <3>1. CASE i = 0
        BY <3>1, <1>7
      <3>2. CASE i # 0
        <4>1. i \in 1..n
          BY <3>2, <1>2
        <4> QED
          BY <3>2, <4>1, <1>8 DEF Step
      <3> QED
        BY <3>1, <3>2
    <2> QED
      BY <2>1
  <1>10. Makes(made)
    <2> HIDE DEF Makes
    <2> QED
      BY <1>9
  <1> HIDE DEF made
  <1> DEFINE T == {i \in 0..n : made[i] \in Lists}
  <1>11. \A i \in 0..n : made[i] = IF i = 0 THEN << >>
                 ELSE IF AboveBottom(bigtick[i]) THEN WithDiscrete(made[i - 1], bigtick[i], Unset)
                 ELSE made[i - 1]
    BY <1>10
  <1> HIDE DEF Makes
  <1>12. 0 \in T
    BY <1>2, <1>4, <1>11
  <1>13. ASSUME NEW i \in 1..n, i - 1 \in T PROVE i \in T
    <2>1. i \in 0..n /\ i # 0
      BY <1>2
    <2>2. made[i] = Step(made[i - 1], i)
      BY <2>1, <1>11 DEF Step
    <2> QED
      BY <2>1, <2>2, <1>5, <1>13
  <1>14. n \in T
    <2> HIDE DEF T
    <2>1. 0..n \subseteq T
      BY <1>2, <1>12, <1>13, UpTo
    <2> QED
      BY <2>1, <1>2
  <1> QED
    BY <1>1, <1>3, <1>14

LEMMA LegendBegins == LegendInit => LegendInv
  BY DEF LegendInit, LegendInv, InOrder, Rising, Ends, OneLayout

LEMMA LegendStep ==
  ASSUME LegendAssumption, LegendInv, [LegendNext]_legendvars
  PROVE  LegendInv'
  <1>0. /\ InOrder(discretelist) /\ bigtick \in Seq(Int) /\ imagesize \in Nat /\ desc \in {0, 1}
        /\ legendFrame # Unset => backgroundenabled
        /\ OneLayout
    BY DEF LegendInv
  <1> DEFINE LaidOut == /\ imagesize' \in Nat /\ desc' \in {0, 1}
                        /\ (legendFrame # Unset => backgroundenabled)' /\ OneLayout'
             Data == InOrder(discretelist') /\ bigtick' \in Seq(Int)
  <1>a. UNCHANGED <<discretelist, bigtick>> => Data
    BY <1>0
  <1>b. /\ UNCHANGED <<desc, imagesize, size, recalcsize, image, texture, imageSwitch,
                       imageenabled, usetexture, backgroundenabled, legendFrame>>
        /\ needimageinit' \in {needimageinit, TRUE}
        => LaidOut
    <2> HAVE /\ UNCHANGED <<desc, imagesize, size, recalcsize, image, texture, imageSwitch,
                            imageenabled, usetexture, backgroundenabled, legendFrame>>
             /\ needimageinit' \in {needimageinit, TRUE}
    <2>1. /\ desc' = desc /\ imagesize' = imagesize /\ size' = size /\ recalcsize' = recalcsize
          /\ image' = image /\ texture' = texture /\ imageSwitch' = imageSwitch
          /\ imageenabled' = imageenabled /\ usetexture' = usetexture
          /\ backgroundenabled' = backgroundenabled /\ legendFrame' = legendFrame
      OBVIOUS
    <2>2. (imageSwitch = SwitchFor(size - Space - DescSize))'
            <=> imageSwitch = SwitchFor(size - Space - DescSize)
      BY <2>1 DEF SwitchFor, DescSize
    <2>3. needimageinit \/ (Len(image) = imagesize /\ texture = imagesize)
            => (needimageinit \/ (Len(image) = imagesize /\ texture = imagesize))'
      BY <2>1
    <2> QED
      BY <2>1, <2>2, <2>3, <1>0 DEF OneLayout, Layout
  <1>c. LaidOut /\ Data => LegendInv'
    BY DEF LegendInv
  <1>1. CASE UNCHANGED legendvars
    <2>1. /\ UNCHANGED <<desc, imagesize, size, recalcsize, image, texture, imageSwitch,
                         imageenabled, usetexture, backgroundenabled, legendFrame>>
          /\ needimageinit' = needimageinit /\ UNCHANGED <<discretelist, bigtick>>
      BY <1>1 DEF legendvars, fieldvars, layoutvars, picturevars, shownvars, datavars
    <2> QED
      BY <2>1, <1>a, <1>b, <1>c
  <1>2. ASSUME NEW v \in Viewports, RenderLegend(v) PROVE LegendInv'
    <2>1. /\ UNCHANGED <<desc, backgroundenabled, imageenabled, usetexture, discretelist, bigtick>>
          /\ image' = Rows(imagesize') /\ texture' = imagesize' /\ ~needimageinit'
      BY <1>2 DEF RenderLegend, fieldvars, datavars
    <2>2. CASE Stale(v)
      <3>1. v \in Int /\ Space \in Nat /\ LineHeight \in Nat
        BY DEF LegendAssumption
      <3>2. DescSize \in Int
        <4>1. desc * LineHeight \in Int
          BY <3>1, <1>0
        <4> QED
          BY <3>1, <4>1 DEF DescSize
      <3>3. NewSize(v) \in Int /\ NewImage(v) \in Int
        <4>1. v \in Int /\ DescSize + 2 \in Int
          BY <3>1, <3>2
        <4>2. NewSize(v) \in Int
          BY <4>1, MaxOfTwo DEF NewSize
        <4> QED
          BY <4>2, <3>1, <3>2 DEF NewImage
      <3> DEFINE h == Max({1, NewImage(v)})
      <3>4. h \in Nat
        BY <3>3, MaxOfTwo
      <3> HIDE DEF h
      <3>5. /\ size' = NewSize(v) /\ imagesize' = h /\ imageSwitch' = SwitchFor(NewImage(v))
            /\ legendFrame' = Framed(legendFrame, <<NewSize(v), h>>) /\ recalcsize' = FALSE
        BY <1>2, <2>2 DEF RenderLegend, Recalc, h
      <3>6. Len(image') = imagesize'
        BY <2>1, <3>4, <3>5 DEF Rows
      <3>7. imageSwitch' = SwitchFor(size - Space - DescSize)'
        BY <2>1, <3>5 DEF SwitchFor, NewImage, DescSize
      <3>8. LaidOut
        BY <2>1, <3>4, <3>5, <3>6, <3>7, <1>0 DEF OneLayout, Layout, Framed
      <3> QED
        BY <3>8, <2>1, <1>a, <1>c
    <2>3. CASE ~Stale(v)
      <3>1. UNCHANGED <<size, imagesize, recalcsize, imageSwitch, legendFrame>> /\ ~recalcsize
        BY <1>2, <2>3 DEF RenderLegend, layoutvars, Stale
      <3>2. Len(image') = imagesize'
        BY <2>1, <3>1, <1>0 DEF Rows
      <3>3. LaidOut
        BY <2>1, <3>1, <3>2, <1>0 DEF OneLayout, Layout, SwitchFor, DescSize
      <3> QED
        BY <3>3, <2>1, <1>a, <1>c
    <2> QED
      BY <2>2, <2>3
  <1>3. CASE SetLegendField
    <2>1. UNCHANGED <<imagesize, backgroundenabled, legendFrame, discretelist, bigtick>>
      BY <1>3 DEF SetLegendField, layoutvars, picturevars, shownvars, datavars
    <2>2. CASE recalcsize' = TRUE /\ desc' = 1 - desc
      BY <2>1, <2>2, <1>0, <1>a, <1>c DEF OneLayout
    <2>3. CASE ~(recalcsize' = TRUE /\ desc' = 1 - desc)
      BY <2>3, <1>3, <1>a, <1>b, <1>c
         DEF SetLegendField, layoutvars, picturevars, shownvars, datavars
    <2> QED
      BY <2>2, <2>3
  <1>4. CASE ClearData
    <2>1. /\ UNCHANGED <<desc, imagesize, backgroundenabled, legendFrame>>
          /\ recalcsize' = TRUE /\ discretelist' = << >> /\ bigtick' = << >>
      BY <1>4 DEF ClearData, fieldvars, layoutvars, shownvars
    <2>2. Data
      BY <2>1 DEF InOrder, Rising, Ends
    <2> QED
      BY <2>1, <2>2, <1>0, <1>c DEF OneLayout
  <1>5. ASSUME NEW onoff \in BOOLEAN, UseTexture(onoff) PROVE LegendInv'
    <2>1. /\ UNCHANGED <<desc, size, imagesize, backgroundenabled, legendFrame, imageenabled,
                         image, texture, needimageinit, discretelist, bigtick>>
      BY <1>5 DEF UseTexture, fieldvars, layoutvars, picturevars, datavars
    <2>2. CASE imageenabled
      BY <2>1, <2>2, <1>5, <1>0, <1>a, <1>c DEF UseTexture, OneLayout
    <2>3. CASE ~imageenabled
      <3>1. UNCHANGED <<imageSwitch, recalcsize>>
        BY <1>5, <2>3 DEF UseTexture
      <3> QED
        BY <2>1, <2>3, <3>1, <1>0, <1>a, <1>c DEF OneLayout, Layout, SwitchFor, DescSize
    <2> QED
      BY <2>2, <2>3
  <1>6. ASSUME NEW onoff \in BOOLEAN, EnableBackground(onoff) PROVE LegendInv'
    <2>1. UNCHANGED <<desc, size, imagesize, recalcsize, imageenabled, usetexture, imageSwitch,
                      image, texture, needimageinit, discretelist, bigtick>>
      BY <1>6 DEF EnableBackground, fieldvars, layoutvars, picturevars, datavars
    <2>2. /\ backgroundenabled' = onoff
          /\ legendFrame' = IF ~onoff THEN Unset
                            ELSE IF ~recalcsize THEN Layout
                            ELSE IF legendFrame = Unset THEN Unmade ELSE legendFrame
      BY <1>6 DEF EnableBackground
    <2> QED
      BY <2>1, <2>2, <1>0, <1>a, <1>c DEF OneLayout, Layout, SwitchFor, DescSize
  <1>7. ASSUME NEW onoff \in BOOLEAN, EnableImage(onoff) PROVE LegendInv'
    <2>1. UNCHANGED <<desc, size, imagesize, backgroundenabled, usetexture,
                      image, texture, needimageinit, discretelist, bigtick>>
      BY <1>7 DEF EnableImage, fieldvars, layoutvars, picturevars, datavars
    <2>2. CASE onoff
      <3>1. /\ recalcsize' = TRUE
            /\ legendFrame' = IF ~backgroundenabled THEN Unset
                              ELSE IF legendFrame = Unset THEN Unmade ELSE legendFrame
        BY <1>7, <2>2 DEF EnableImage
      <3> QED
        BY <2>1, <3>1, <1>0, <1>a, <1>c DEF OneLayout
    <2>3. CASE ~onoff
      <3>1. imageenabled' = FALSE /\ imageSwitch' = Unset /\ legendFrame' = Unset
            /\ UNCHANGED recalcsize
        BY <1>7, <2>3 DEF EnableImage
      <3> QED
        BY <2>1, <3>1, <1>0, <1>a, <1>c DEF OneLayout, Layout, SwitchFor
    <2> QED
      BY <2>2, <2>3
  <1>8. ASSUME NEW onoff \in BOOLEAN, SetDiscreteMode(onoff) PROVE LegendInv'
    <2>1. /\ UNCHANGED <<desc, imagesize, size, recalcsize, image, texture, imageSwitch, bigtick,
                         imageenabled, usetexture, backgroundenabled, legendFrame>>
          /\ needimageinit' = TRUE
          /\ discretelist' \in {TickSections, discretelist}
      BY <1>8 DEF SetDiscreteMode, unlaid, fieldvars, layoutvars, shownvars
    <2>2. Data
      BY <2>1, <1>0, TicksInOrder
    <2> QED
      BY <2>1, <2>2, <1>b, <1>c
  <1>9. ASSUME NEW cb \in Callbacks, SetColorCB(cb) PROVE LegendInv'
    <2>1. /\ UNCHANGED <<desc, imagesize, size, recalcsize, image, texture, imageSwitch,
                         imageenabled, usetexture, backgroundenabled, legendFrame>>
          /\ needimageinit' = needimageinit /\ UNCHANGED <<discretelist, bigtick>>
      BY <1>9 DEF SetColorCB, unlaid, fieldvars, layoutvars, picturevars, shownvars
    <2> QED
      BY <2>1, <1>a, <1>b, <1>c
  <1>10. ASSUME NEW tick \in TickValues, AddBigTick(tick) PROVE LegendInv'
    <2>1. /\ UNCHANGED <<desc, imagesize, size, recalcsize, image, texture, imageSwitch,
                         imageenabled, usetexture, backgroundenabled, legendFrame, discretelist>>
          /\ needimageinit' = needimageinit
          /\ bigtick' = InsertAt(bigtick, Place(bigtick, tick), tick)
      BY <1>10 DEF AddBigTick, unlaid, fieldvars, layoutvars, picturevars, shownvars
    <2>2. tick \in Int
      BY DEF LegendAssumption
    <2>3. Place(bigtick, tick) \in 1..(Len(bigtick) + 1)
      <3>1. Len(bigtick) \in Nat /\ DOMAIN bigtick = 1..Len(bigtick)
            /\ \A i \in 1..Len(bigtick) : bigtick[i] \in Int
        BY <1>0
      <3> QED
        BY <3>1, <2>2, PlaceIsThere
    <2>4. bigtick' \in Seq(Int)
      BY <2>1, <2>2, <2>3, <1>0, InsertedIs
    <2>5. Data
      BY <2>1, <2>4, <1>0
    <2> QED
      BY <2>1, <2>5, <1>b, <1>c
  <1>11. ASSUME NEW tick \in TickValues, NEW color \in Colors, AddDiscreteColor(tick, color)
         PROVE  LegendInv'
    <2>1. /\ UNCHANGED <<desc, imagesize, size, recalcsize, image, texture, imageSwitch, bigtick,
                         imageenabled, usetexture, backgroundenabled, legendFrame>>
          /\ needimageinit' = needimageinit
          /\ discretelist' = WithDiscrete(discretelist, tick, color)
      BY <1>11 DEF AddDiscreteColor, unlaid, fieldvars, layoutvars, picturevars, shownvars
    <2>2. tick \in Int /\ color \in Colors \cup {Unset}
      BY DEF LegendAssumption
    <2>3. Data
      BY <2>1, <2>2, <1>0, SectionAdded
    <2> QED
      BY <2>1, <2>3, <1>b, <1>c
  <1> HIDE DEF LaidOut, Data
  <1> QED
    BY <1>1, <1>2, <1>3, <1>4, <1>5, <1>6, <1>7, <1>8, <1>9, <1>10, <1>11 DEF LegendNext

(* Whatever fields, flags, callbacks and ticks are set in whatever order,   *)
(* frame, pictures and switch of a legend follow one layout once it is      *)
(* calculated.                                                              *)
THEOREM LegendLaidOut == LegendAssumption => (LegendSpec => []OneLayout)
  <1> SUFFICES ASSUME LegendAssumption PROVE LegendSpec => []OneLayout
    OBVIOUS
  <1>1. LegendInit => LegendInv
    BY LegendBegins
  <1>2. LegendInv /\ [LegendNext]_legendvars => LegendInv'
    BY LegendStep
  <1>3. LegendInv => OneLayout
    BY DEF LegendInv
  <1> QED
    BY <1>1, <1>2, <1>3, PTL DEF LegendSpec

(* The section found for a value is the one the value lies in.              *)
LEMMA SectionFound ==
  ASSUME InOrder(discretelist), Uppers # {}, NEW nval \in Int
  PROVE  /\ Section(nval) \in DOMAIN discretelist
         /\ discretelist[Section(nval)].uppernval = Above(nval)
  <1> DEFINE k == Len(discretelist)
             up(i) == discretelist[i].uppernval
             S == {i \in DOMAIN discretelist : i = k \/ up(i) >= nval}
             s == Section(nval)
  <1>1. DOMAIN discretelist = 1..k /\ k \in Nat
    BY DEF InOrder
  <1>2. k > 0
    BY <1>1 DEF Uppers
  <1>3. \A i \in 1..k : up(i) \in Int
    <2>1. \A i \in 1..k : discretelist[i] \in SectionSet
      BY <1>1 DEF InOrder
    <2> QED
      BY <2>1 DEF SectionSet
  <1>4. \A i, j \in 1..k : i <= j => up(i) <= up(j)
    BY <1>1 DEF InOrder, Rising, Ends
  <1>5. Uppers = {up(i) : i \in 1..k}
    BY <1>1 DEF Uppers
  <1> HIDE DEF up
  <1>6. s \in S /\ \A y \in S : s <= y
    <2>1. S \in SUBSET Nat /\ k \in S
      BY <1>1, <1>2
    <2>2. s = Min(S)
      BY DEF Section, up
    <2> HIDE DEF S, s
    <2> QED
      BY <2>1, <2>2, Least
  <1>7. s \in 1..k
    BY <1>6, <1>1
  <1> HIDE DEF s
  <1>8. CASE \E u \in Uppers : u >= nval
    <2>1. PICK j \in 1..k : up(j) >= nval
      BY <1>8, <1>5
    <2>2. j \in S
      BY <2>1, <1>1
    <2>3. up(s) >= nval
      <3>1. CASE s = k
        BY <3>1, <2>1, <1>1, <1>2, <1>3, <1>4
      <3>2. CASE s # k
        BY <3>2, <1>6
      <3> QED
        BY <3>1, <3>2
    <2> DEFINE R == {u \in Uppers : u >= nval}
    <2>4. up(s) \in R
      BY <2>3, <1>5, <1>7
    <2>5. ASSUME NEW u \in R PROVE up(s) <= u
      <3>1. PICK i \in 1..k : u = up(i) /\ up(i) >= nval
        BY <1>5
      <3>2. i \in S
        BY <3>1, <1>1
      <3>3. s <= i
        BY <3>2, <1>6
      <3> QED
        BY <3>1, <3>3, <1>4, <1>7
    <2>6. Min(R) = up(s)
      <3>1. \A u \in R : u \in Int
        BY <1>3, <1>5
      <3>2. ASSUME NEW x \in R, \A y \in R : x <= y PROVE x = up(s)
        <4>1. x <= up(s) /\ up(s) <= x /\ x \in Int /\ up(s) \in Int
          BY <3>1, <3>2, <2>4, <2>5
        <4> QED
          BY <4>1
      <3> HIDE DEF R
      <3> QED
        BY <3>2, <2>4, <2>5 DEF Min
    <2>7. Above(nval) = Min(R)
      BY <1>8 DEF Above
    <2> QED
      BY <2>6, <2>7, <1>1, <1>7 DEF up, s
  <1>9. CASE ~ \E u \in Uppers : u >= nval
    <2>1. s = k
      BY <1>9, <1>6, <1>5, <1>1
    <2>2. up(k) \in Uppers /\ \A u \in Uppers : u <= up(k)
      <3>1. k \in 1..k
        BY <1>1, <1>2
      <3> QED
        BY <3>1, <1>4, <1>5
    <2>3. Max(Uppers) = up(k)
      <3>1. \A u \in Uppers : u \in Int
        BY <1>3, <1>5
      <3>2. ASSUME NEW x \in Uppers, \A y \in Uppers : x >= y PROVE x = up(k)
        <4>1. x >= up(k) /\ x <= up(k) /\ x \in Int /\ up(k) \in Int
          BY <3>1, <3>2, <2>2
        <4> QED
          BY <4>1
      <3>3. \A y \in Uppers : up(k) >= y
        BY <2>2, <3>1
      <3> QED
        BY <3>2, <3>3, <2>2 DEF Max
    <2>4. Above(nval) = Max(Uppers)
      BY <1>9 DEF Above
    <2> QED
      BY <2>1, <2>3, <2>4, <1>1, <1>7 DEF up, s
  <1> QED
    BY <1>8, <1>9

(* However the sections came to be, of ticks or one by one in any order, a  *)
(* picture of the legend has in each row the colour of the right section.   *)
THEOREM RowsAreSectioned == LegendAssumption => (LegendSpec => Sectioned)
  <1> SUFFICES ASSUME LegendAssumption PROVE LegendSpec => Sectioned
    OBVIOUS
  <1> DEFINE Made == needimageinit /\ ~needimageinit' /\ discrete /\ Uppers # {} =>
               \A y \in 1..imagesize' : \E i \in DOMAIN discretelist :
                 /\ discretelist[i].uppernval = Above(((y - 1) * Unit) \div imagesize')
                 /\ image'[y] = SectionColor(i)
  <1>1. LegendInit => LegendInv
    BY LegendBegins
  <1>2. LegendInv /\ [LegendNext]_legendvars => LegendInv'
    BY LegendStep
  <1>3. LegendInv /\ [LegendNext]_legendvars => [Made]_legendvars
    <2> SUFFICES ASSUME LegendInv, LegendNext, needimageinit, ~needimageinit', discrete,
                        Uppers # {}, NEW y \in 1..imagesize'
                 PROVE  \E i \in DOMAIN discretelist :
                          /\ discretelist[i].uppernval = Above(((y - 1) * Unit) \div imagesize')
                          /\ image'[y] = SectionColor(i)
      OBVIOUS
    <2>1. PICK v \in Viewports : RenderLegend(v)
      BY DEF LegendNext, SetLegendField, ClearData, UseTexture, EnableBackground, EnableImage,
         SetDiscreteMode, SetColorCB, AddBigTick, AddDiscreteColor, unlaid, picturevars
    <2>2. image' = Rows(imagesize')
      BY <2>1 DEF RenderLegend
    <2> DEFINE nval == ((y - 1) * Unit) \div imagesize'
    <2>3. nval \in Int
      <3>1. LegendInv'
        BY <1>2
      <3>2. imagesize' \in Nat /\ imagesize' > 0 /\ y - 1 \in Nat /\ Unit \in Nat
        BY <3>1 DEF LegendInv, LegendAssumption
      <3>3. (y - 1) * Unit \in Nat
        BY <3>2
      <3> QED
        BY <3>2, <3>3
    <2>4. image'[y] = LineColor(nval)
      BY <2>2 DEF Rows
    <2> HIDE DEF nval
    <2>5. InOrder(discretelist)
      BY DEF LegendInv
    <2>6. /\ Section(nval) \in DOMAIN discretelist
          /\ discretelist[Section(nval)].uppernval = Above(nval)
      BY <2>3, <2>5, SectionFound
    <2>7. discretelist # << >>
      BY DEF Uppers
    <2>8. image'[y] = SectionColor(Section(nval))
      BY <2>4, <2>7 DEF LineColor
    <2> QED
      BY <2>6, <2>8 DEF nval
  <1> QED
    BY <1>1, <1>2, <1>3, PTL DEF LegendSpec, Sectioned

-----------------------------------------------------------------------------
(* A loop over 1..n that appends the items of those in D.                   *)
Filters(f, n, D, item) ==
    f = [i \in 0..n |-> IF i = 0 THEN << >>
                        ELSE IF i \in D THEN Append(f[i - 1], item[i]) ELSE f[i - 1]]
RankIn(D, i) == Cardinality({j \in D : j <= i})

LEMMA RankSteps ==
  ASSUME NEW n \in Nat, NEW D \in SUBSET (1..n), NEW i \in 1..n
  PROVE  /\ RankIn(D, i) \in Nat /\ RankIn(D, i - 1) \in Nat
         /\ RankIn(D, i) = IF i \in D THEN RankIn(D, i - 1) + 1 ELSE RankIn(D, i - 1)
  <1> DEFINE A == {j \in D : j <= i - 1}
             B == {j \in D : j <= i}
  <1>1. IsFiniteSet(A) /\ IsFiniteSet(B)
    <2>1. IsFiniteSet(1..n)
      BY FS_Interval
    <2>2. A \subseteq 1..n /\ B \subseteq 1..n
      OBVIOUS
    <2> QED
      BY <2>1, <2>2, FS_Subset
  <1>2. Cardinality(A) \in Nat /\ Cardinality(B) \in Nat
    BY <1>1, FS_CardinalityType
  <1>3. CASE i \in D
    <2>0. \A j \in D : j \in Int /\ (j <= i <=> j <= i - 1 \/ j = i)
      OBVIOUS
    <2>1. B = A \cup {i} /\ i \notin A
      <3>1. i <= i /\ ~(i <= i - 1)
        OBVIOUS
      <3>2. \A x : x \in B <=> x \in A \cup {i}
        BY <1>3, <2>0, <3>1
      <3>3. i \notin A
        BY <3>1
      <3> HIDE DEF A, B
      <3> QED
        BY <3>2, <3>3
    <2>2. Cardinality(B) = Cardinality(A) + 1
      BY <1>1, <2>1, FS_AddElement
    <2> QED
      BY <1>2, <1>3, <2>2 DEF RankIn
  <1>4. CASE i \notin D
    <2>1. B = A
      <3>1. \A j \in D : j <= i <=> j <= i - 1
        BY <1>4
      <3> QED
        BY <3>1
    <2> QED
      BY <1>2, <1>4, <2>1 DEF RankIn
  <1> QED
    BY <1>3, <1>4

LEMMA RankOfNone ==
  ASSUME NEW D, \A j \in D : j \in Nat /\ j > 0
  PROVE  RankIn(D, 0) = 0
  <1>1. {j \in D : j <= 0} = {}
    OBVIOUS
  <1> QED
    BY <1>1, FS_EmptySet DEF RankIn

LEMMA FilterRuns ==
  ASSUME NEW n \in Nat, NEW D, NEW T, NEW item \in [1..n -> T]
  PROVE  \E f : Filters(f, n, D, item)
  <1> DEFINE Step(l, i) == IF i \in D THEN Append(l, item[i]) ELSE l
             step == [i \in 1..n |-> [l \in Seq(T) |-> Step(l, i)]]
             none == << >>
  <1>1. \A i \in 1..n : \A l \in Seq(T) : Step(l, i) \in Seq(T)
    OBVIOUS
  <1>2. step \in [1..n -> [Seq(T) -> Seq(T)]] /\ none \in Seq(T)
    <2> HIDE DEF Step
    <2> QED
      BY <1>1
  <1>3. PICK f \in [0..n -> Seq(T)] : Loops(f, n, none, step)
    <2> HIDE DEF step, none
    <2> QED
      BY <1>2, LoopRuns
  <1>4. ASSUME NEW i \in 0..n
        PROVE  f[i] = IF i = 0 THEN << >>
                      ELSE IF i \in D THEN Append(f[i - 1], item[i]) ELSE f[i - 1]
    <2>1. CASE i = 0
      BY <1>3, <2>1 DEF Loops
    <2>2. CASE i # 0
      <3>1. i \in 1..n /\ i - 1 \in 0..n
        BY <2>2
      <3>2. f[i] = step[i][f[i - 1]] /\ f[i - 1] \in Seq(T)
        BY <1>3, <3>1 DEF Loops
      <3>3. f[i] = Step(f[i - 1], i)
        <4> HIDE DEF Step
        <4> QED
          BY <3>1, <3>2
      <3> QED
        BY <2>2, <3>3
    <2> QED
      BY <2>1, <2>2
  <1>5. Filters(f, n, D, item)
    <2>1. f = [i \in 0..n |-> f[i]]
      OBVIOUS
    <2> QED
      BY <2>1, <1>4 DEF Filters
  <1> QED
    BY <1>5

(* It makes as many as D has, and that of i is at the rank of i.            *)
Filtrate(l, n, D, item) ==
    /\ Len(l) = RankIn(D, n)
    /\ \A i \in D : RankIn(D, i) \in 1..RankIn(D, n) /\ l[RankIn(D, i)] = item[i]
    /\ \A k \in 1..Len(l) : \E i \in D : RankIn(D, i) = k /\ l[k] = item[i]
LEMMA Filtered ==
  ASSUME NEW n \in Nat, NEW D \in SUBSET (1..n), NEW T, NEW item \in [1..n -> T],
         NEW f, Filters(f, n, D, item)
  PROVE  f[n] \in Seq(T) /\ Filtrate(f[n], n, D, item)
  <1>0. \A i \in 0..n : f[i] = IF i = 0 THEN << >>
                               ELSE IF i \in D THEN Append(f[i - 1], item[i]) ELSE f[i - 1]
    BY DEF Filters
  <1> DEFINE Good(m) == /\ f[m] \in Seq(T) /\ Len(f[m]) = RankIn(D, m)
                        /\ \A i \in D : i <= m => /\ RankIn(D, i) \in 1..RankIn(D, m)
                                                  /\ f[m][RankIn(D, i)] = item[i]
                        /\ \A k \in 1..Len(f[m]) :
                             \E i \in D : i <= m /\ RankIn(D, i) = k /\ f[m][k] = item[i]
             S == {m \in 0..n : Good(m)}
  <1>1. 0 \in S
    <2>1. \A j \in D : j \in Nat /\ j > 0
      OBVIOUS
    <2>2. RankIn(D, 0) = 0
      BY <2>1, RankOfNone
    <2>3. f[0] = << >>
      BY <1>0
    <2>4. f[0] \in Seq(T) /\ Len(f[0]) = 0
      BY <2>3
    <2>5. \A i \in D : ~(i <= 0)
      BY <2>1
    <2>6. Good(0)
      BY <2>2, <2>4, <2>5
    <2> QED
      BY <2>6
  <1>2. ASSUME NEW m \in 1..n, m - 1 \in S PROVE m \in S
    <2>0. m \in 0..n /\ m # 0 /\ Good(m - 1)
      BY <1>2
    <2>1. /\ RankIn(D, m) \in Nat /\ RankIn(D, m - 1) \in Nat
          /\ RankIn(D, m) = IF m \in D THEN RankIn(D, m - 1) + 1 ELSE RankIn(D, m - 1)
      BY RankSteps
    <2> DEFINE r == RankIn(D, m - 1)
               g == f[m - 1]
    <2>2. g \in Seq(T) /\ Len(g) = r /\ r \in Nat
      BY <2>0, <2>1
    <2>3. \A i \in D : i <= m => i <= m - 1 \/ i = m
      OBVIOUS
    <2>4. CASE m \in D
      <3>1. f[m] = Append(g, item[m]) /\ item[m] \in T
        BY <1>0, <2>0, <2>4
      <3>2. /\ f[m] \in Seq(T) /\ Len(f[m]) = r + 1 /\ f[m][r + 1] = item[m]
            /\ \A k \in 1..r : f[m][k] = g[k]
        BY <2>2, <3>1
      <3>3. RankIn(D, m) = r + 1
        BY <2>1, <2>4
      <3>4. ASSUME NEW i \in D, i <= m
            PROVE  RankIn(D, i) \in 1..(r + 1) /\ f[m][RankIn(D, i)] = item[i]
        <4>1. CASE i = m
          BY <4>1, <3>2, <3>3, <2>2
        <4>2. CASE i <= m - 1
          <5>1. RankIn(D, i) \in 1..r /\ g[RankIn(D, i)] = item[i]
            BY <2>0, <4>2
          <5> QED
            BY <5>1, <3>2, <2>2
        <4> QED
          BY <2>3, <3>4, <4>1, <4>2
      <3>5. ASSUME NEW k \in 1..(r + 1)
            PROVE  \E i \in D : i <= m /\ RankIn(D, i) = k /\ f[m][k] = item[i]
        <4>1. CASE k = r + 1
          BY <4>1, <3>2, <3>3, <2>4
        <4>2. CASE k # r + 1
          <5>1. k \in 1..r
            BY <4>2, <2>2
          <5>2. PICK i \in D : i <= m - 1 /\ RankIn(D, i) = k /\ g[k] = item[i]
            BY <2>0, <2>2, <5>1
          <5> QED
            BY <5>1, <5>2, <3>2
        <4> QED
          BY <4>1, <4>2
      <3> HIDE DEF r, g
      <3>6. Good(m)
        BY <3>2, <3>3, <3>4, <3>5
      <3> QED
        BY <2>0, <3>6
    <2>5. CASE m \notin D
      <3>1. f[m] = g /\ RankIn(D, m) = r
        BY <1>0, <2>0, <2>1, <2>5
      <3>2. \A i \in D : i <= m <=> i <= m - 1
        BY <2>5
      <3> HIDE DEF r
      <3>3. Good(m)
        BY <3>1, <3>2, <2>0 DEF r
      <3> QED
        BY <2>0, <3>3
    <2> QED
      BY <2>4, <2>5
  <1>3. n \in S
    <2> HIDE DEF S
    <2>1. 0..n \subseteq S
      BY <1>1, <1>2, UpTo
    <2> QED
      BY <2>1
  <1> QED
    BY <1>3 DEF Filtrate

-----------------------------------------------------------------------------
(* Displayed axes.                                                          *)
DisplaySpec == DisplayInit /\ [][DisplayNext]_displayvars

DisplayInv ==
    /\ axes \in Seq(Int)
    /\ camera \in [connected : BOOLEAN, from : {0, 1, None}]
    /\ displayOrientation \in {0, 1}
    /\ ~oneshot => camera.connected \/ displayOrientation = 0
    /\ AxesFollow

(* The one-shot makes a separator for each axis that is shown, at its rank. *)
LEMMA AxesMade ==
  ASSUME axes \in Seq(Int)
  PROVE  /\ Len(AxisSeps) = Cardinality(Shown)
         /\ \A i \in Shown : AxisSeps[RankIn(Shown, i)] = AxisSep(i)
  <1> DEFINE n == Len(axes)
             item == [i \in 1..n |-> AxisSep(i)]
             T == {AxisSep(i) : i \in 1..n}
             Makes(f) == f = [i \in 0..n |-> IF i = 0 THEN << >>
                                             ELSE IF i \in Shown THEN Append(f[i - 1], AxisSep(i))
                                             ELSE f[i - 1]]
             made == CHOOSE f : Makes(f)
  <1>1. n \in Nat /\ Shown \in SUBSET (1..n)
    BY DEF Shown
  <1>2. AxisSeps = made[n]
    BY DEF AxisSeps
  <1>3. item \in [1..n -> T]
    OBVIOUS
  <1> HIDE DEF T
  <1>4. ASSUME NEW f PROVE Makes(f) <=> Filters(f, n, Shown, item)
    <2>1. ASSUME NEW i \in 0..n, i # 0 PROVE AxisSep(i) = item[i]
      <3>1. i \in 1..n
        BY <1>1, <2>1
      <3> QED
        BY <3>1
    <2> DEFINE Of(i, x) == IF i = 0 THEN << >> ELSE IF i \in Shown THEN Append(f[i - 1], x)
                           ELSE f[i - 1]
    <2>2. [i \in 0..n |-> Of(i, AxisSep(i))] = [i \in 0..n |-> Of(i, item[i])]
      <3>1. \A i \in 0..n : Of(i, AxisSep(i)) = Of(i, item[i])
        <4> HIDE DEF item, n
        <4> QED
          BY <2>1
      <3> HIDE DEF item, n, Of
      <3> QED
        BY <3>1
    <2> HIDE DEF item, n
    <2> QED
      BY <2>2 DEF Filters
  <1> HIDE DEF item, n
  <1>5. \E f : Makes(f)
    <2> HIDE DEF Makes
    <2>1. PICK f : Filters(f, n, Shown, item)
      BY <1>1, <1>3, FilterRuns
    <2> QED
      BY <2>1, <1>4
  <1>6. Filters(made, n, Shown, item)
    <2> HIDE DEF Makes
    <2>1. Makes(made)
      BY <1>5
    <2> HIDE DEF made
    <2> QED
      BY <2>1, <1>4
  <1> HIDE DEF made, Makes
  <1>7. /\ Len(made[n]) = RankIn(Shown, n)
        /\ \A i \in Shown : made[n][RankIn(Shown, i)] = item[i]
    <2>1. Filtrate(made[n], n, Shown, item)
      BY <1>1, <1>3, <1>6, Filtered
    <2> QED
      BY <2>1 DEF Filtrate
  <1>8. RankIn(Shown, n) = Cardinality(Shown)
    <2>0. \A j \in Shown : j <= n
      BY <1>1
    <2>1. {j \in Shown : j <= n} = Shown
      BY <2>0
    <2> QED
      BY <2>1 DEF RankIn
  <1>9. \A i \in Shown : item[i] = AxisSep(i)
    BY <1>1 DEF item
  <1> QED
    BY <1>2, <1>7, <1>8, <1>9

LEMMA DisplayBegins == DisplayInit => DisplayInv
  <1> SUFFICES ASSUME DisplayInit PROVE DisplayInv
    OBVIOUS
  <1>1. axes = << >> /\ axessep = << >> /\ Shown = {}
    BY DEF DisplayInit, Shown
  <1>2. Cardinality(Shown) = 0
    BY <1>1, FS_EmptySet
  <1>3. AxesFollow
    BY <1>1, <1>2 DEF AxesFollow
  <1> QED
    BY <1>1, <1>3 DEF DisplayInit, DisplayInv

LEMMA DisplayStep ==
  ASSUME DisplayAssumption, DisplayInv, [DisplayNext]_displayvars
  PROVE  DisplayInv'
  <1> USE DEF DisplayInv
  <1>1. ASSUME NEW a \in AxesValues, SetAxes(a) PROVE DisplayInv'
    BY <1>1 DEF SetAxes, Notify, AxesFollow, DisplayAssumption
  <1>2. ASSUME NEW c \in ColorValues, NEW e \in ArrowValues, NEW t \in TextValues,
               SetLooks(c, e, t)
        PROVE  DisplayInv'
    BY <1>2 DEF SetLooks, Notify, AxesFollow
  <1>3. ASSUME NEW d \in BOOLEAN, NEW h \in BOOLEAN, NEW o \in {0, 1}, SetFlags(d, h, o)
        PROVE  DisplayInv'
    BY <1>3 DEF SetFlags, Notify, AxesFollow
  <1>4. CASE OneshotCB
    <2>1. /\ UNCHANGED <<axes, displayColors, enableArrows, drawAsLines, displayOrientation>>
          /\ axessep' = AxisSeps /\ camera' = [camera EXCEPT !.connected = TRUE]
      BY <1>4 DEF OneshotCB, displayfields
    <2>2. Shown' = Shown
      BY <2>1 DEF Shown
    <2>3. ASSUME NEW i \in Shown, NEW s, s = AxisSep(i)
          PROVE  /\ s.axis = axes[i] /\ s.lines = drawAsLines
                 /\ i <= Len(displayColors) => s.color = displayColors[i]
                 /\ i <= Len(enableArrows) => s.arrow = enableArrows[i]
      BY <2>3 DEF AxisSep, OrLast
    <2>4. AxesFollow'
      <3>1. /\ Len(AxisSeps) = Cardinality(Shown)
            /\ \A i \in Shown : AxisSeps[Cardinality({j \in Shown : j <= i})] = AxisSep(i)
        BY AxesMade DEF RankIn
      <3> QED
        BY <2>1, <2>2, <2>3, <3>1 DEF AxesFollow
    <2> QED
      BY <2>1, <2>4
  <1>5. CASE GLRender
    <2>1. UNCHANGED <<axes, displayColors, enableArrows, drawAsLines, displayOrientation, oneshot,
                      axessep, camera>>
      BY <1>5 DEF GLRender, displayfields
    <2>2. Shown' = Shown
      BY <2>1 DEF Shown
    <2>3. AxesFollow'
      BY <2>1, <2>2 DEF AxesFollow
    <2> QED
      BY <2>1, <2>3
  <1>6. CASE DelayedGLRender
    <2>1. /\ UNCHANGED <<axes, displayColors, enableArrows, drawAsLines, displayOrientation, oneshot,
                         axessep>>
          /\ camera' = [camera EXCEPT !.from = displayOrientation]
      BY <1>6 DEF DelayedGLRender, displayfields
    <2>2. Shown' = Shown
      BY <2>1 DEF Shown
    <2>3. AxesFollow'
      BY <2>1, <2>2 DEF AxesFollow
    <2> QED
      BY <2>1, <2>3
  <1>7. CASE UNCHANGED displayvars
    <2>1. UNCHANGED <<axes, displayColors, enableArrows, drawAsLines, displayOrientation, oneshot,
                      axessep, camera>>
      BY <1>7 DEF displayvars
    <2>2. Shown' = Shown
      BY <2>1 DEF Shown
    <2>3. AxesFollow'
      BY <2>1, <2>2 DEF AxesFollow
    <2> QED
      BY <2>1, <2>3
  <1> QED
    BY <1>1, <1>2, <1>3, <1>4, <1>5, <1>6, <1>7 DEF DisplayNext

(* With no update waiting the separators are those of the axes, each in its *)
(* place with what the fields give it.                                      *)
THEOREM DisplayedAxesFollow == DisplayAssumption => (DisplaySpec => []AxesFollow)
  <1> SUFFICES ASSUME DisplayAssumption PROVE DisplaySpec => []AxesFollow
    OBVIOUS
  <1>1. DisplayInit => DisplayInv
    BY DisplayBegins
  <1>2. DisplayInv /\ [DisplayNext]_displayvars => DisplayInv'
    BY DisplayStep
  <1>3. DisplayInv => AxesFollow
    BY DEF DisplayInv
  <1> QED
    BY <1>1, <1>2, <1>3, PTL DEF DisplaySpec

(* A picture of the axes drawn with no update waiting is seen from where    *)
(* its camera looks, also after the orientation was turned.                 *)
THEOREM DisplaySeenFromItsPlace == DisplayAssumption => (DisplaySpec => SeenFromItsPlace)
  <1> SUFFICES ASSUME DisplayAssumption PROVE DisplaySpec => SeenFromItsPlace
    OBVIOUS
  <1> DEFINE Shows == frame' # frame /\ frame' # None /\ ~oneshot => frame'.from = frame'.looks
  <1>1. DisplayInit => DisplayInv
    BY DisplayBegins
  <1>2. DisplayInv /\ [DisplayNext]_displayvars => DisplayInv'
    BY DisplayStep
  <1>3. ASSUME DisplayInv, [DisplayNext]_displayvars PROVE Shows
    <2>1. CASE DelayedGLRender
      <3>1. /\ frame' = [lit |-> headlight, from |-> displayOrientation, looks |-> Looks]
            /\ ~oneshot => Looks = displayOrientation
        BY <1>3, <2>1 DEF DelayedGLRender, Looks, DisplayInv
      <3> QED
        BY <3>1
    <2>2. CASE ~DelayedGLRender
      BY <1>3, <2>2 DEF DisplayNext, SetAxes, SetLooks, SetFlags, Notify, OneshotCB, GLRender,
                        displayvars
    <2> QED
      BY <2>1, <2>2
  <1>4. DisplayInv /\ [DisplayNext]_displayvars => [Shows]_displayvars
    BY <1>3
  <1> HIDE DEF Shows
  <1>5. DisplaySpec => [][Shows]_displayvars
    BY <1>1, <1>2, <1>4, PTL DEF DisplaySpec
  <1> QED
    BY <1>5 DEF SeenFromItsPlace, Shows

-----------------------------------------------------------------------------
(* Annotations along an axis.  A sequence has an item Once if no two of its *)
(* places hold the same.                                                    *)
AxisSpec == AxisInit /\ [][AxisNext]_annotationvars

Once(s) == \A k, l \in 1..Len(s) : s[k] = s[l] => k = l
OnceWithin(s, a, b) == /\ s \in Seq(Int) /\ Once(s)
                       /\ \A k \in 1..Len(s) : a < s[k] /\ s[k] < b

LEMMA ItemOfTwo ==
  ASSUME NEW S, NEW s \in Seq(S), NEW t \in Seq(S), NEW k \in 1..Len(s \o t)
  PROVE  /\ k <= Len(s) => k \in 1..Len(s) /\ (s \o t)[k] = s[k]
         /\ k > Len(s) => k - Len(s) \in 1..Len(t) /\ (s \o t)[k] = t[k - Len(s)]
  OBVIOUS

LEMMA OnceJoined ==
  ASSUME NEW s \in Seq(Int), NEW t \in Seq(Int), Once(s), Once(t),
         \A k \in 1..Len(s) : \A l \in 1..Len(t) : s[k] # t[l]
  PROVE  s \o t \in Seq(Int) /\ Once(s \o t)
  <1>1. s \o t \in Seq(Int)
    OBVIOUS
  <1>2. ASSUME NEW k \in 1..Len(s \o t), NEW l \in 1..Len(s \o t), (s \o t)[k] = (s \o t)[l]
        PROVE  k = l
    <2>1. k \in Int /\ l \in Int /\ Len(s) \in Nat
      BY <1>1
    <2>2. CASE k <= Len(s) /\ l <= Len(s)
      <3>1. k \in 1..Len(s) /\ (s \o t)[k] = s[k]
        BY <2>2, ItemOfTwo
      <3>2. l \in 1..Len(s) /\ (s \o t)[l] = s[l]
        BY <2>2, ItemOfTwo
      <3> QED
        BY <3>1, <3>2, <1>2 DEF Once
    <2>3. CASE k > Len(s) /\ l > Len(s)
      <3>1. k - Len(s) \in 1..Len(t) /\ (s \o t)[k] = t[k - Len(s)]
        BY <2>3, ItemOfTwo
      <3>2. l - Len(s) \in 1..Len(t) /\ (s \o t)[l] = t[l - Len(s)]
        BY <2>3, ItemOfTwo
      <3>3. k - Len(s) = l - Len(s)
        BY <3>1, <3>2, <1>2 DEF Once
      <3> QED
        BY <3>3, <2>1
    <2>4. CASE k <= Len(s) /\ l > Len(s)
      <3>1. k \in 1..Len(s) /\ (s \o t)[k] = s[k]
        BY <2>4, ItemOfTwo
      <3>2. l - Len(s) \in 1..Len(t) /\ (s \o t)[l] = t[l - Len(s)]
        BY <2>4, ItemOfTwo
      <3> QED
        BY <3>1, <3>2, <1>2
    <2>5. CASE k > Len(s) /\ l <= Len(s)
      <3>1. k - Len(s) \in 1..Len(t) /\ (s \o t)[k] = t[k - Len(s)]
        BY <2>5, ItemOfTwo
      <3>2. l \in 1..Len(s) /\ (s \o t)[l] = s[l]
        BY <2>5, ItemOfTwo
      <3> QED
        BY <3>1, <3>2, <1>2
    <2> QED
      BY <2>1, <2>2, <2>3, <2>4, <2>5
  <1> QED
    BY <1>1, <1>2 DEF Once

LEMMA WithinJoined ==
  ASSUME NEW a \in Int, NEW c \in Int, NEW d \in Int, NEW b \in Int, a <= d, c <= b, c <= d + 1,
         NEW s, NEW t, OnceWithin(s, a, c), OnceWithin(t, d, b)
  PROVE  OnceWithin(s \o t, a, b)
  <1>1. s \in Seq(Int) /\ t \in Seq(Int)
    BY DEF OnceWithin
  <1>2. \A k \in 1..Len(s) : s[k] \in Int /\ a < s[k] /\ s[k] < c
    BY DEF OnceWithin
  <1>3. \A l \in 1..Len(t) : t[l] \in Int /\ d < t[l] /\ t[l] < b
    BY DEF OnceWithin
  <1>4. \A k \in 1..Len(s) : \A l \in 1..Len(t) : s[k] # t[l]
    BY <1>2, <1>3
  <1>5. s \o t \in Seq(Int) /\ Once(s \o t)
    BY <1>1, <1>4, OnceJoined DEF OnceWithin
  <1>6. ASSUME NEW k \in 1..Len(s \o t) PROVE a < (s \o t)[k] /\ (s \o t)[k] < b
    <2>1. k \in Int /\ Len(s) \in Nat
      BY <1>1
    <2>2. CASE k <= Len(s)
      <3>1. k \in 1..Len(s) /\ (s \o t)[k] = s[k]
        BY <2>2, <1>1, ItemOfTwo
      <3> QED
        BY <3>1, <1>2
    <2>3. CASE k > Len(s)
      <3>1. k - Len(s) \in 1..Len(t) /\ (s \o t)[k] = t[k - Len(s)]
        BY <2>3, <1>1, ItemOfTwo
      <3> QED
        BY <3>1, <1>3
    <2> QED
      BY <2>1, <2>2, <2>3
  <1> QED
    BY <1>5, <1>6 DEF OnceWithin

(* The texts between two others lie between them, each once.                *)
Positions == DOMAIN annotationPos
Piece(t, n, a, b) == IF n = 0 \/ Half(a, b) \in {a, b} THEN << >>
                     ELSE Middle(a, Half(a, b), b) \o t[a][Half(a, b)] \o t[Half(a, b)][b]
Row(t, n) == [a \in Positions |-> [b \in Positions |-> Piece(t, n, a, b)]]
Halves(f) == \A n \in 0..Len(annotationPos) : f[n] = Row(f[n - 1], n)

LEMMA HalfLies ==
  ASSUME NEW a \in Int, NEW b \in Int, a <= b
  PROVE  Half(a, b) \in Int /\ a <= Half(a, b) /\ Half(a, b) <= b
  BY DEF Half

LEMMA TextsBetween ==
  ASSUME NEW f, Halves(f), annotationPos \in Seq(Int),
         NEW i \in Positions, NEW j \in Positions, i < j
  PROVE  OnceWithin(f[Len(annotationPos)][i][j], i, j)
  <1> DEFINE N == Len(annotationPos)
             T == {n \in 0..N : \A a, b \in Positions : a < b => OnceWithin(f[n][a][b], a, b)}
  <1>1. N \in Nat /\ Positions = 1..N
    BY DEF Positions
  <1>2. \A a, b : OnceWithin(<< >>, a, b)
    BY DEF OnceWithin, Once
  <1>3. 0 \in T
    <2>1. f[0] = Row(f[0 - 1], 0)
      BY <1>1 DEF Halves
    <2>2. \A a, b \in Positions : f[0][a][b] = << >>
      BY <2>1 DEF Row, Piece
    <2> QED
      BY <2>2, <1>1, <1>2
  <1>4. ASSUME NEW n \in 1..N, n - 1 \in T PROVE n \in T
    <2>1. n \in 0..N /\ n # 0 /\ f[n] = Row(f[n - 1], n)
      BY <1>1 DEF Halves
    <2>2. ASSUME NEW a \in Positions, NEW b \in Positions, a < b
          PROVE  OnceWithin(f[n][a][b], a, b)
      <3> DEFINE m == Half(a, b)
      <3>1. a \in Int /\ b \in Int /\ m \in Int /\ a <= m /\ m <= b
        BY <1>1, <2>2, HalfLies
      <3>2. CASE m \in {a, b}
        <4>1. f[n][a][b] = << >>
          BY <2>1, <3>2 DEF Row, Piece
        <4> QED
          BY <4>1, <1>2
      <3>3. CASE m \notin {a, b}
        <4> DEFINE mid == Middle(a, m, b)
                   left == f[n - 1][a][m]
                   right == f[n - 1][m][b]
        <4>1. f[n][a][b] = mid \o left \o right
          <5>1. f[n][a][b] = Piece(f[n - 1], n, a, b)
            BY <2>1 DEF Row
          <5> QED
            BY <5>1, <2>1, <3>3 DEF Piece
        <4>2. m \in Positions /\ a < m /\ m < b
          BY <1>1, <3>1, <3>3
        <4>3. OnceWithin(left, a, m) /\ OnceWithin(right, m, b)
          BY <1>4, <4>2
        <4>4. \/ mid = <<m>> \/ mid = << >>
          BY DEF Middle
        <4> HIDE DEF mid, left, right, m
        <4>5. mid \in Seq(Int) /\ Once(mid) /\ \A k \in 1..Len(mid) : mid[k] = m
          <5>1. CASE mid = << >>
            BY <5>1 DEF Once
          <5>2. CASE mid = <<m>>
            <6>1. mid \in Seq(Int) /\ Len(mid) = 1 /\ mid[1] = m
              BY <5>2, <3>1
            <6>2. \A k \in 1..Len(mid) : k = 1
              BY <6>1
            <6> QED
              BY <6>1, <6>2 DEF Once
          <5> QED
            BY <4>4, <5>1, <5>2
        <4>6. left \in Seq(Int) /\ Once(left) /\ \A k \in 1..Len(left) :
                left[k] \in Int /\ a < left[k] /\ left[k] < m
          BY <4>3 DEF OnceWithin
        <4>7. mid \o left \in Seq(Int) /\ Once(mid \o left)
          <5>1. \A k \in 1..Len(mid) : \A l \in 1..Len(left) : mid[k] # left[l]
            <6> TAKE k \in 1..Len(mid)
            <6> TAKE l \in 1..Len(left)
            <6>1. mid[k] = m /\ left[l] \in Int /\ left[l] < m
              BY <4>5, <4>6
            <6> QED
              BY <6>1, <3>1
          <5> QED
            BY <5>1, <4>5, <4>6, OnceJoined
        <4>8. ASSUME NEW k \in 1..Len(mid \o left)
              PROVE  a < (mid \o left)[k] /\ (mid \o left)[k] < m + 1
          <5>1. k \in Int /\ Len(mid) \in Nat
            BY <4>5, <4>7
          <5>2. CASE k <= Len(mid)
            <6>1. k \in 1..Len(mid) /\ (mid \o left)[k] = mid[k]
              BY <5>2, <4>5, <4>6, ItemOfTwo
            <6>2. mid[k] = m
              BY <6>1, <4>5
            <6> QED
              BY <6>1, <6>2, <3>1, <4>2
          <5>3. CASE k > Len(mid)
            <6>1. k - Len(mid) \in 1..Len(left) /\ (mid \o left)[k] = left[k - Len(mid)]
              BY <5>3, <4>5, <4>6, ItemOfTwo
            <6>2. /\ left[k - Len(mid)] \in Int /\ a < left[k - Len(mid)]
                  /\ left[k - Len(mid)] < m
              BY <6>1, <4>6
            <6> QED
              BY <6>1, <6>2, <3>1
          <5> QED
            BY <5>1, <5>2, <5>3
        <4>9. OnceWithin(mid \o left, a, m + 1)
          BY <4>7, <4>8 DEF OnceWithin
        <4>10. OnceWithin(mid \o left \o right, a, b)
          <5> DEFINE both == mid \o left
                     c == m + 1
          <5>1. OnceWithin(both, a, c) /\ c \in Int /\ a <= m /\ c <= b /\ c <= m + 1
            BY <4>9, <4>2, <3>1
          <5> HIDE DEF both, c
          <5>2. OnceWithin(both \o right, a, b)
            BY <5>1, <4>3, <3>1, WithinJoined
          <5> QED
            BY <5>2 DEF both
        <4> QED
          BY <4>1, <4>10
      <3> QED
        BY <3>2, <3>3
    <2> QED
      BY <2>1, <2>2
  <1>5. N \in T
    <2> HIDE DEF T
    <2>1. 0..N \subseteq T
      BY <1>1, <1>3, <1>4, UpTo
    <2> QED
      BY <2>1, <1>1
  <1> QED
    BY <1>5

LEMMA HalfWithin ==
  ASSUME NEW N \in Nat, NEW a \in 1..N, NEW b \in 1..N
  PROVE  Half(a, b) \in 1..N
  <1>1. a + b - 2 \in Int /\ 0 <= a + b - 2 /\ a + b - 2 <= 2 * N - 2
    OBVIOUS
  <1>2. \A x \in Int : 0 <= x /\ x <= 2 * N - 2 => x \div 2 + 1 \in 1..N
    OBVIOUS
  <1> QED
    BY <1>1, <1>2 DEF Half

LEMMA TickHalves ==
  ASSUME NEW i \in Nat
  PROVE  /\ (2 * i - 1) \div 2 + 1 = i /\ (2 * i - 2) \div 2 + 1 = i
         /\ (2 * i) % 2 = 0 /\ (2 * i - 1) % 2 = 1
  OBVIOUS

LEMMA HalvesMade ==
  ASSUME annotationPos \in Seq(Int)
  PROVE  \E f : Halves(f) /\ f = [n \in 0..Len(annotationPos) |-> f[n]]
  <1> DEFINE N == Len(annotationPos)
             S == [Positions -> [Positions -> Seq(Int)]]
             step == [n \in 1..N |-> [t \in S |-> Row(t, n)]]
             base == [a \in Positions |-> [b \in Positions |-> << >>]]
  <1>1. N \in Nat /\ Positions = 1..N
    BY DEF Positions
  <1>2. base \in S
    OBVIOUS
  <1>3. ASSUME NEW n \in 1..N, NEW t \in S PROVE Row(t, n) \in S
    <2>1. ASSUME NEW a \in Positions, NEW b \in Positions PROVE Piece(t, n, a, b) \in Seq(Int)
      <3> DEFINE m == Half(a, b)
      <3>1. m \in Positions /\ m \in Int
        BY <1>1, HalfWithin
      <3>2. t[a][m] \in Seq(Int) /\ t[m][b] \in Seq(Int)
        BY <3>1
      <3>3. Middle(a, m, b) \in Seq(Int)
        BY <3>1 DEF Middle
      <3> DEFINE mid == Middle(a, m, b)
                 left == t[a][m]
                 right == t[m][b]
      <3>4. mid \o left \o right \in Seq(Int)
        <4> HIDE DEF mid, left, right
        <4>1. mid \in Seq(Int) /\ left \in Seq(Int) /\ right \in Seq(Int)
          BY <3>2, <3>3 DEF mid, left, right
        <4> QED
          BY <4>1
      <3>5. Piece(t, n, a, b) = << >> \/ Piece(t, n, a, b) = mid \o left \o right
        BY DEF Piece
      <3>6. << >> \in Seq(Int)
        OBVIOUS
      <3> QED
        BY <3>4, <3>5, <3>6
    <2> QED
      BY <2>1 DEF Row
  <1> HIDE DEF S, base
  <1>4. step \in [1..N -> [S -> S]]
    BY <1>3
  <1>5. PICK f \in [0..N -> S] : Loops(f, N, base, step)
    <2> HIDE DEF N, step
    <2> QED
      BY <1>1, <1>2, <1>4, LoopRuns
  <1>6. ASSUME NEW n \in 0..N PROVE f[n] = Row(f[n - 1], n)
    <2>1. CASE n = 0
      <3>1. f[0] = base
        BY <1>5 DEF Loops
      <3>2. \A a, b \in Positions : Piece(f[n - 1], n, a, b) = << >>
        BY <2>1 DEF Piece
      <3>3. Row(f[n - 1], n) = base
        BY <3>2 DEF Row, base
      <3> QED
        BY <2>1, <3>1, <3>3
    <2>2. CASE n # 0
      <3>1. n \in 1..N /\ n - 1 \in 0..N
        BY <1>1, <2>2
      <3>2. f[n] = step[n][f[n - 1]] /\ f[n - 1] \in S
        BY <1>5, <3>1 DEF Loops
      <3> QED
        BY <3>1, <3>2
    <2> QED
      BY <2>1, <2>2
  <1>7. f = [n \in 0..N |-> f[n]]
    BY <1>5
  <1> QED
    BY <1>6, <1>7 DEF Halves

LEMMA BetweenOnce ==
  ASSUME annotationPos \in Seq(Int), NEW i \in Positions, NEW j \in Positions, i < j
  PROVE  OnceWithin(Between(i, j), i, j)
  <1> DEFINE N == Len(annotationPos)
             Makes(f) == f = [n \in 0..N |-> Row(f[n - 1], n)]
             made == CHOOSE f : Makes(f)
  <1>1. Between(i, j) = made[N][i][j]
    BY DEF Between, Row, Piece, Positions
  <1>2. PICK f : Halves(f) /\ f = [n \in 0..N |-> f[n]]
    BY HalvesMade
  <1>3. Makes(f)
    <2>1. \A n \in 0..N : f[n] = Row(f[n - 1], n)
      BY <1>2 DEF Halves
    <2> QED
      BY <1>2, <2>1
  <1>4. Makes(made)
    <2> HIDE DEF Makes
    <2> QED
      BY <1>3
  <1> HIDE DEF made
  <1>5. Halves(made)
    BY <1>4 DEF Halves
  <1>6. OnceWithin(made[N][i][j], i, j)
    BY <1>5, TextsBetween
  <1> QED
    BY <1>1, <1>6

(* No position is chosen twice for a text.                                  *)
LEMMA TextsOnce ==
  ASSUME annotationPos \in Seq(Int)
  PROVE  AddAnnoText \in Seq(Int) /\ Once(AddAnnoText)
  <1> DEFINE n == Len(annotationPos)
             ends == Corners(1, n)
             inner == Between(1, n)
  <1>1. CASE n < 2
    <2>1. AddAnnoText = << >>
      BY <1>1 DEF AddAnnoText
    <2> QED
      BY <2>1 DEF Once
  <1>2. CASE ~(n < 2)
    <2>1. AddAnnoText = ends \o inner
      BY <1>2 DEF AddAnnoText
    <2>2. n \in Nat /\ n >= 2 /\ 1 \in Positions /\ n \in Positions
      BY <1>2 DEF Positions
    <2>3. OnceWithin(inner, 1, n)
      <3>1. 1 < n
        BY <2>2
      <3> QED
        BY <2>2, <3>1, BetweenOnce
    <2>4. ends = <<1, n>> \/ ends = << >> \/ ends = <<1>> \/ ends = <<n>>
      BY DEF Corners
    <2> HIDE DEF ends, inner, n
    <2>5. ends \in Seq(Int) /\ Once(ends) /\ \A k \in 1..Len(ends) : ends[k] \in {1, n}
      <3>1. CASE ends = <<1, n>>
        <4>1. ends \in Seq(Int) /\ Len(ends) = 2 /\ ends[1] = 1 /\ ends[2] = n
          BY <3>1, <2>2
        <4>2. \A k \in 1..Len(ends) : k = 1 \/ k = 2
          BY <4>1
        <4> QED
          BY <4>1, <4>2, <2>2 DEF Once
      <3>2. CASE ends = << >>
        BY <3>2 DEF Once
      <3>3. CASE ends = <<1>>
        <4>1. ends \in Seq(Int) /\ Len(ends) = 1 /\ ends[1] = 1
          BY <3>3
        <4>2. \A k \in 1..Len(ends) : k = 1
          BY <4>1
        <4> QED
          BY <4>1, <4>2 DEF Once
      <3>4. CASE ends = <<n>>
        <4>1. ends \in Seq(Int) /\ Len(ends) = 1 /\ ends[1] = n
          BY <3>4, <2>2
        <4>2. \A k \in 1..Len(ends) : k = 1
          BY <4>1
        <4> QED
          BY <4>1, <4>2 DEF Once
      <3> QED
        BY <2>4, <3>1, <3>2, <3>3, <3>4
    <2>6. inner \in Seq(Int) /\ Once(inner) /\ \A l \in 1..Len(inner) :
            inner[l] \in Int /\ 1 < inner[l] /\ inner[l] < n
      BY <2>3 DEF OnceWithin
    <2>7. \A k \in 1..Len(ends) : \A l \in 1..Len(inner) : ends[k] # inner[l]
      <3> TAKE k \in 1..Len(ends)
      <3> TAKE l \in 1..Len(inner)
      <3>1. ends[k] \in {1, n} /\ inner[l] \in Int /\ 1 < inner[l] /\ inner[l] < n
        BY <2>5, <2>6
      <3> QED
        BY <3>1, <2>2
    <2> QED
      BY <2>1, <2>5, <2>6, <2>7, OnceJoined
  <1> QED
    BY <1>1, <1>2

LEMMA LinesFollow ==
  ASSUME annotationPos \in Seq(Int), axisTickSize \in Int, AnnotationAssumption
  PROVE  /\ Lines # None
         /\ Lines.numVertices[1] = Len(annotationPos)
         /\ \A i \in DOMAIN annotationPos :
               /\ Lines.vertex[i] = annotationPos[i]
               /\ axisTickSize # 0 =>
                     LET tick == Len(annotationPos) + 2 * i
                     IN  Lines.vertex[tick] - Lines.vertex[tick - 1] = axisTickSize
  <1> DEFINE n == Len(annotationPos)
             room == IF axisTickSize = 0 THEN n ELSE 3 * n
             Vertex(i) == IF i <= n THEN annotationPos[i]
                          ELSE annotationPos[(i - n - 1) \div 2 + 1]
                                 + (IF (i - n) % 2 = 0 THEN axisTickSize ELSE 0)
             vertex == [i \in 1..room |-> Vertex(i)]
             twos == [i \in 1..(IF axisTickSize = 0 THEN 0 ELSE n) |-> 2]
             counts == <<n>> \o twos
  <1>1. Lines = [vertex |-> vertex, numVertices |-> counts]
    BY DEF Lines
  <1>2. n \in Nat /\ room \in Nat
    OBVIOUS
  <1>3. ASSUME NEW i \in 1..room PROVE Vertex(i) \in Int
    <2>1. CASE i <= n
      <3>1. i \in 1..n
        BY <2>1, <1>2
      <3> QED
        BY <2>1, <3>1
    <2>2. CASE ~(i <= n)
      <3> DEFINE j == (i - n - 1) \div 2 + 1
      <3>1. axisTickSize # 0 /\ i \in Int /\ i > n /\ i <= 3 * n
        BY <2>2, <1>2
      <3>2. j \in 1..n
        BY <3>1, <1>2
      <3> HIDE DEF j
      <3>3. annotationPos[j] \in Int
        BY <3>2
      <3> QED
        BY <2>2, <3>3 DEF j
    <2> QED
      BY <2>1, <2>2
  <1>4. vertex \in Seq(Int)
    <2> HIDE DEF room, Vertex
    <2>1. vertex \in [1..room -> Int]
      BY <1>3
    <2> QED
      BY <2>1, <1>2
  <1>5. counts \in Seq(Int) /\ counts[1] = n
    <2>1. twos \in Seq(Int)
      BY <1>2
    <2> HIDE DEF twos, n
    <2> QED
      BY <1>2, <2>1
  <1>6. Lines # None
    <2> HIDE DEF vertex, counts
    <2>1. Lines \in [vertex : Seq(Int), numVertices : Seq(Int)]
      BY <1>1, <1>4, <1>5
    <2> QED
      BY <2>1 DEF AnnotationAssumption
  <1>7. ASSUME NEW i \in DOMAIN annotationPos
        PROVE  /\ vertex[i] = annotationPos[i]
               /\ axisTickSize # 0 => vertex[n + 2 * i] - vertex[n + 2 * i - 1] = axisTickSize
    <2>1. i \in 1..n /\ i \in 1..room
      BY <1>2
    <2>2. vertex[i] = annotationPos[i]
      BY <2>1
    <2>3. ASSUME axisTickSize # 0
          PROVE  vertex[n + 2 * i] - vertex[n + 2 * i - 1] = axisTickSize
      <3> DEFINE p == n + 2 * i
                 q == n + 2 * i - 1
      <3>1. room = 3 * n
        BY <2>3
      <3>2. /\ p \in Int /\ 1 <= p /\ p <= 3 * n
            /\ q \in Int /\ 1 <= q /\ q <= 3 * n
            /\ ~(p <= n) /\ ~(q <= n)
        BY <2>1, <1>2
      <3>3. /\ p - n = 2 * i /\ p - n - 1 = 2 * i - 1
            /\ q - n = 2 * i - 1 /\ q - n - 1 = 2 * i - 2
        BY <2>1, <1>2
      <3>t. /\ (2 * i - 1) \div 2 + 1 = i /\ (2 * i - 2) \div 2 + 1 = i
            /\ (2 * i) % 2 = 0 /\ (2 * i - 1) % 2 = 1
        BY <2>1, TickHalves
      <3> HIDE DEF p, q
      <3>4. vertex[p] = Vertex(p) /\ vertex[q] = Vertex(q)
        <4> HIDE DEF Vertex
        <4>1. p \in 1..room /\ q \in 1..room
          BY <3>1, <3>2
        <4> QED
          BY <4>1
      <3>5. Vertex(p) = annotationPos[i] + axisTickSize /\ Vertex(q) = annotationPos[i] + 0
        <4>1. Vertex(p) = annotationPos[(2 * i - 1) \div 2 + 1]
                            + (IF (2 * i) % 2 = 0 THEN axisTickSize ELSE 0)
          BY <3>2, <3>3
        <4>2. Vertex(q) = annotationPos[(2 * i - 2) \div 2 + 1]
                            + (IF (2 * i - 1) % 2 = 0 THEN axisTickSize ELSE 0)
          BY <3>2, <3>3
        <4>3. ~((2 * i - 1) % 2 = 0)
          BY <3>t
        <4> HIDE DEF Vertex
        <4>4. Vertex(q) = annotationPos[(2 * i - 2) \div 2 + 1] + 0
          BY <4>2, <4>3, Zenon
        <4> QED
          BY <4>1, <4>4, <3>t, Zenon
      <3>6. annotationPos[i] \in Int
        BY <2>1
      <3> QED
        BY <3>4, <3>5, <3>6 DEF p, q
    <2> QED
      BY <2>2, <2>3
  <1> HIDE DEF vertex, counts
  <1>8. Lines.vertex = vertex /\ Lines.numVertices = counts
    BY <1>1
  <1> QED
    BY <1>5, <1>6, <1>7, <1>8

AxisTypes == /\ annotationPos \in Seq(Int) /\ view \in Views /\ axisTickSize \in Int
             /\ renderAxis \in BOOLEAN /\ alarm \in Int \cup {None}
AxisInv == AxisTypes /\ AxisShown

(* What AddAnnoText and Lines are made from.                                *)
LEMMA SameTexts ==
  ASSUME UNCHANGED <<annotationPos, view>>
  PROVE  AddAnnoText' = AddAnnoText
  BY DEF AddAnnoText, Between, Corners, Middle, Seen, Apart, Half

LEMMA AxisBegins == AnnotationAssumption /\ AxisInit => AxisInv
  <1> SUFFICES ASSUME AnnotationAssumption, AxisInit PROVE AxisInv
    OBVIOUS
  <1>1. view \in Views
    BY DEF AxisInit, AnnotationAssumption
  <1>2. AxisTypes
    <2>1. annotationPos = << >> /\ renderAxis = FALSE /\ axisTickSize = 0 /\ alarm = None
      BY DEF AxisInit
    <2>2. annotationPos \in Seq(Int) /\ axisTickSize \in Int
      BY <2>1
    <2>3. renderAxis \in BOOLEAN
      BY <2>1
    <2> QED
      BY <2>1, <2>2, <2>3, <1>1 DEF AxisTypes
  <1>3. ChangeNotLost /\ EachOnce /\ LineFollows
    BY DEF AxisInit, ChangeNotLost, EachOnce, LineFollows
  <1> QED
    BY <1>2, <1>3 DEF AxisInv, AxisShown

LEMMA AxisStep ==
  ASSUME AnnotationAssumption, AxisInv, [AxisNext]_annotationvars
  PROVE  AxisInv'
  <1>0. AxisTypes /\ ChangeNotLost /\ EachOnce /\ LineFollows
    BY DEF AxisInv, AxisShown
  <1>a. ASSUME UNCHANGED <<annotationPos, renderAxis, axisTickSize, lines, regen>>
        PROVE  LineFollows'
    BY <1>0, <1>a DEF LineFollows
  <1>b. ASSUME UNCHANGED axisidx PROVE EachOnce'
    BY <1>0, <1>b DEF EachOnce
  <1>c. None \notin Int /\ Ticks \subseteq Int /\ Axes \subseteq Seq(Int)
    BY DEF AnnotationAssumption
  <1>d. SUFFICES AxisTypes' /\ ChangeNotLost' /\ EachOnce' /\ LineFollows'
    BY DEF AxisInv, AxisShown
  <1>1. CASE RenderCollecting
    <2>1. UNCHANGED <<annotationPos, renderAxis, axisTickSize, view, lines, regen, axisidx, alarm>>
          /\ collecting'
      BY <1>1 DEF RenderCollecting, axisfields
    <2> QED
      BY <2>1, <1>0, <1>a, <1>b DEF AxisTypes, ChangeNotLost
  <1>2. CASE Render
    <2>1. UNCHANGED <<annotationPos, renderAxis, axisTickSize, view, lines, regen>>
      BY <1>2 DEF Render, axisfields
    <2>2. \/ AddAnnoText = axisidx /\ UNCHANGED <<axisidx, alarm>>
          \/ PutOff /\ UNCHANGED axisidx
          \/ axisidx' = AddAnnoText /\ UNCHANGED alarm
      BY <1>2 DEF Render
    <2>3. AddAnnoText' = AddAnnoText
      BY <2>1, SameTexts
    <2>4. LineFollows'
      BY <2>1, <1>a
    <2>5. CASE AddAnnoText = axisidx /\ UNCHANGED <<axisidx, alarm>>
      BY <2>1, <2>3, <2>4, <2>5, <1>0, <1>b DEF AxisTypes, ChangeNotLost
    <2>6. CASE PutOff /\ UNCHANGED axisidx
      <3>1. alarm' \in Int /\ alarm' # None
        BY <2>6, <1>0, <1>c DEF PutOff, AxisTypes
      <3> QED
        BY <2>1, <2>4, <2>6, <3>1, <1>0, <1>b DEF AxisTypes, ChangeNotLost
    <2>7. CASE axisidx' = AddAnnoText /\ UNCHANGED alarm
      <3>1. AddAnnoText \in Seq(Int) /\ Once(AddAnnoText)
        BY <1>0, TextsOnce DEF AxisTypes
      <3>2. EachOnce'
        <4>1. axisidx' \in Seq(Int) /\ DOMAIN axisidx' = 1..Len(axisidx')
          BY <2>7, <3>1
        <4>2. \A k, l \in 1..Len(axisidx') : axisidx'[k] = axisidx'[l] => k = l
          BY <2>7, <3>1 DEF Once
        <4> QED
          BY <4>1, <4>2 DEF EachOnce
      <3> QED
        BY <2>1, <2>3, <2>4, <2>7, <3>2, <1>0 DEF AxisTypes, ChangeNotLost
    <2> QED
      BY <2>2, <2>5, <2>6, <2>7
  <1>3. CASE AlarmCB
    <2>1. UNCHANGED <<annotationPos, renderAxis, axisTickSize, view, lines, regen, axisidx>>
          /\ touched' /\ alarm' = None
      BY <1>3 DEF AlarmCB, axisfields
    <2> QED
      BY <2>1, <1>0, <1>a, <1>b DEF AxisTypes, ChangeNotLost
  <1>4. CASE Pass
    <2>1. UNCHANGED <<annotationPos, renderAxis, axisTickSize, view, lines, regen, axisidx,
                      touched, collecting>>
          /\ alarm' = IF alarm = None THEN None ELSE alarm - 1
      BY <1>4 DEF Pass, axisfields
    <2>2. alarm' \in Int \cup {None} /\ (alarm # None => alarm' # None)
      BY <2>1, <1>0, <1>c DEF AxisTypes
    <2>3. AddAnnoText' = AddAnnoText
      BY <2>1, SameTexts
    <2> QED
      BY <2>1, <2>2, <2>3, <1>0, <1>a, <1>b DEF AxisTypes, ChangeNotLost
  <1>5. CASE RegenGeometry
    <2>1. /\ UNCHANGED <<annotationPos, renderAxis, axisTickSize, view, axisidx, alarm,
                         touched, collecting>>
          /\ renderAxis => lines' = Lines
      BY <1>5 DEF RegenGeometry, axisfields
    <2>2. AddAnnoText' = AddAnnoText
      BY <2>1, SameTexts
    <2>3. LineFollows'
      <3> DEFINE n == Len(annotationPos)
      <3>1. ASSUME renderAxis
            PROVE  /\ lines' # None /\ lines'.numVertices[1] = n
                   /\ \A i \in DOMAIN annotationPos :
                         /\ lines'.vertex[i] = annotationPos[i]
                         /\ axisTickSize # 0 =>
                               LET tick == n + 2 * i
                               IN  lines'.vertex[tick] - lines'.vertex[tick - 1] = axisTickSize
        BY <2>1, <3>1, <1>0, LinesFollow DEF AxisTypes
      <3> QED
        BY <2>1, <3>1 DEF LineFollows
    <2> QED
      BY <2>1, <2>2, <2>3, <1>0, <1>b DEF AxisTypes, ChangeNotLost
  <1>6. ASSUME NEW p \in Axes, SetPos(p)
        PROVE  AxisTypes' /\ ChangeNotLost' /\ EachOnce' /\ LineFollows'
    <2>1. /\ UNCHANGED <<renderAxis, axisTickSize, view, axisidx, alarm>>
          /\ annotationPos' = p /\ touched' /\ regen'
      BY <1>6 DEF SetPos, AnnotationNotify
    <2> QED
      BY <2>1, <1>0, <1>b, <1>c DEF AxisTypes, ChangeNotLost, LineFollows
  <1>7. ASSUME NEW b \in BOOLEAN, SetRenderAxis(b)
        PROVE  AxisTypes' /\ ChangeNotLost' /\ EachOnce' /\ LineFollows'
    <2>1. /\ UNCHANGED <<annotationPos, axisTickSize, view, axisidx, alarm>>
          /\ renderAxis' = b /\ touched' /\ regen'
      BY <1>7 DEF SetRenderAxis, AnnotationNotify
    <2> QED
      BY <2>1, <1>0, <1>b DEF AxisTypes, ChangeNotLost, LineFollows
  <1>8. ASSUME NEW s \in Ticks, SetTickSize(s)
        PROVE  AxisTypes' /\ ChangeNotLost' /\ EachOnce' /\ LineFollows'
    <2>1. /\ UNCHANGED <<annotationPos, renderAxis, view, axisidx, alarm>>
          /\ axisTickSize' = s /\ touched' /\ regen'
      BY <1>8 DEF SetTickSize, AnnotationNotify
    <2> QED
      BY <2>1, <1>0, <1>b, <1>c DEF AxisTypes, ChangeNotLost, LineFollows
  <1>9. ASSUME NEW v \in Views, MoveCamera(v)
        PROVE  AxisTypes' /\ ChangeNotLost' /\ EachOnce' /\ LineFollows'
    <2>1. /\ UNCHANGED <<annotationPos, renderAxis, axisTickSize, axisidx, alarm, lines, regen>>
          /\ view' = v /\ touched'
      BY <1>9 DEF MoveCamera
    <2> QED
      BY <2>1, <1>0, <1>a, <1>b DEF AxisTypes, ChangeNotLost
  <1>10. CASE UNCHANGED annotationvars
    <2>1. UNCHANGED <<annotationPos, renderAxis, axisTickSize, view, lines, regen, axisidx,
                      touched, collecting, alarm>>
      BY <1>10 DEF annotationvars, axisfields
    <2>2. AddAnnoText' = AddAnnoText
      BY <2>1, SameTexts
    <2> QED
      BY <2>1, <2>2, <1>0, <1>a, <1>b DEF AxisTypes, ChangeNotLost
  <1> QED
    BY <1>1, <1>2, <1>3, <1>4, <1>5, <1>6, <1>7, <1>8, <1>9, <1>10 DEF AxisNext

(* A change of the annotations is not lost for coming too early after       *)
(* another, no text is drawn twice, and line and ticks follow the fields.   *)
THEOREM AnnotationsAreShown == AnnotationAssumption => (AxisSpec => []AxisShown)
  <1> SUFFICES ASSUME AnnotationAssumption PROVE AxisSpec => []AxisShown
    OBVIOUS
  <1>1. AxisInit => AxisInv
    BY AxisBegins
  <1>2. AxisInv /\ [AxisNext]_annotationvars => AxisInv'
    BY AxisStep
  <1>3. AxisInv => AxisShown
    BY DEF AxisInv
  <1> QED
    BY <1>1, <1>2, <1>3, PTL DEF AxisSpec

-----------------------------------------------------------------------------
(* Objects in a hierarchy.                                                  *)
DynSpec == DynInit /\ [][DynNext]_dynamicvars

OwnParts == \A o \in drawn :
               /\ DOMAIN parts[o] = {IF hasRelativePosition[o] THEN "relative" ELSE "utm"}
               /\ \A kind \in DOMAIN parts[o] : parts[o][kind] = dynamicPosition[o]
OneParent(list) == \A p, q \in Objects : \A i \in 1..Len(list[p]), j \in 1..Len(list[q]) :
                     /\ list[p][i] # Root
                     /\ list[p][i] = list[q][j] => p = q /\ i = j
DynInv == childList \in [Objects -> Seq(Objects)] /\ OwnParts /\ OneParent(childList)

LEMMA FirstRemoved ==
  ASSUME NEW S, NEW s \in Seq(S), NEW e
  PROVE  \/ RemoveFirst(s, e) = s
         \/ \E k \in 1..Len(s) : RemoveFirst(s, e) \in Seq(S) /\ Without(RemoveFirst(s, e), s, k)
  <1>1. CASE \E i \in 1..Len(s) : s[i] = e
    <2> DEFINE I == {i \in 1..Len(s) : s[i] = e}
               k == SelectInSeq(s, LAMBDA v : v = e)
    <2>1. I # {} /\ I \in SUBSET Nat
      BY <1>1
    <2>2. k = Min(I)
      BY <2>1 DEF SelectInSeq
    <2>3. k \in I
      <3> HIDE DEF I, k
      <3> QED
        BY <2>1, <2>2, Least
    <2>4. RemoveFirst(s, e) = RemoveAt(s, k)
      BY <1>1 DEF RemoveFirst
    <2>5. k \in 1..Len(s)
      BY <2>3
    <2> HIDE DEF k
    <2> QED
      BY <2>4, <2>5, RemovedIs
  <1>2. CASE ~(\E i \in 1..Len(s) : s[i] = e)
    <2>1. RemoveFirst(s, e) = s
      BY <1>2 DEF RemoveFirst
    <2> QED
      BY <2>1
  <1> QED
    BY <1>1, <1>2

(* Taking items away leaves those that stay in one place each.              *)
LEMMA StillOneParent ==
  ASSUME NEW f \in [Objects -> Seq(Objects)], NEW g, OneParent(f),
         \A p \in Objects : \/ g[p] = f[p]
                            \/ \E k \in 1..Len(f[p]) : g[p] \in Seq(Objects) /\ Without(g[p], f[p], k)
  PROVE  OneParent(g)
  <1>1. ASSUME NEW p \in Objects
        PROVE  \E h \in [1..Len(g[p]) -> 1..Len(f[p])] :
                 /\ \A i \in 1..Len(g[p]) : g[p][i] = f[p][h[i]]
                 /\ \A i, j \in 1..Len(g[p]) : h[i] = h[j] => i = j
    <2>0. Len(f[p]) \in Nat
      OBVIOUS
    <2>1. CASE g[p] = f[p]
      <3> DEFINE h == [i \in 1..Len(g[p]) |-> i]
      <3>1. /\ h \in [1..Len(g[p]) -> 1..Len(f[p])]
            /\ \A i \in 1..Len(g[p]) : g[p][i] = f[p][h[i]]
            /\ \A i, j \in 1..Len(g[p]) : h[i] = h[j] => i = j
        BY <2>1
      <3> HIDE DEF h
      <3> QED
        BY <3>1
    <2>2. ASSUME NEW k \in 1..Len(f[p]), g[p] \in Seq(Objects), Without(g[p], f[p], k)
          PROVE  \E h \in [1..Len(g[p]) -> 1..Len(f[p])] :
                   /\ \A i \in 1..Len(g[p]) : g[p][i] = f[p][h[i]]
                   /\ \A i, j \in 1..Len(g[p]) : h[i] = h[j] => i = j
      <3> DEFINE n == Len(f[p])
                 h == [i \in 1..(n - 1) |-> IF i < k THEN i ELSE i + 1]
      <3>1. n \in Nat /\ k \in 1..n /\ Len(g[p]) = n - 1
        BY <2>0, <2>2 DEF Without
      <3>2. \A i \in 1..(n - 1) : g[p][i] = IF i < k THEN f[p][i] ELSE f[p][i + 1]
        BY <2>2 DEF Without
      <3> HIDE DEF n
      <3>3. h \in [1..(n - 1) -> 1..n]
        BY <3>1
      <3>4. \A i \in 1..(n - 1) : g[p][i] = f[p][h[i]]
        BY <3>2
      <3>5. \A i, j \in 1..(n - 1) : h[i] = h[j] => i = j
        BY <3>1
      <3> HIDE DEF h
      <3> QED
        BY <3>1, <3>3, <3>4, <3>5 DEF n
    <2> QED
      BY <2>1, <2>2
  <1>2. ASSUME NEW p \in Objects, NEW q \in Objects,
               NEW i \in 1..Len(g[p]), NEW j \in 1..Len(g[q])
        PROVE  /\ g[p][i] # Root
               /\ g[p][i] = g[q][j] => p = q /\ i = j
    <2>1. PICK h \in [1..Len(g[p]) -> 1..Len(f[p])] :
            /\ \A x \in 1..Len(g[p]) : g[p][x] = f[p][h[x]]
            /\ \A x, y \in 1..Len(g[p]) : h[x] = h[y] => x = y
      BY <1>1
    <2>2. PICK e \in [1..Len(g[q]) -> 1..Len(f[q])] :
            /\ \A x \in 1..Len(g[q]) : g[q][x] = f[q][e[x]]
            /\ \A x, y \in 1..Len(g[q]) : e[x] = e[y] => x = y
      BY <1>1
    <2>3. g[p][i] = f[p][h[i]] /\ h[i] \in 1..Len(f[p])
      BY <2>1
    <2>4. g[q][j] = f[q][e[j]] /\ e[j] \in 1..Len(f[q])
      BY <2>2
    <2>5. g[p][i] # Root
      BY <2>3 DEF OneParent
    <2>6. ASSUME g[p][i] = g[q][j] PROVE p = q /\ i = j
      <3>1. p = q /\ h[i] = e[j]
        <4> DEFINE x == h[i]
                   y == e[j]
        <4>1. x \in 1..Len(f[p]) /\ y \in 1..Len(f[q]) /\ f[p][x] = f[q][y]
          BY <2>3, <2>4, <2>6
        <4> HIDE DEF x, y
        <4>2. p = q /\ x = y
          BY <4>1 DEF OneParent
        <4> QED
          BY <4>2 DEF x, y
      <3>2. g[p][j] = f[p][h[j]] /\ h[j] \in 1..Len(f[p])
        BY <2>1, <3>1
      <3>3. h[i] = h[j]
        BY <2>3, <3>1, <3>2, <2>6 DEF OneParent
      <3> QED
        BY <3>1, <3>3, <2>1
    <2> QED
      BY <2>5, <2>6
  <1> QED
    BY <1>2 DEF OneParent

LEMMA DynStep == DynInv /\ [DynNext]_dynamicvars => DynInv'
  <1> SUFFICES ASSUME DynInv, [DynNext]_dynamicvars PROVE DynInv'
    OBVIOUS
  <1>0. childList \in [Objects -> Seq(Objects)] /\ OwnParts /\ OneParent(childList)
    BY DEF DynInv
  <1>a. ASSUME drawn' = {} PROVE OwnParts'
    BY <1>a DEF OwnParts
  <1>1. ASSUME NEW o \in Objects \ {Root}, NEW id \in Ids, AddObject(o, id) PROVE DynInv'
    <2> DEFINE to == ObjectById(id)
    <2>1. /\ \A p \in Objects : o \notin ChildrenOf(p)
          /\ childList' = [p \in Objects |-> IF p \in to THEN Append(childList[p], o)
                                             ELSE childList[p]]
          /\ drawn' = {}
      BY <1>1 DEF AddObject
    <2>2. \A p, q \in to : p = q
      BY DEF ObjectById
    <2>3. \A p \in Objects : \A i \in 1..Len(childList[p]) : childList[p][i] # o
      BY <2>1, <1>0 DEF ChildrenOf, ToSet
    <2> HIDE DEF to
    <2>4. ASSUME NEW p \in Objects
          PROVE  /\ childList'[p] \in Seq(Objects)
                 /\ \/ childList'[p] = childList[p]
                    \/ /\ p \in to /\ Len(childList'[p]) = Len(childList[p]) + 1
                       /\ childList'[p][Len(childList[p]) + 1] = o
                       /\ \A i \in 1..Len(childList[p]) : childList'[p][i] = childList[p][i]
      <3>1. childList[p] \in Seq(Objects)
        BY <1>0
      <3>2. CASE p \in to
        <4>1. childList'[p] = Append(childList[p], o)
          BY <2>1, <3>2
        <4> QED
          BY <3>1, <3>2, <4>1
      <3>3. CASE p \notin to
        BY <2>1, <3>1, <3>3
      <3> QED
        BY <3>2, <3>3
    <2>5. childList' \in [Objects -> Seq(Objects)]
      BY <2>1, <2>4
    <2>6. ASSUME NEW p \in Objects, NEW i \in 1..Len(childList'[p])
          PROVE  \/ i \in 1..Len(childList[p]) /\ childList'[p][i] = childList[p][i]
                 \/ p \in to /\ i = Len(childList[p]) + 1 /\ childList'[p][i] = o
      <3>1. Len(childList[p]) \in Nat
        BY <1>0
      <3> QED
        BY <2>4, <3>1
    <2>7. ASSUME NEW p \in Objects, NEW q \in Objects,
                 NEW i \in 1..Len(childList'[p]), NEW j \in 1..Len(childList'[q])
          PROVE  /\ childList'[p][i] # Root
                 /\ childList'[p][i] = childList'[q][j] => p = q /\ i = j
      <3>1. CASE /\ i \in 1..Len(childList[p]) /\ childList'[p][i] = childList[p][i]
                 /\ j \in 1..Len(childList[q]) /\ childList'[q][j] = childList[q][j]
        BY <3>1, <1>0 DEF OneParent
      <3>2. CASE /\ p \in to /\ i = Len(childList[p]) + 1 /\ childList'[p][i] = o
                 /\ q \in to /\ j = Len(childList[q]) + 1 /\ childList'[q][j] = o
        BY <3>2, <2>2
      <3>3. CASE /\ p \in to /\ i = Len(childList[p]) + 1 /\ childList'[p][i] = o
                 /\ j \in 1..Len(childList[q]) /\ childList'[q][j] = childList[q][j]
        BY <3>3, <2>3
      <3>4. CASE /\ i \in 1..Len(childList[p]) /\ childList'[p][i] = childList[p][i]
                 /\ q \in to /\ j = Len(childList[q]) + 1 /\ childList'[q][j] = o
        <4>1. childList[p][i] # o /\ childList[p][i] # Root
          BY <3>4, <2>3, <1>0 DEF OneParent
        <4> QED
          BY <3>4, <4>1
      <3> QED
        BY <2>6, <3>1, <3>2, <3>3, <3>4
    <2>8. OneParent(childList')
      BY <2>7 DEF OneParent
    <2> QED
      BY <2>1, <2>5, <2>8, <1>a DEF DynInv
  <1>2. ASSUME NEW id \in Ids, RemoveObject(id) PROVE DynInv'
    <2> DEFINE found == WithId(Tail(Below(Root)), id)
    <2>1. drawn' = {} /\ childList' = IF found = << >> THEN childList
                        ELSE [p \in Objects |-> RemoveFirst(childList[p], found[1])]
      BY <1>2 DEF RemoveObject
    <2> DEFINE e == found[1]
    <2>2. CASE found = << >>
      <3>1. childList' = childList
        BY <2>1, <2>2
      <3> QED
        BY <2>1, <3>1, <1>0, <1>a DEF DynInv
    <2>3. CASE found # << >>
      <3>1. childList' = [p \in Objects |-> RemoveFirst(childList[p], e)]
        BY <2>1, <2>3
      <3> HIDE DEF e, found
      <3>2. \A p \in Objects : childList[p] \in Seq(Objects)
        BY <1>0
      <3>3. \A p \in Objects : childList'[p] = RemoveFirst(childList[p], e)
        BY <3>1
      <3>4. \A p \in Objects :
              \/ childList'[p] = childList[p]
              \/ \E k \in 1..Len(childList[p]) :
                   childList'[p] \in Seq(Objects) /\ Without(childList'[p], childList[p], k)
        <4> TAKE p \in Objects
        <4> DEFINE s == childList[p]
        <4>1. s \in Seq(Objects) /\ childList'[p] = RemoveFirst(s, e)
          BY <3>2, <3>3
        <4> HIDE DEF s
        <4>2. \/ RemoveFirst(s, e) = s
              \/ \E k \in 1..Len(s) :
                   RemoveFirst(s, e) \in Seq(Objects) /\ Without(RemoveFirst(s, e), s, k)
          BY <4>1, FirstRemoved
        <4> QED
          BY <4>1, <4>2 DEF s
      <3>5. childList' \in [Objects -> Seq(Objects)]
        <4>1. \A p \in Objects : childList'[p] \in Seq(Objects)
          BY <3>2, <3>4
        <4> QED
          BY <3>1, <3>3, <4>1
      <3>6. OneParent(childList')
        <4> DEFINE f == childList
                   g == childList'
        <4>1. f \in [Objects -> Seq(Objects)] /\ OneParent(f)
          BY <1>0
        <4>2. \A p \in Objects : \/ g[p] = f[p]
                            \/ \E k \in 1..Len(f[p]) : g[p] \in Seq(Objects) /\ Without(g[p], f[p], k)
          BY <3>4
        <4> HIDE DEF f, g
        <4>3. OneParent(g)
          BY <4>1, <4>2, StillOneParent
        <4> QED
          BY <4>3 DEF g
      <3> QED
        BY <2>1, <3>5, <3>6, <1>a DEF DynInv
    <2> QED
      BY <2>2, <2>3
  <1>3. ASSUME NEW o \in Edited, NEW p \in Spots, SetPosition(o, p) PROVE DynInv'
    BY <1>3, <1>0, <1>a DEF SetPosition, DynInv
  <1>4. ASSUME NEW o \in Edited, NEW onoff \in BOOLEAN, SetRelative(o, onoff) PROVE DynInv'
    BY <1>4, <1>0, <1>a DEF SetRelative, DynInv
  <1>5. ASSUME NEW o \in Edited, SetGeometryVisibility(o) PROVE DynInv'
    BY <1>5, <1>0, <1>a DEF SetGeometryVisibility, DynInv
  <1>6. ASSUME NEW o \in Edited, Reset(o) PROVE DynInv'
    <2>1. childList' = [childList EXCEPT ![o] = << >>] /\ drawn' = {}
      BY <1>6 DEF Reset
    <2>2. \A p \in Objects : childList'[p] = childList[p] \/ childList'[p] = << >>
      BY <2>1, <1>0
    <2>3. \A p \in Objects : \A i \in 1..Len(childList'[p]) :
             i \in 1..Len(childList[p]) /\ childList'[p][i] = childList[p][i]
      <3>1. Len(<< >>) = 0
        OBVIOUS
      <3> QED
        BY <2>2, <3>1
    <2>4. OneParent(childList')
      <3>1. ASSUME NEW p \in Objects, NEW q \in Objects,
                   NEW i \in 1..Len(childList'[p]), NEW j \in 1..Len(childList'[q])
            PROVE  /\ childList'[p][i] # Root
                   /\ childList'[p][i] = childList'[q][j] => p = q /\ i = j
        <4>1. i \in 1..Len(childList[p]) /\ childList'[p][i] = childList[p][i]
          BY <2>3
        <4>2. j \in 1..Len(childList[q]) /\ childList'[q][j] = childList[q][j]
          BY <2>3
        <4> QED
          BY <4>1, <4>2, <1>0 DEF OneParent
      <3> QED
        BY <3>1 DEF OneParent
    <2>5. childList' \in [Objects -> Seq(Objects)]
      <3>1. << >> \in Seq(Objects)
        OBVIOUS
      <3> DEFINE none == << >>
      <3>2. none \in Seq(Objects) /\ childList' = [childList EXCEPT ![o] = none]
        BY <2>1, <3>1
      <3> HIDE DEF none
      <3> QED
        BY <3>2, <1>0
    <2> QED
      BY <2>1, <2>4, <2>5, <1>a DEF DynInv
  <1>7. CASE ObjectGLRender
    <2>1. /\ drawn' = DrawnBelow(Root)
          /\ parts' = [o \in Objects |-> IF o \in drawn' THEN UpdateScene(o) ELSE parts[o]]
          /\ UNCHANGED <<childList, hasRelativePosition, dynamicPosition>>
      BY <1>7 DEF ObjectGLRender
    <2>2. drawn' \subseteq Objects
      BY <2>1 DEF DrawnBelow
    <2>3. ASSUME NEW o \in drawn'
          PROVE  /\ DOMAIN parts'[o] = {IF hasRelativePosition[o] THEN "relative" ELSE "utm"}
                 /\ \A kind \in DOMAIN parts'[o] : parts'[o][kind] = dynamicPosition[o]
      <3>1. parts'[o] = UpdateScene(o)
        BY <2>1, <2>2
      <3> QED
        BY <3>1 DEF UpdateScene
    <2>4. OwnParts'
      BY <2>1, <2>3 DEF OwnParts
    <2> QED
      BY <2>1, <2>4, <1>0 DEF DynInv
  <1>8. CASE UNCHANGED dynamicvars
    <2>1. UNCHANGED <<childList, hasRelativePosition, dynamicPosition, parts, drawn>>
      BY <1>8 DEF dynamicvars
    <2> QED
      BY <2>1, <1>0 DEF DynInv, OwnParts
  <1> QED
    BY <1>1, <1>2, <1>3, <1>4, <1>5, <1>6, <1>7, <1>8 DEF DynNext

(* What is drawn has the one position of its fields, and an object one      *)
(* place in the hierarchy.                                                  *)
THEOREM ObjectsHaveOnePlace == DynSpec => []OnePlace
  <1>1. DynInit => DynInv
    <2> SUFFICES ASSUME DynInit PROVE DynInv
      OBVIOUS
    <2>1. drawn = {} /\ childList = [o \in Objects |-> << >>]
      BY DEF DynInit
    <2>2. childList \in [Objects -> Seq(Objects)] /\ \A o \in Objects : Len(childList[o]) = 0
      BY <2>1
    <2> QED
      BY <2>1, <2>2 DEF DynInv, OwnParts, OneParent
  <1>2. DynInv /\ [DynNext]_dynamicvars => DynInv'
    BY DynStep
  <1>3. DynInv => OnePlace
    <2> SUFFICES ASSUME DynInv PROVE OnePlace
      OBVIOUS
    <2>1. \A p \in Objects : DOMAIN childList[p] = 1..Len(childList[p])
      BY DEF DynInv
    <2>2. ASSUME NEW p \in Objects, NEW q \in Objects,
                 NEW i \in DOMAIN childList[p], NEW j \in DOMAIN childList[q]
          PROVE  /\ childList[p][i] # Root
                 /\ childList[p][i] = childList[q][j] => p = q /\ i = j
      <3>1. i \in 1..Len(childList[p]) /\ j \in 1..Len(childList[q])
        BY <2>1
      <3> QED
        BY <3>1 DEF DynInv, OneParent
    <2>3. OwnParts
      BY DEF DynInv
    <2> HIDE DEF DynInv
    <2> QED
      BY <2>2, <2>3, Zenon DEF OnePlace, OwnParts
  <1> QED
    BY <1>1, <1>2, <1>3, PTL DEF DynSpec

-----------------------------------------------------------------------------
(* The curves of a well log.                                                *)
WellSpec == WellInit /\ [][WellNext]_wellvars

WellOk(w) == /\ w.z \in Seq(Int) /\ w.left \in Seq(Int) /\ w.right \in Seq(Int)
             /\ Len(w.left) >= Len(w.z) /\ Len(w.right) >= Len(w.z)
             /\ w.tops \in Seq(Int) /\ (w.z = << >> => w.tops = << >>)
PosSet == [z : Int, left : Int, right : Int, realidx : Nat]

LEMMA SeqBounded ==
  ASSUME NEW s \in Seq(Int)
  PROVE  \E low, high \in Int : \A i \in 1..Len(s) : low <= s[i] /\ s[i] <= high
  <1> DEFINE n == Len(s)
             T == {m \in 0..n : \E low, high \in Int : \A i \in 1..m : low <= s[i] /\ s[i] <= high}
  <1>1. n \in Nat /\ 0 \in T
    OBVIOUS
  <1>2. ASSUME NEW m \in 1..n, m - 1 \in T PROVE m \in T
    <2>1. PICK low \in Int, high \in Int : \A i \in 1..(m - 1) : low <= s[i] /\ s[i] <= high
      BY <1>2
    <2>2. s[m] \in Int
      OBVIOUS
    <2> DEFINE a == IF s[m] < low THEN s[m] ELSE low
               b == IF s[m] > high THEN s[m] ELSE high
    <2>3. a \in Int /\ b \in Int /\ a <= low /\ high <= b /\ a <= s[m] /\ s[m] <= b
      BY <2>2
    <2> HIDE DEF a, b
    <2>4. \A i \in 1..m : a <= s[i] /\ s[i] <= b
      <3> TAKE i \in 1..m
      <3>1. CASE i = m
        BY <3>1, <2>3
      <3>2. CASE i # m
        <4>1. i \in 1..(m - 1) /\ i \in 1..n
          BY <3>2, <1>1
        <4>2. low <= s[i] /\ s[i] <= high /\ s[i] \in Int
          BY <2>1, <4>1
        <4> QED
          BY <4>2, <2>3
      <3> QED
        BY <3>1, <3>2
    <2>5. \E x, y \in Int : \A i \in 1..m : x <= s[i] /\ s[i] <= y
      BY <2>3, <2>4
    <2>6. m \in 0..n
      BY <1>1
    <2> QED
      BY <2>5, <2>6
  <1> HIDE DEF T
  <1>3. n \in T
    <2>1. 0..n \subseteq T
      BY <1>1, <1>2, UpTo
    <2> QED
      BY <2>1, <1>1
  <1> QED
    BY <1>3 DEF T

(* Bounded numbers have a least and a greatest.                             *)
LEMMA Extremes ==
  ASSUME NEW low \in Int, NEW high \in Int, NEW D \in SUBSET Int, D # {},
         \A x \in D : low <= x /\ x <= high
  PROVE  /\ \E v \in D : \A w \in D : v <= w
         /\ \E v \in D : \A w \in D : w <= v
  <1>1. \E v \in D : \A w \in D : w <= v
    <2>1. \A y \in D : y <= high
      OBVIOUS
    <2>2. Max(D) \in D /\ \A y \in D : y <= Max(D)
      BY <2>1, Greatest
    <2> QED
      BY <2>2
  <1>2. \E v \in D : \A w \in D : v <= w
    <2> DEFINE E == {-x : x \in D}
    <2>1. E \in SUBSET Int /\ E # {} /\ \A y \in E : y <= -low
      <3>1. \A x \in D : -x \in Int /\ -x <= -low
        OBVIOUS
      <3>2. \A y \in E : y \in Int /\ y <= -low
        BY <3>1
      <3>3. E # {}
        <4>1. PICK x \in D : TRUE
          OBVIOUS
        <4> QED
          BY <4>1
      <3> QED
        BY <3>2, <3>3
    <2> HIDE DEF E
    <2>2. Max(E) \in E /\ \A y \in E : y <= Max(E)
      <3>1. -low \in Int
        OBVIOUS
      <3> QED
        BY <2>1, <3>1, Greatest
    <2>3. PICK v \in D : Max(E) = -v
      BY <2>2 DEF E
    <2>4. \A w \in D : v <= w
      <3> TAKE w \in D
      <3>1. -w \in E
        BY DEF E
      <3>2. -w <= -v
        BY <2>2, <2>3, <3>1
      <3> QED
        BY <3>2
    <2> QED
      BY <2>4
  <1> QED
    BY <1>1, <1>2

(* No value of a curve is more than twice as far from the well as another.  *)
Narrow(offsets) == \A i, j \in DOMAIN offsets : offsets[i] # 0 /\ offsets[j] # 0 =>
                     offsets[i] <= 2 * offsets[j]

LEMMA OffsetsNarrow ==
  ASSUME NEW curve \in Seq(Int), NEW atleast \in {{}, {0}}, UndefVal \in Int
  PROVE  Narrow(Offsets(curve, atleast))
  <1> DEFINE defined == {v \in ToSet(curve) : v # UndefVal}
             least == CHOOSE v \in defined : \A w \in defined : v <= w
             greatest == CHOOSE v \in defined \cup atleast : \A w \in defined \cup atleast : w <= v
             diff == IF greatest = least THEN 1 ELSE greatest - least
             o == [i \in DOMAIN curve |-> IF curve[i] = UndefVal THEN 0 ELSE curve[i] - least + diff]
  <1>1. Offsets(curve, atleast) = o
    BY DEF Offsets
  <1>2. SUFFICES ASSUME NEW i \in DOMAIN curve, NEW j \in DOMAIN curve, o[i] # 0, o[j] # 0
                 PROVE  o[i] <= 2 * o[j]
    BY <1>1 DEF Narrow
  <1>3. curve[i] # UndefVal /\ curve[j] # UndefVal
    BY <1>2
  <1>4. PICK low \in Int, high \in Int : \A k \in 1..Len(curve) : low <= curve[k] /\ curve[k] <= high
    BY SeqBounded
  <1>5. \A v \in defined : v \in Int /\ low <= v /\ v <= high
    BY <1>4 DEF ToSet
  <1>6. curve[i] \in defined /\ curve[j] \in defined
    BY <1>3 DEF ToSet
  <1> DEFINE all == defined \cup atleast
             top == IF high > 0 THEN high ELSE 0
             bottom == IF low < 0 THEN low ELSE 0
  <1> HIDE DEF defined
  <1>7. least \in defined /\ \A w \in defined : least <= w
    <2>1. defined \in SUBSET Int /\ defined # {}
      BY <1>5, <1>6
    <2>2. \E v \in defined : \A w \in defined : v <= w
      BY <2>1, <1>5, Extremes
    <2> QED
      BY <2>2
  <1>8. greatest \in all /\ \A w \in all : w <= greatest
    <2>1. all \in SUBSET Int /\ all # {} /\ top \in Int /\ bottom \in Int
      BY <1>5, <1>6
    <2>2. \A v \in all : bottom <= v /\ v <= top
      <3> TAKE v \in all
      <3>1. v \in defined \/ v = 0
        OBVIOUS
      <3> QED
        BY <3>1, <1>5
    <2> HIDE DEF all, top, bottom
    <2>3. \E v \in all : \A w \in all : w <= v
      BY <2>1, <2>2, Extremes
    <2> QED
      BY <2>3 DEF all
  <1>9. least \in Int /\ greatest \in Int /\ least <= greatest
    BY <1>5, <1>7, <1>8
  <1>10. /\ curve[i] \in Int /\ least <= curve[i] /\ curve[i] <= greatest
         /\ curve[j] \in Int /\ least <= curve[j] /\ curve[j] <= greatest
    BY <1>5, <1>6, <1>7, <1>8
  <1>11. o[i] = curve[i] - least + diff /\ o[j] = curve[j] - least + diff
    BY <1>3
  <1> HIDE DEF least, greatest, o
  <1>12. CASE greatest = least
    BY <1>12, <1>9, <1>10, <1>11
  <1>13. CASE greatest # least
    BY <1>13, <1>9, <1>10, <1>11
  <1> QED
    BY <1>12, <1>13

(* The list of positions.                                                   *)
LEMMA ListUpdated ==
  ASSUME NEW f, WellOk(f)
  PROVE  UpdateList(f) \in Seq(PosSet)
  <1> DEFINE n == Len(f.z)
             Pos(i) == [z |-> f.z[i], left |-> f.left[i], right |-> f.right[i], realidx |-> i]
             D == {i \in 1..n : f.z[i] # UndefVal}
             item == [i \in 1..n |-> Pos(i)]
             Makes(g) == g = [i \in 0..n |-> IF i = 0 THEN << >>
                                ELSE IF f.z[i] # UndefVal THEN Append(g[i - 1], Pos(i))
                                ELSE g[i - 1]]
             made == CHOOSE g : Makes(g)
  <1>1. UpdateList(f) = made[n]
    BY DEF UpdateList
  <1>2. n \in Nat /\ D \in SUBSET (1..n)
    BY DEF WellOk
  <1>3. item \in [1..n -> PosSet]
    <2>1. \A i \in 1..n : Pos(i) \in PosSet
      <3> TAKE i \in 1..n
      <3> DEFINE z == f.z
                 left == f.left
                 right == f.right
      <3>0. /\ z \in Seq(Int) /\ left \in Seq(Int) /\ right \in Seq(Int)
            /\ Len(left) >= Len(z) /\ Len(right) >= Len(z) /\ i \in 1..Len(z)
        BY DEF WellOk
      <3> HIDE DEF z, left, right
      <3>1. i \in Nat /\ i \in 1..Len(left) /\ i \in 1..Len(right)
        BY <3>0
      <3>2. f.z[i] \in Int /\ f.left[i] \in Int /\ f.right[i] \in Int
        <4>1. z[i] \in Int /\ left[i] \in Int /\ right[i] \in Int
          BY <3>0, <3>1
        <4> QED
          BY <4>1 DEF z, left, right
      <3> QED
        BY <3>1, <3>2 DEF PosSet
    <2> HIDE DEF Pos
    <2> QED
      BY <2>1
  <1>4. ASSUME NEW g PROVE Makes(g) <=> Filters(g, n, D, item)
    <2>1. ASSUME NEW i \in 0..n, i # 0
          PROVE  Pos(i) = item[i] /\ (i \in D <=> f.z[i] # UndefVal)
      <3>1. i \in 1..n
        BY <1>2, <2>1
      <3> QED
        BY <3>1
    <2> DEFINE A(i) == IF i = 0 THEN << >> ELSE IF f.z[i] # UndefVal THEN Append(g[i - 1], Pos(i))
                       ELSE g[i - 1]
               B(i) == IF i = 0 THEN << >> ELSE IF i \in D THEN Append(g[i - 1], item[i])
                       ELSE g[i - 1]
    <2>2. [i \in 0..n |-> A(i)] = [i \in 0..n |-> B(i)]
      <3>1. \A i \in 0..n : A(i) = B(i)
        <4> HIDE DEF item, n, D, Pos
        <4> QED
          BY <2>1
      <3> HIDE DEF item, n, A, B
      <3> QED
        BY <3>1
    <2> HIDE DEF item, n, D, Pos
    <2> QED
      BY <2>2 DEF Filters
  <1> HIDE DEF item, n, D, Pos
  <1>5. \E g : Makes(g)
    <2> HIDE DEF Makes
    <2>1. PICK g : Filters(g, n, D, item)
      BY <1>2, <1>3, FilterRuns
    <2> QED
      BY <2>1, <1>4
  <1>6. Filters(made, n, D, item)
    <2> HIDE DEF Makes
    <2>1. Makes(made)
      BY <1>5
    <2> HIDE DEF made
    <2> QED
      BY <2>1, <1>4
  <1> HIDE DEF made, Makes
  <1>7. made[n] \in Seq(PosSet)
    BY <1>2, <1>3, <1>6, Filtered
  <1> QED
    BY <1>1, <1>7

(* Points of faces are on the well or on a curve where it is defined.       *)
DefinedAt(p, k) == IF k <= Len(p) THEN TRUE
                   ELSE IF k <= 2 * Len(p) THEN p[k - Len(p)].left # UndefVal
                   ELSE p[k - 2 * Len(p)].right # UndefVal
PointSet(p) == {k \in 1..(3 * Len(p)) : DefinedAt(p, k)}
FaceSet(p) == {f \in Seq(Int) : ToSet(f) \subseteq PointSet(p)}

LEMMA FourPoints ==
  ASSUME NEW p, NEW a \in PointSet(p), NEW b \in PointSet(p), NEW c \in PointSet(p),
         NEW d \in PointSet(p), PointSet(p) \subseteq Int
  PROVE  <<a, b, c, d>> \in FaceSet(p)
  <1> DEFINE f == <<a, b, c, d>>
  <1>1. f \in Seq(Int) /\ Len(f) = 4 /\ f[1] = a /\ f[2] = b /\ f[3] = c /\ f[4] = d
    OBVIOUS
  <1> HIDE DEF f
  <1>2. \A i \in 1..4 : i = 1 \/ i = 2 \/ i = 3 \/ i = 4
    OBVIOUS
  <1>3. DOMAIN f = 1..4
    BY <1>1
  <1>4. \A i \in DOMAIN f : f[i] \in PointSet(p)
    BY <1>1, <1>2, <1>3
  <1>5. ToSet(f) \subseteq PointSet(p)
    BY <1>4 DEF ToSet
  <1>6. f \in FaceSet(p)
    BY <1>1, <1>5 DEF FaceSet
  <1> QED
    BY <1>6 DEF f

LEMMA FaceMade ==
  ASSUME NEW p \in Seq(PosSet), NEW i \in 1..(Len(p) - 1), NEW side \in {"left", "right"}
  PROVE  /\ Face(p, i, side) \in Seq(FaceSet(p))
         /\ Len(Face(p, i, side)) = IF i \in Joined(Curve(p, side)) THEN 1 ELSE 0
  <1> DEFINE n == Len(p)
             c == Curve(p, side)
  <1>1. n \in Nat /\ i \in Int /\ i \in 1..n /\ i + 1 \in 1..n
    OBVIOUS
  <1>2. c = [j \in 1..n |-> p[j][side]]
    BY DEF Curve
  <1>3. Len(c) = n /\ c[i] = p[i][side] /\ c[i + 1] = p[i + 1][side]
    BY <1>1, <1>2
  <1>4. i \in Joined(c) <=> c[i] # UndefVal /\ c[i + 1] # UndefVal
    BY <1>1, <1>3 DEF Joined
  <1> HIDE DEF c
  <1>5. CASE c[i] = UndefVal \/ c[i + 1] = UndefVal
    <2>1. Face(p, i, side) = << >>
      BY <1>5 DEF Face, c
    <2> QED
      BY <2>1, <1>4, <1>5 DEF c
  <1>6. CASE c[i] # UndefVal /\ c[i + 1] # UndefVal
    <2>1. \A k \in 1..n : k \in PointSet(p)
      BY <1>1 DEF PointSet, DefinedAt
    <2>2. PointSet(p) \subseteq Int
      BY DEF PointSet
    <2> DEFINE f == IF side = "left" THEN <<i, n + i, n + i + 1, i + 1>>
                    ELSE <<i, i + 1, 2 * n + i + 1, 2 * n + i>>
    <2>3. f \in FaceSet(p)
      <3>1. CASE side = "left"
        <4> DEFINE k == n + i
                   l == n + i + 1
        <4>1. /\ k \in 1..(3 * n) /\ ~(k <= n) /\ k <= 2 * n /\ k - n = i
              /\ l \in 1..(3 * n) /\ ~(l <= n) /\ l <= 2 * n /\ l - n = i + 1
          BY <1>1
        <4> HIDE DEF k, l
        <4>2. p[i].left # UndefVal /\ p[i + 1].left # UndefVal
          BY <1>6, <1>3, <3>1
        <4>3. k \in PointSet(p) /\ l \in PointSet(p)
          BY <4>1, <4>2 DEF PointSet, DefinedAt
        <4>4. i \in PointSet(p) /\ i + 1 \in PointSet(p)
          BY <1>1, <2>1
        <4> DEFINE m == i + 1
        <4> HIDE DEF m
        <4>5. <<i, k, l, m>> \in FaceSet(p)
          BY <4>3, <4>4, <2>2, FourPoints DEF m
        <4> QED
          BY <4>5, <3>1 DEF k, l, m
      <3>2. CASE side = "right"
        <4> DEFINE k == 2 * n + i
                   l == 2 * n + i + 1
        <4>1. /\ k \in 1..(3 * n) /\ ~(k <= n) /\ ~(k <= 2 * n) /\ k - 2 * n = i
              /\ l \in 1..(3 * n) /\ ~(l <= n) /\ ~(l <= 2 * n) /\ l - 2 * n = i + 1
          BY <1>1
        <4> HIDE DEF k, l
        <4>2. p[i].right # UndefVal /\ p[i + 1].right # UndefVal
          BY <1>6, <1>3, <3>2
        <4>3. k \in PointSet(p) /\ l \in PointSet(p)
          BY <4>1, <4>2 DEF PointSet, DefinedAt
        <4>4. i \in PointSet(p) /\ i + 1 \in PointSet(p)
          BY <1>1, <2>1
        <4> DEFINE m == i + 1
        <4> HIDE DEF m
        <4>5. <<i, m, l, k>> \in FaceSet(p)
          BY <4>3, <4>4, <2>2, FourPoints DEF m
        <4> QED
          BY <4>5, <3>2 DEF k, l, m
      <3> QED
        BY <3>1, <3>2
    <2>4. Face(p, i, side) = <<f>>
      BY <1>6 DEF Face, c
    <2> HIDE DEF f
    <2>5. Face(p, i, side) \in Seq(FaceSet(p)) /\ Len(Face(p, i, side)) = 1
      BY <2>3, <2>4
    <2> QED
      BY <2>5, <1>4, <1>6 DEF c
  <1> QED
    BY <1>5, <1>6

Faced(p, l) == /\ l \in Seq(FaceSet(p))
               /\ Len(l) = Cardinality(Joined(Curve(p, "left")))
                             + Cardinality(Joined(Curve(p, "right")))

LEMMA TwoJoined ==
  ASSUME NEW S, NEW g \in Seq(S), NEW a \in Seq(S)
  PROVE  g \o a \in Seq(S) /\ Len(g \o a) = Len(g) + Len(a)
  OBVIOUS

LEMMA ThreeJoined ==
  ASSUME NEW S, NEW g \in Seq(S), NEW a \in Seq(S), NEW b \in Seq(S)
  PROVE  g \o a \o b \in Seq(S) /\ Len(g \o a \o b) = Len(g) + Len(a) + Len(b)
  <1>1. g \o a \in Seq(S) /\ Len(g \o a) = Len(g) + Len(a)
    BY TwoJoined
  <1> DEFINE h == g \o a
  <1>2. h \in Seq(S) /\ Len(h) = Len(g) + Len(a)
    BY <1>1
  <1> HIDE DEF h
  <1>3. h \o b \in Seq(S) /\ Len(h \o b) = Len(h) + Len(b)
    BY <1>2, TwoJoined
  <1>4. Len(g) \in Nat /\ Len(a) \in Nat /\ Len(b) \in Nat
    OBVIOUS
  <1>5. Len(h \o b) = Len(g) + Len(a) + Len(b)
    BY <1>2, <1>3, <1>4
  <1> QED
    BY <1>3, <1>5 DEF h

LEMMA FacesMade ==
  ASSUME NEW p \in Seq(PosSet)
  PROVE  Faced(p, CurveFaces(p))
  <1> DEFINE n == Len(p)
             S == Seq(FaceSet(p))
             none == << >>
             left == Joined(Curve(p, "left"))
             right == Joined(Curve(p, "right"))
             Step(g, i) == IF i = n THEN g
                           ELSE g \o Face(p, i, "left") \o Face(p, i, "right")
             step == [i \in 1..n |-> [g \in S |-> Step(g, i)]]
             Makes(f) == f = [i \in 0..n |->
                 IF i = 0 THEN << >>
                 ELSE IF i = n THEN f[i - 1]
                 ELSE f[i - 1] \o Face(p, i, "left") \o Face(p, i, "right")]
             made == CHOOSE f : Makes(f)
  <1>1. CurveFaces(p) = made[n]
    BY DEF CurveFaces
  <1>2. n \in Nat
    OBVIOUS
  <1>3. ASSUME NEW i \in 1..n, i # n
        PROVE  /\ Face(p, i, "left") \in S /\ Face(p, i, "right") \in S
               /\ Len(Face(p, i, "left")) = IF i \in left THEN 1 ELSE 0
               /\ Len(Face(p, i, "right")) = IF i \in right THEN 1 ELSE 0
    <2>1. i \in 1..(Len(p) - 1)
      BY <1>2, <1>3
    <2> QED
      BY <2>1, FaceMade
  <1>4. left \in SUBSET (1..n) /\ right \in SUBSET (1..n) /\ n \notin left /\ n \notin right
    <2>1. Len(Curve(p, "left")) = n /\ Len(Curve(p, "right")) = n
      BY DEF Curve
    <2>2. left \subseteq 1..(n - 1) /\ right \subseteq 1..(n - 1)
      BY <2>1 DEF Joined
    <2> HIDE DEF left, right, n
    <2> QED
      BY <1>2, <2>2
  <1> HIDE DEF left, right
  <1>5. ASSUME NEW i \in 1..n, NEW g \in S
        PROVE  /\ Step(g, i) \in S
               /\ Len(Step(g, i)) = Len(g) + (IF i \in left THEN 1 ELSE 0)
                                           + (IF i \in right THEN 1 ELSE 0)
    <2>1. CASE i = n
      BY <2>1, <1>4
    <2>2. CASE i # n
      <3> DEFINE a == Face(p, i, "left")
                 b == Face(p, i, "right")
      <3>1. a \in S /\ b \in S /\ Len(a) = (IF i \in left THEN 1 ELSE 0)
            /\ Len(b) = (IF i \in right THEN 1 ELSE 0)
        BY <2>2, <1>3
      <3>2. Step(g, i) = g \o a \o b
        BY <2>2
      <3> HIDE DEF a, b, Step
      <3>4. g \o a \o b \in S /\ Len(g \o a \o b) = Len(g) + Len(a) + Len(b)
        <4> DEFINE U == FaceSet(p)
        <4>1. g \in Seq(U) /\ a \in Seq(U) /\ b \in Seq(U) /\ S = Seq(U)
          BY <3>1
        <4> HIDE DEF U, S
        <4> QED
          BY <4>1, ThreeJoined
      <3> QED
        BY <3>1, <3>2, <3>4
    <2> QED
      BY <2>1, <2>2
  <1>6. step \in [1..n -> [S -> S]] /\ none \in S
    <2> HIDE DEF Step, S
    <2>1. none \in S
      BY DEF S
    <2> QED
      BY <1>5, <2>1
  <1>7. \E f : Makes(f)
    <2> HIDE DEF S, none, step, Step
    <2>1. PICK f \in [0..n -> S] : Loops(f, n, none, step)
      BY <1>2, <1>6, LoopRuns
    <2>2. ASSUME NEW i \in 0..n
          PROVE  f[i] = IF i = 0 THEN << >>
                        ELSE IF i = n THEN f[i - 1]
                        ELSE f[i - 1] \o Face(p, i, "left") \o Face(p, i, "right")
      <3>1. CASE i = 0
        BY <2>1, <3>1 DEF Loops, none
      <3>2. CASE i # 0
        <4>1. i \in 1..n /\ i - 1 \in 0..n
          BY <1>2, <3>2
        <4>2. f[i] = step[i][f[i - 1]] /\ f[i - 1] \in S
          BY <2>1, <4>1 DEF Loops
        <4>3. f[i] = Step(f[i - 1], i)
          BY <4>1, <4>2 DEF step
        <4> QED
          BY <3>2, <4>3 DEF Step
      <3> QED
        BY <3>1, <3>2
    <2>3. f = [i \in 0..n |-> f[i]]
      BY <2>1
    <2>4. Makes(f)
      BY <2>2, <2>3
    <2> QED
      BY <2>4
  <1>8. Makes(made)
    <2> HIDE DEF Makes
    <2> QED
      BY <1>7
  <1>9. \A i \in 0..n : made[i] = IF i = 0 THEN << >>
                 ELSE IF i = n THEN made[i - 1]
                 ELSE made[i - 1] \o Face(p, i, "left") \o Face(p, i, "right")
    <2> HIDE DEF made
    <2> QED
      BY <1>8
  <1> HIDE DEF Makes, made
  <1> DEFINE T == {i \in 0..n : /\ made[i] \in S
                                /\ Len(made[i]) = RankIn(left, i) + RankIn(right, i)}
  <1>10. 0 \in T
    <2>1. made[0] = << >>
      BY <1>2, <1>9
    <2>2. RankIn(left, 0) = 0 /\ RankIn(right, 0) = 0
      <3>1. \A j \in left : j \in Nat /\ j > 0
        BY <1>4
      <3>2. \A j \in right : j \in Nat /\ j > 0
        BY <1>4
      <3> QED
        BY <3>1, <3>2, RankOfNone
    <2> QED
      <3>1. made[0] \in S /\ Len(made[0]) = 0
        BY <2>1
      <3>2. 0 \in 0..n
        BY <1>2
      <3> QED
        BY <2>2, <3>1, <3>2
  <1>11. ASSUME NEW i \in 1..n, i - 1 \in T PROVE i \in T
    <2> DEFINE g == made[i - 1]
    <2>1. i \in 0..n /\ i # 0 /\ g \in S
          /\ Len(g) = RankIn(left, i - 1) + RankIn(right, i - 1)
      BY <1>2, <1>11
    <2>2. made[i] = Step(g, i)
      BY <2>1, <1>9
    <2> HIDE DEF g, Step, S
    <2>3. /\ made[i] \in S
          /\ Len(made[i]) = Len(g) + (IF i \in left THEN 1 ELSE 0) + (IF i \in right THEN 1 ELSE 0)
      BY <1>5, <2>1, <2>2
    <2>4. /\ RankIn(left, i) \in Nat /\ RankIn(left, i - 1) \in Nat
          /\ RankIn(left, i) = IF i \in left THEN RankIn(left, i - 1) + 1 ELSE RankIn(left, i - 1)
      BY <1>2, <1>4, RankSteps
    <2>5. /\ RankIn(right, i) \in Nat /\ RankIn(right, i - 1) \in Nat
          /\ RankIn(right, i) = IF i \in right THEN RankIn(right, i - 1) + 1
                                ELSE RankIn(right, i - 1)
      BY <1>2, <1>4, RankSteps
    <2>6. Len(made[i]) = RankIn(left, i) + RankIn(right, i)
      <3> HIDE DEF n
      <3> QED
        BY <2>1, <2>3, <2>4, <2>5
    <2> QED
      BY <2>1, <2>3, <2>6
  <1>12. n \in T
    <2> HIDE DEF T
    <2>1. 0..n \subseteq T
      BY <1>2, <1>10, <1>11, UpTo
    <2> QED
      BY <2>1, <1>2
  <1>13. RankIn(left, n) = Cardinality(left) /\ RankIn(right, n) = Cardinality(right)
    <2>1. \A j \in left : j <= n
      BY <1>4
    <2>2. \A j \in right : j <= n
      BY <1>4
    <2>3. {j \in left : j <= n} = left /\ {j \in right : j <= n} = right
      BY <2>1, <2>2
    <2> QED
      BY <2>3 DEF RankIn
  <1> QED
    BY <1>1, <1>12, <1>13 DEF Faced, left, right

(* The line set has room for the curves of a well without gaps.             *)
LEMMA LineSetHasRoom ==
  ASSUME NEW p \in Seq(PosSet),
         \A i \in DOMAIN p : p[i].left # UndefVal /\ p[i].right # UndefVal
  PROVE  LineSet(p).used <= LineSet(p).room
  <1> DEFINE n == Len(p)
             m == IF n > 0 THEN n - 1 ELSE 0
             Used(side) == LET c == Curve(p, side)
                           IN  IF Cardinality(Joined(c)) <= 1 THEN 0
                               ELSE Cardinality({i \in 1..(Len(c) - 1) : c[i] # UndefVal}) + 1
             l == Cardinality(Joined(Curve(p, "left")))
             r == Cardinality(Joined(Curve(p, "right")))
  <1>1. n \in Nat /\ m \in Nat /\ 1..(n - 1) = 1..m
    OBVIOUS
  <1>2. ASSUME NEW side \in {"left", "right"}
        PROVE  /\ Cardinality(Joined(Curve(p, side))) = m
               /\ Used(side) = IF m <= 1 THEN 0 ELSE m + 1
    <2> DEFINE c == Curve(p, side)
    <2>1. c = [j \in 1..n |-> p[j][side]]
      BY DEF Curve
    <2>2. Len(c) = n /\ \A i \in 1..n : c[i] # UndefVal
      BY <2>1
    <2> HIDE DEF c
    <2>3. \A i \in 1..(n - 1) : i \in 1..n /\ i + 1 \in 1..n
      BY <1>1
    <2>4. {i \in 1..(Len(c) - 1) : c[i] # UndefVal} = 1..m
      <3>1. \A i \in 1..(n - 1) : c[i] # UndefVal
        BY <2>2, <2>3
      <3> HIDE DEF n, m
      <3>2. {i \in 1..(n - 1) : c[i] # UndefVal} = 1..(n - 1)
        BY <3>1
      <3> QED
        BY <3>2, <2>2, <1>1
    <2>5. Joined(c) = 1..m
      <3>1. \A i \in 1..(n - 1) : c[i] # UndefVal /\ c[i + 1] # UndefVal
        BY <2>2, <2>3
      <3> HIDE DEF n, m
      <3>2. {i \in 1..(n - 1) : c[i] # UndefVal /\ c[i + 1] # UndefVal} = 1..(n - 1)
        BY <3>1
      <3> QED
        BY <3>2, <2>2, <1>1 DEF Joined
    <2>6. Cardinality(1..m) = m
      <3> HIDE DEF m
      <3>1. Cardinality(1..m) = IF 1 <= m THEN m - 1 + 1 ELSE 0
        BY <1>1, FS_Interval
      <3> QED
        BY <3>1, <1>1
    <2> HIDE DEF m
    <2>7. Cardinality(Joined(c)) = m /\ Cardinality({i \in 1..(Len(c) - 1) : c[i] # UndefVal}) = m
      BY <2>4, <2>5, <2>6
    <2> QED
      BY <2>7 DEF c
  <1>3. l = m /\ r = m /\ Used("left") = (IF m <= 1 THEN 0 ELSE m + 1)
        /\ Used("right") = (IF m <= 1 THEN 0 ELSE m + 1)
    BY <1>2
  <1>4. LineSet(p) = [room |-> IF l > 1 /\ r > 1 THEN l + r + 2
                               ELSE (IF l > 1 THEN l ELSE 0) + (IF r > 1 THEN r ELSE 0) + 1,
                      used |-> Used("left") + Used("right")]
    BY DEF LineSet
  <1> HIDE DEF l, r, m, n, Used
  <1>5. /\ LineSet(p).used = Used("left") + Used("right")
        /\ LineSet(p).room = IF l > 1 /\ r > 1 THEN l + r + 2
                               ELSE (IF l > 1 THEN l ELSE 0) + (IF r > 1 THEN r ELSE 0) + 1
    BY <1>4
  <1>6. CASE m <= 1
    <2>1. LineSet(p).used = 0 /\ LineSet(p).room = 1
      BY <1>1, <1>3, <1>5, <1>6
    <2> QED
      BY <2>1
  <1>7. CASE ~(m <= 1)
    <2>1. LineSet(p).used = 2 * m + 2 /\ LineSet(p).room = 2 * m + 2
      BY <1>1, <1>3, <1>5, <1>7
    <2> QED
      BY <2>1, <1>1
  <1> QED
    BY <1>6, <1>7

LEMMA TopsPlaced ==
  ASSUME NEW f, WellOk(f)
  PROVE  \A k \in ToSet(TopsList(f)) : k \in DOMAIN f.z
  <1> DEFINE z == f.z
             tops == f.tops
             At(k) == SelectInSeq(z, LAMBDA x : x <= -tops[k])
  <1>1. z \in Seq(Int) /\ tops \in Seq(Int) /\ (z = << >> => tops = << >>)
    BY DEF WellOk
  <1>2. TopsList(f) = [k \in DOMAIN tops |-> IF At(k) = 0 THEN Len(z) ELSE At(k)]
    BY DEF TopsList
  <1>3. ASSUME NEW k \in DOMAIN tops
        PROVE  (IF At(k) = 0 THEN Len(z) ELSE At(k)) \in DOMAIN z
    <2> DEFINE I == {i \in 1..Len(z) : z[i] <= -tops[k]}
    <2>1. At(k) = IF I # {} THEN Min(I) ELSE 0
      BY DEF SelectInSeq
    <2>2. I \in SUBSET Nat /\ I \subseteq 1..Len(z)
      OBVIOUS
    <2>3. CASE I # {}
      <3>1. Min(I) \in I
        <4> HIDE DEF I
        <4> QED
          BY <2>2, <2>3, Least
      <3>2. At(k) \in 1..Len(z)
        BY <2>1, <2>2, <2>3, <3>1
      <3> HIDE DEF At, z
      <3>3. At(k) # 0 /\ At(k) \in DOMAIN z
        BY <1>1, <3>2
      <3> QED
        BY <3>3
    <2>4. CASE I = {}
      <3>1. At(k) = 0
        BY <2>1, <2>4
      <3>2. Len(z) \in DOMAIN z
        <4>1. z # << >>
          <5> HIDE DEF z, tops
          <5>1. k \in 1..Len(tops)
            BY <1>1
          <5>2. tops # << >>
            BY <5>1
          <5> QED
            BY <1>1, <5>2
        <4> HIDE DEF z
        <4> QED
          BY <1>1, <4>1
      <3> QED
        BY <3>1, <3>2
    <2> QED
      BY <2>3, <2>4
  <1> HIDE DEF At
  <1> QED
    BY <1>2, <1>3 DEF ToSet

Gapless(p) == \A i \in DOMAIN p : p[i].left # UndefVal /\ p[i].right # UndefVal
WellInv ==
  /\ WellOk(wellFields) /\ poslist \in Seq(PosSet)
  /\ ~scheduled => coordIndex = CurveFaces(UpdateList(wellFields))
  /\ prevaxis \in ViewAxes => axis = prevaxis
  /\ DrawnFresh
  /\ Faced(poslist, coordIndex) /\ Narrow(leftoffset) /\ Narrow(rightoffset)
  /\ Gapless(poslist) => lineSet.used <= lineSet.room
  /\ \A k \in ToSet(topsList) : k \in DOMAIN wellFields.z \/ scheduled

LEMMA WellBegins == WellAssumption /\ WellInit => WellInv
  <1> SUFFICES ASSUME WellAssumption, WellInit PROVE WellInv
    OBVIOUS
  <1>1. /\ wellFields = [z |-> << >>, left |-> << >>, right |-> << >>, tops |-> << >>]
        /\ poslist = << >> /\ leftoffset = << >> /\ rightoffset = << >> /\ coordIndex = << >>
        /\ lineSet = [room |-> 0, used |-> 0] /\ topsList = << >> /\ prevaxis = NoAxis
        /\ wellDrawn = << >>
    BY DEF WellInit
  <1> DEFINE none == << >>
  <1>2. none \in Seq(Int) /\ Len(none) = 0 /\ none \in Seq(PosSet) /\ DOMAIN none = {}
    OBVIOUS
  <1>3. wellFields.z = none /\ wellFields.left = none /\ wellFields.right = none
        /\ wellFields.tops = none
    BY <1>1
  <1> HIDE DEF none
  <1>4. WellOk(wellFields)
    BY <1>2, <1>3 DEF WellOk, none
  <1>5. UpdateList(wellFields) \in Seq(PosSet)
    BY <1>4, ListUpdated
  <1>6. UpdateList(wellFields) = none
    <2> DEFINE Makes(g) == g = [i \in 0..0 |-> IF i = 0 THEN << >>
          ELSE IF wellFields.z[i] # UndefVal
             THEN Append(g[i - 1], [z |-> wellFields.z[i], left |-> wellFields.left[i],
                                    right |-> wellFields.right[i], realidx |-> i])
          ELSE g[i - 1]]
               made == CHOOSE g : Makes(g)
    <2>1. UpdateList(wellFields) = made[0]
      BY <1>2, <1>3 DEF UpdateList
    <2>2. Makes([i \in 0..0 |-> << >>])
      OBVIOUS
    <2>3. Makes(made)
      <3> HIDE DEF Makes
      <3> QED
        BY <2>2
    <2> HIDE DEF made
    <2>4. made[0] = << >>
      BY <2>3
    <2> QED
      BY <2>1, <2>4 DEF none
  <1>7. Faced(none, CurveFaces(none))
    BY <1>2, FacesMade
  <1>8. CurveFaces(none) = none
    <2> DEFINE Makes(g) == g = [i \in 0..0 |-> IF i = 0 THEN << >>
          ELSE IF i = 0 THEN g[i - 1]
          ELSE g[i - 1] \o Face(none, i, "left") \o Face(none, i, "right")]
               made == CHOOSE g : Makes(g)
    <2>1. CurveFaces(none) = made[0]
      BY <1>2 DEF CurveFaces
    <2>2. Makes([i \in 0..0 |-> << >>])
      OBVIOUS
    <2>3. Makes(made)
      <3> HIDE DEF Makes
      <3> QED
        BY <2>2
    <2> HIDE DEF made
    <2>4. made[0] = << >>
      BY <2>3
    <2> QED
      BY <2>1, <2>4 DEF none
  <1>9. DOMAIN wellDrawn = {} /\ DOMAIN leftoffset = {} /\ DOMAIN rightoffset = {}
        /\ DOMAIN topsList = {}
    BY <1>1, <1>2 DEF none
  <1>10. DrawnFresh /\ Narrow(leftoffset) /\ Narrow(rightoffset)
    BY <1>9 DEF DrawnFresh, Narrow
  <1>11. ToSet(topsList) = {}
    BY <1>9 DEF ToSet
  <1>12. lineSet.used <= lineSet.room
    BY <1>1
  <1>13. prevaxis \notin ViewAxes
    BY <1>1 DEF WellAssumption
  <1>14. poslist = none /\ coordIndex = none
    BY <1>1 DEF none
  <1> QED
    BY <1>2, <1>4, <1>6, <1>7, <1>8, <1>10, <1>11, <1>12, <1>13, <1>14 DEF WellInv

LEMMA WellStep ==
  ASSUME WellAssumption, WellInv, [WellNext]_wellvars
  PROVE  WellInv'
  <1>0. /\ WellOk(wellFields) /\ poslist \in Seq(PosSet)
        /\ ~scheduled => coordIndex = CurveFaces(UpdateList(wellFields))
        /\ prevaxis \in ViewAxes => axis = prevaxis
        /\ DrawnFresh
        /\ Faced(poslist, coordIndex) /\ Narrow(leftoffset) /\ Narrow(rightoffset)
        /\ Gapless(poslist) => lineSet.used <= lineSet.room
        /\ \A k \in ToSet(topsList) : k \in DOMAIN wellFields.z \/ scheduled
    BY DEF WellInv
  <1>a. ASSUME wellDrawn' = << >> PROVE DrawnFresh'
    <2>1. DOMAIN wellDrawn' = {}
      BY <1>a
    <2> QED
      BY <2>1 DEF DrawnFresh
  <1>1. ASSUME NEW w \in Wells, SetFields(w) PROVE WellInv'
    <2>1. wellFields' = w /\ scheduled' = TRUE /\ wellDrawn' = << >>
          /\ UNCHANGED <<poslist, leftoffset, rightoffset, coordIndex, lineSet, topsList,
                         prevaxis, axis>>
      BY <1>1 DEF SetFields, geometry
    <2>2. WellOk(w)
      BY <1>1 DEF WellAssumption, WellOk
    <2>3. DrawnFresh'
      BY <2>1, <1>a
    <2> QED
      BY <2>1, <2>2, <2>3, <1>0 DEF WellInv
  <1>2. CASE WellOneshotCB
    <2> DEFINE p == UpdateList(wellFields)
    <2>1. /\ UNCHANGED wellFields /\ scheduled' = FALSE /\ poslist' = p
          /\ leftoffset' = Offsets(Curve(poslist', "left"), {0})
          /\ rightoffset' = Offsets(Curve(poslist', "right"), {})
          /\ coordIndex' = CurveFaces(poslist') /\ lineSet' = LineSet(poslist')
          /\ topsList' = TopsList(wellFields) /\ prevaxis' = NoAxis /\ wellDrawn' = << >>
      BY <1>2 DEF WellOneshotCB
    <2>2. p \in Seq(PosSet)
      BY <1>0, ListUpdated
    <2>p. p' = p
      BY <2>1
    <2>3. Curve(p, "left") \in Seq(Int) /\ Curve(p, "right") \in Seq(Int)
      <3> HIDE DEF p
      <3>1. \A i \in 1..Len(p) : p[i].left \in Int /\ p[i].right \in Int
        <4> TAKE i \in 1..Len(p)
        <4>1. p[i] \in PosSet
          BY <2>2
        <4> QED
          BY <4>1 DEF PosSet
      <3>2. DOMAIN p = 1..Len(p) /\ Len(p) \in Nat
        BY <2>2
      <3>3. /\ Curve(p, "left") = [i \in 1..Len(p) |-> p[i].left]
            /\ Curve(p, "right") = [i \in 1..Len(p) |-> p[i].right]
        BY <3>2 DEF Curve
      <3> QED
        BY <3>1, <3>2, <3>3
    <2>4. Narrow(leftoffset') /\ Narrow(rightoffset')
      <3> HIDE DEF p
      <3>1. Narrow(Offsets(Curve(p, "left"), {0})) /\ Narrow(Offsets(Curve(p, "right"), {}))
        BY <2>3, OffsetsNarrow DEF WellAssumption
      <3> QED
        BY <3>1, <2>1
    <2>5. Faced(p, CurveFaces(p))
      BY <2>2, FacesMade
    <2>6. Gapless(p) => LineSet(p).used <= LineSet(p).room
      <3> HIDE DEF p
      <3> QED
        BY <2>2, LineSetHasRoom DEF Gapless
    <2>7. \A k \in ToSet(TopsList(wellFields)) : k \in DOMAIN wellFields.z
      BY <1>0, TopsPlaced
    <2>8. DrawnFresh'
      BY <2>1, <1>a
    <2>9. prevaxis' \notin ViewAxes
      BY <2>1 DEF WellAssumption
    <2>10. WellOk(wellFields)' /\ poslist' \in Seq(PosSet)
      BY <2>1, <2>2, <1>0
    <2>11. coordIndex' = CurveFaces(UpdateList(wellFields')) /\ Faced(poslist', coordIndex')
      BY <2>1, <2>5
    <2>12. Gapless(poslist') => lineSet'.used <= lineSet'.room
      <3> HIDE DEF p
      <3> QED
        BY <2>1, <2>6
    <2>13. \A k \in ToSet(topsList') : k \in DOMAIN wellFields'.z
      BY <2>1, <2>7
    <2> HIDE DEF p
    <2> QED
      BY <2>4, <2>8, <2>9, <2>10, <2>11, <2>12, <2>13 DEF WellInv
  <1>3. ASSUME NEW a \in ViewAxes, RenderWell(a) PROVE WellInv'
    <2>1. UNCHANGED <<wellFields, scheduled, poslist, leftoffset, rightoffset, coordIndex,
                      lineSet, topsList>>
      BY <1>3 DEF RenderWell, geometry
    <2>2. CASE scheduled
      <3>1. wellDrawn' = << >> /\ UNCHANGED <<axis, prevaxis>>
        BY <1>3, <2>2 DEF RenderWell
      <3>2. DrawnFresh'
        BY <3>1, <1>a
      <3> QED
        BY <2>1, <3>1, <3>2, <1>0 DEF WellInv
    <2>3. CASE ~scheduled
      <3>1. /\ prevaxis' = a /\ axis' = (IF a # prevaxis THEN a ELSE axis)
            /\ wellDrawn' = <<[faces |-> coordIndex, axis |-> axis', viewer |-> a]>>
        BY <1>3, <2>3 DEF RenderWell
      <3>2. axis' = a
        BY <3>1, <1>0, <1>3
      <3> DEFINE d == [faces |-> coordIndex, axis |-> a, viewer |-> a]
      <3>3. wellDrawn' = <<d>>
        BY <3>1, <3>2
      <3>4. d.faces = CurveFaces(UpdateList(wellFields')) /\ d.axis = d.viewer
        BY <2>1, <2>3, <1>0
      <3> HIDE DEF d
      <3>5. \A k \in DOMAIN wellDrawn' : wellDrawn'[k] = d
        BY <3>3
      <3>6. DrawnFresh'
        BY <3>4, <3>5 DEF DrawnFresh
      <3> QED
        BY <2>1, <3>1, <3>2, <3>6, <1>0 DEF WellInv
    <2> QED
      BY <2>2, <2>3
  <1>4. CASE PickEvent \/ ReleaseEvent
    <2>1. UNCHANGED <<wellFields, scheduled, poslist, leftoffset, rightoffset, coordIndex,
                      lineSet, topsList, prevaxis, axis>> /\ wellDrawn' = << >>
      BY <1>4 DEF PickEvent, ReleaseEvent, geometry
    <2>2. DrawnFresh'
      BY <2>1, <1>a
    <2> QED
      BY <2>1, <2>2, <1>0 DEF WellInv
  <1>5. CASE UNCHANGED wellvars
    <2>1. UNCHANGED <<wellFields, scheduled, poslist, leftoffset, rightoffset, coordIndex,
                      lineSet, topsList, prevaxis, axis, wellDrawn>>
      BY <1>5 DEF wellvars, geometry
    <2>2. DrawnFresh'
      BY <2>1, <1>0 DEF DrawnFresh
    <2> QED
      BY <2>1, <2>2, <1>0 DEF WellInv
  <1> QED
    BY <1>1, <1>2, <1>3, <1>4, <1>5 DEF WellNext

LEMMA WellIsRight == WellInv => DrawnFresh /\ FacesRight
  <1> SUFFICES ASSUME WellInv PROVE DrawnFresh /\ FacesRight
    OBVIOUS
  <1>1. DrawnFresh
    BY DEF WellInv
  <1>2. /\ coordIndex \in Seq(FaceSet(poslist))
        /\ Len(coordIndex) = Cardinality(Joined(Curve(poslist, "left")))
                             + Cardinality(Joined(Curve(poslist, "right")))
    BY DEF WellInv, Faced
  <1>3. ASSUME NEW f \in ToSet(coordIndex), NEW k \in ToSet(f)
        PROVE  k \in 1..(3 * Len(poslist)) /\ DefinedAt(poslist, k)
    <2>1. f \in FaceSet(poslist)
      BY <1>2, <1>3 DEF ToSet
    <2>2. k \in PointSet(poslist)
      BY <2>1, <1>3 DEF FaceSet
    <2> QED
      BY <2>2 DEF PointSet
  <1>4. Narrow(leftoffset) /\ Narrow(rightoffset)
        /\ (Gapless(poslist) => lineSet.used <= lineSet.room)
        /\ \A k \in ToSet(topsList) : k \in DOMAIN wellFields.z \/ scheduled
    BY DEF WellInv
  <1>5. FacesRight
    BY <1>2, <1>3, <1>4 DEF FacesRight, DefinedAt, Narrow, Gapless
  <1> QED
    BY <1>1, <1>5

(* What is drawn of a well log shows its fields, turned to the viewer, and  *)
(* its faces stand where its curves are defined.                            *)
THEOREM WellIsDrawn == WellAssumption => (WellSpec => [](DrawnFresh /\ FacesRight))
  <1> SUFFICES ASSUME WellAssumption PROVE WellSpec => [](DrawnFresh /\ FacesRight)
    OBVIOUS
  <1>1. WellInit => WellInv
    BY WellBegins
  <1>2. WellInv /\ [WellNext]_wellvars => WellInv'
    BY WellStep
  <1>3. WellInv => DrawnFresh /\ FacesRight
    BY WellIsRight
  <1> QED
    BY <1>1, <1>2, <1>3, PTL DEF WellSpec

-----------------------------------------------------------------------------
(* The faces of a model of finite elements.                                 *)
FEMSpec == FEMInit /\ [][FEMNext]_femvars

FEMElements == [nodes : [1..8 -> 1..NodeCount], layerindex : {LayerOf[n] : n \in DOMAIN Hexes},
                active : BOOLEAN, coloridx : Nat]
Meshed == /\ elements3d \in Seq(FEMElements)
          /\ \A e \in DOMAIN elements3d : e \in DOMAIN Hexes /\ elements3d[e].nodes = Hexes[e]
Numbered == /\ nodes \in Seq([number : Nat, coloridx : Nat]) /\ Len(nodes) = NodeCount
            /\ \A i \in 1..NodeCount : nodes[i].number = NodeCount + 1 - i
            /\ nodelookup = [n \in 1..NodeCount |-> NodeCount + 1 - n]
Bare == nodes = << >> /\ nodelookup = << >> /\ elements3d = << >>
FEMInv == /\ fecolors \in Nat /\ removehidden \in BOOLEAN
          /\ Meshed /\ (Bare \/ Numbered)
          /\ ~updating => faceset = Scene

(* A corner of an element is on three of its faces, and on one of any two   *)
(* that are opposite.                                                       *)
Axis == <<1, 2, 1, 3, 3, 2>>
LEMMA Opposite ==
  ASSUME NEW f \in 1..6, NEW g \in 1..6, NEW k \in 1..4, NEW l \in 1..4,
         Axis[f] = Axis[g], Sides[f][k] = Sides[g][l]
  PROVE  f = g /\ k = l
  <1>1. f \in {1, 2, 3, 4, 5, 6} /\ g \in {1, 2, 3, 4, 5, 6}
    OBVIOUS
  <1>2. k \in {1, 2, 3, 4} /\ l \in {1, 2, 3, 4}
    OBVIOUS
  <1>3. CASE f = 1
    BY <1>1, <1>2, <1>3 DEF Axis, Sides
  <1>4. CASE f = 2
    BY <1>1, <1>2, <1>4 DEF Axis, Sides
  <1>5. CASE f = 3
    BY <1>1, <1>2, <1>5 DEF Axis, Sides
  <1>6. CASE f = 4
    BY <1>1, <1>2, <1>6 DEF Axis, Sides
  <1>7. CASE f = 5
    BY <1>1, <1>2, <1>7 DEF Axis, Sides
  <1>8. CASE f = 6
    BY <1>1, <1>2, <1>8 DEF Axis, Sides
  <1> QED
    BY <1>1, <1>3, <1>4, <1>5, <1>6, <1>7, <1>8

LEMMA SideTypes ==
  ASSUME NEW f \in 1..6, NEW k \in 1..4
  PROVE  Sides[f][k] \in 1..8 /\ Axis[f] \in 1..3
  <1>1. f \in {1, 2, 3, 4, 5, 6} /\ k \in {1, 2, 3, 4}
    OBVIOUS
  <1> QED
    BY <1>1 DEF Axis, Sides

(* What is drawn of an element, by the numbers of its nodes.                *)
LEMMA FaceAt ==
  ASSUME FEMAssumption, Meshed, Bare \/ Numbered, NEW e \in Active, NEW f \in 1..6
  PROVE  /\ Numbered /\ e \in DOMAIN Hexes /\ elements3d[e].nodes = Hexes[e]
         /\ \A c \in 1..4 :
              /\ Hexes[e][Sides[f][c]] \in 1..NodeCount
              /\ ActiveFaces[e][f][c] = NodeCount + 1 - Hexes[e][Sides[f][c]]
              /\ nodes[ActiveFaces[e][f][c]].number = Hexes[e][Sides[f][c]]
         /\ \A shades : NumbersOf(<<ActiveFaces[e][f], shades>>) = CornersAt(Hexes[e], f)
  <1>1. e \in DOMAIN elements3d
    BY DEF Active
  <1>2. Numbered /\ e \in DOMAIN Hexes /\ elements3d[e].nodes = Hexes[e]
    BY <1>1 DEF Bare, Meshed
  <1>3. NodeCount \in Nat /\ Hexes[e] \in [1..8 -> 1..NodeCount]
    BY <1>2 DEF FEMAssumption
  <1>4. ActiveFaces[e][f] = [c \in 1..4 |-> nodelookup[Hexes[e][Sides[f][c]]]]
    BY <1>2 DEF ActiveFaces, ElementFaces
  <1>5. ASSUME NEW c \in 1..4
        PROVE  /\ Hexes[e][Sides[f][c]] \in 1..NodeCount
               /\ ActiveFaces[e][f][c] = NodeCount + 1 - Hexes[e][Sides[f][c]]
               /\ nodes[ActiveFaces[e][f][c]].number = Hexes[e][Sides[f][c]]
    <2> DEFINE n == Hexes[e][Sides[f][c]]
    <2>1. n \in 1..NodeCount
      BY <1>3, SideTypes
    <2>2. ActiveFaces[e][f][c] = nodelookup[n]
      BY <1>4
    <2> HIDE DEF n
    <2>3. nodelookup[n] = NodeCount + 1 - n
      BY <1>2, <2>1 DEF Numbered
    <2> DEFINE i == NodeCount + 1 - n
    <2>4. i \in 1..NodeCount /\ NodeCount + 1 - i = n
      BY <1>3, <2>1
    <2>5. nodes[i].number = n
      <3> HIDE DEF i
      <3> QED
        BY <1>2, <2>4 DEF Numbered
    <2> QED
      BY <2>1, <2>2, <2>3, <2>5 DEF n
  <1>6. ASSUME NEW shades PROVE NumbersOf(<<ActiveFaces[e][f], shades>>) = CornersAt(Hexes[e], f)
    <2>1. NumbersOf(<<ActiveFaces[e][f], shades>>) = {nodes[ActiveFaces[e][f][c]].number : c \in 1..4}
      BY DEF NumbersOf
    <2>2. CornersAt(Hexes[e], f) = {Hexes[e][Sides[f][c]] : c \in 1..4}
      BY DEF CornersAt
    <2> QED
      BY <2>1, <2>2, <1>5
  <1> QED
    BY <1>2, <1>5, <1>6

(* A node that is hidden has eight active elements.                         *)
Mentions(n) == {m \in Active \X (1..6) \X (1..4) : ActiveFaces[m[1]][m[2]][m[3]] = n}
AroundNode(n) == {e \in Active : \E c \in 1..8 : Hexes[e][c] = n}
LEMMA HiddenAround ==
  ASSUME FEMAssumption, Meshed, Bare \/ Numbered, NEW n \in Hidden(ActiveFaces)
  PROVE  /\ NodeCount + 1 - n \in 1..NodeCount
         /\ Cardinality(AroundNode(NodeCount + 1 - n)) >= 8
  <1> DEFINE M == Mentions(n)
             node == NodeCount + 1 - n
             A == AroundNode(node)
             g == [m \in M |-> <<m[1], Axis[m[2]]>>]
  <1>1. n \in DOMAIN nodes /\ Cardinality(M) >= 24
    BY DEF Hidden, Mentions, ActiveFaces
  <1>2. Numbered /\ DOMAIN nodes = 1..NodeCount /\ NodeCount \in Nat
    BY <1>1 DEF Bare, Numbered, FEMAssumption
  <1>3. node \in 1..NodeCount
    BY <1>1, <1>2
  <1>4. IsFiniteSet(A)
    <2> DEFINE k == Len(elements3d)
    <2>1. A \subseteq 1..k /\ k \in Nat
      BY DEF AroundNode, Active, Meshed
    <2> HIDE DEF A, k
    <2>2. IsFiniteSet(1..k)
      BY <2>1, FS_Interval
    <2> QED
      BY <2>1, <2>2, FS_Subset
  <1>5. ASSUME NEW m \in M
        PROVE  /\ m[1] \in Active /\ m[2] \in 1..6 /\ m[3] \in 1..4 /\ m = <<m[1], m[2], m[3]>>
               /\ Hexes[m[1]][Sides[m[2]][m[3]]] = node
               /\ m[1] \in A /\ Axis[m[2]] \in 1..3
    <2>1. m[1] \in Active /\ m[2] \in 1..6 /\ m[3] \in 1..4 /\ m = <<m[1], m[2], m[3]>>
          /\ ActiveFaces[m[1]][m[2]][m[3]] = n
      BY DEF Mentions
    <2>2. /\ Hexes[m[1]][Sides[m[2]][m[3]]] \in 1..NodeCount
          /\ ActiveFaces[m[1]][m[2]][m[3]] = NodeCount + 1 - Hexes[m[1]][Sides[m[2]][m[3]]]
      BY <2>1, FaceAt
    <2>3. Hexes[m[1]][Sides[m[2]][m[3]]] = node
      BY <2>1, <2>2, <1>1, <1>2
    <2>4. Sides[m[2]][m[3]] \in 1..8 /\ Axis[m[2]] \in 1..3
      BY <2>1, SideTypes
    <2>5. m[1] \in A
      BY <2>1, <2>3, <2>4 DEF AroundNode
    <2> QED
      BY <2>1, <2>3, <2>4, <2>5
  <1>6. g \in [M -> A \X (1..3)]
    <2> HIDE DEF M, A
    <2> QED
      BY <1>5
  <1>7. ASSUME NEW a \in M, NEW b \in M, g[a] = g[b] PROVE a = b
    <2>1. a[1] = b[1] /\ Axis[a[2]] = Axis[b[2]]
      <3> HIDE DEF M
      <3> QED
        BY <1>7
    <2>2. Hexes[a[1]][Sides[a[2]][a[3]]] = Hexes[a[1]][Sides[b[2]][b[3]]]
      BY <1>5, <2>1
    <2>3. Sides[a[2]][a[3]] = Sides[b[2]][b[3]]
      <3>1. Sides[a[2]][a[3]] \in 1..8 /\ Sides[b[2]][b[3]] \in 1..8
        BY <1>5, SideTypes
      <3>2. a[1] \in DOMAIN Hexes
        BY <1>5, FaceAt
      <3> QED
        BY <2>2, <3>1, <3>2 DEF FEMAssumption
    <2>4. a[2] = b[2] /\ a[3] = b[3]
      BY <1>5, <2>1, <2>3, Opposite
    <2> QED
      BY <1>5, <2>1, <2>4
  <1>8. IsFiniteSet(1..3) /\ Cardinality(1..3) = 3
    <2> DEFINE three == 3
    <2>1. three \in Nat /\ 1 \in Int /\ three \in Int
      OBVIOUS
    <2>2. three > 1 /\ three - 1 + 1 = 3
      OBVIOUS
    <2> HIDE DEF three
    <2>3. IsFiniteSet(1..three) /\ Cardinality(1..three) = IF 1 > three THEN 0 ELSE three - 1 + 1
      BY <2>1, FS_Interval
    <2>4. Cardinality(1..three) = 3
      BY <2>1, <2>2, <2>3
    <2> QED
      BY <2>3, <2>4 DEF three
  <1>9. IsFiniteSet(A \X (1..3)) /\ Cardinality(A \X (1..3)) = Cardinality(A) * 3
    <2> HIDE DEF A
    <2> QED
      BY <1>4, <1>8, FS_Product
  <1>10. Cardinality(M) <= Cardinality(A \X (1..3)) /\ IsFiniteSet(M)
    <2> DEFINE P == A \X (1..3)
    <2>1. g \in Injection(M, P)
      <3> HIDE DEF M, A, g
      <3> QED
        BY <1>6, <1>7 DEF Injection, IsInjective
    <2>2. IsFiniteSet(P)
      BY <1>9
    <2> HIDE DEF M, A, g, P
    <2>3. Cardinality(M) <= Cardinality(P) /\ IsFiniteSet(M)
      BY <2>1, <2>2, FS_Injection
    <2> QED
      BY <2>3 DEF P
  <1>11. Cardinality(A) \in Nat /\ Cardinality(M) \in Nat
    <2> HIDE DEF A, M
    <2> QED
      BY <1>4, <1>10, FS_CardinalityType
  <1> HIDE DEF A, M
  <1>12. Cardinality(A) >= 8
    BY <1>1, <1>9, <1>10, <1>11
  <1> QED
    BY <1>3, <1>12 DEF A

(* What is shown are the faces without a hidden corner.                     *)
HiddenNodes == IF removehidden THEN Hidden(ActiveFaces) ELSE {}
FaceOf(e, f) == <<ActiveFaces[e][f],
                  [c \in 1..4 |-> ColorIdx(ActiveFaces[e][f][c], elements3d[e])]>>
Open(e, f) == \A c \in 1..4 : ActiveFaces[e][f][c] \notin HiddenNodes
LEMMA SceneIs ==
  /\ \A e \in Active, f \in 1..6 : Open(e, f) => FaceOf(e, f) \in Scene
  /\ \A face \in Scene : \E e \in Active, f \in 1..6 : face = FaceOf(e, f)
  <1> DEFINE A == Active
             shown == {s \in A \X (1..6) :
                         \A c \in 1..4 : ActiveFaces[s[1]][s[2]][c] \notin HiddenNodes}
  <1>1. Scene = {<<ActiveFaces[s[1]][s[2]],
                   [c \in 1..4 |-> ColorIdx(ActiveFaces[s[1]][s[2]][c], elements3d[s[1]])]>> : s \in shown}
    BY DEF Scene, HiddenNodes
  <1>2. Scene = {FaceOf(s[1], s[2]) : s \in shown}
    BY <1>1 DEF FaceOf
  <1>3. \A e \in Active, f \in 1..6 : Open(e, f) => <<e, f>> \in shown
    BY DEF Open
  <1>4. \A s \in shown : s[1] \in Active /\ s[2] \in 1..6
    OBVIOUS
  <1> HIDE DEF shown
  <1>5. ASSUME NEW e \in Active, NEW f \in 1..6, Open(e, f) PROVE FaceOf(e, f) \in Scene
    <2>1. <<e, f>> \in shown
      BY <1>3, <1>5
    <2> DEFINE s == <<e, f>>
    <2>2. s \in shown /\ s[1] = e /\ s[2] = f
      BY <2>1
    <2> HIDE DEF s
    <2>3. FaceOf(s[1], s[2]) \in Scene
      BY <1>2, <2>2
    <2> QED
      BY <2>2, <2>3
  <1>6. ASSUME NEW face \in Scene PROVE \E e \in Active, f \in 1..6 : face = FaceOf(e, f)
    BY <1>2, <1>4
  <1> QED
    BY <1>5, <1>6

(* A side with a hidden corner belongs to two of the elements shown.        *)
LEMMA HiddenIsShared ==
  ASSUME FEMAssumption, Meshed, Bare \/ Numbered, NEW e \in Active, NEW f \in 1..6,
         ~Open(e, f)
  PROVE  /\ removehidden
         /\ \E o \in Wanted \ {elements3d[e]} : CornersAt(Hexes[e], f) \in Sides3(o)
  <1>1. PICK c \in 1..4 : ActiveFaces[e][f][c] \in HiddenNodes
    BY DEF Open
  <1>2. removehidden /\ ActiveFaces[e][f][c] \in Hidden(ActiveFaces)
    BY <1>1 DEF HiddenNodes
  <1> DEFINE n == ActiveFaces[e][f][c]
             node == NodeCount + 1 - n
             A == AroundNode(node)
  <1>3. node \in 1..NodeCount /\ Cardinality(A) >= 8
    <2> HIDE DEF n
    <2>1. n \in Hidden(ActiveFaces)
      BY <1>2 DEF n
    <2> QED
      BY <2>1, HiddenAround
  <1>4. node = Hexes[e][Sides[f][c]] /\ e \in DOMAIN Hexes
    BY FaceAt DEF FEMAssumption
  <1>5. e \in A /\ node \in CornersAt(Hexes[e], f)
    BY <1>4, SideTypes DEF AroundNode, CornersAt
  <1>6. \A o \in A : o \in Active /\ o \in DOMAIN Hexes /\ elements3d[o].nodes = Hexes[o]
                     /\ \E d \in 1..8 : Hexes[o][d] = node
    <2> TAKE o \in A
    <2>1. o \in Active /\ \E d \in 1..8 : Hexes[o][d] = node
      BY DEF AroundNode
    <2>2. 1 \in 1..6
      OBVIOUS
    <2> HIDE DEF A, n, node
    <2> QED
      BY <2>1, <2>2, FaceAt
  <1>7. A \in SUBSET {o \in DOMAIN Hexes : \E d \in 1..8 : Hexes[o][d] = node}
    <2> HIDE DEF A, node
    <2> QED
      BY <1>6
  <1> HIDE DEF A, node, n
  <1>8. PICK o \in A, g \in 1..6 : /\ Hexes[o] # Hexes[e]
                                   /\ CornersAt(Hexes[o], g) = CornersAt(Hexes[e], f)
    BY <1>3, <1>5, <1>7 DEF FEMAssumption
  <1>9. elements3d[o] \in Wanted /\ elements3d[o].nodes # elements3d[e].nodes
    BY <1>5, <1>6, <1>8 DEF Wanted
  <1>10. CornersAt(Hexes[e], f) \in Sides3(elements3d[o])
    BY <1>6, <1>8 DEF Sides3
  <1> QED
    BY <1>2, <1>9, <1>10

LEMMA FEMIsShown ==
  ASSUME FEMAssumption, FEMInv
  PROVE  SurfaceShown
  <1> SUFFICES ASSUME ~updating PROVE SurfaceShown
    BY DEF SurfaceShown
  <1>1. faceset = Scene /\ Meshed /\ (Bare \/ Numbered)
    BY DEF FEMInv
  <1> DEFINE shown == {NumbersOf(face) : face \in faceset}
             all == UNION {Sides3(e) : e \in Wanted}
  <1>2. ASSUME NEW e \in Active, NEW f \in 1..6
        PROVE  /\ elements3d[e] \in Wanted
               /\ NumbersOf(FaceOf(e, f)) = CornersAt(Hexes[e], f)
               /\ CornersAt(Hexes[e], f) \in Sides3(elements3d[e])
               /\ \A c \in 1..4 : FaceOf(e, f)[2][c] = ColorIdx(FaceOf(e, f)[1][c], elements3d[e])
    <2>1. NumbersOf(FaceOf(e, f)) = CornersAt(Hexes[e], f)
      BY <1>1, FaceAt DEF FaceOf
    <2>2. elements3d[e].nodes = Hexes[e]
      BY <1>1, FaceAt
    <2>3. CornersAt(Hexes[e], f) \in Sides3(elements3d[e])
      BY <2>2 DEF Sides3
    <2>4. \A c \in 1..4 : FaceOf(e, f)[2][c] = ColorIdx(FaceOf(e, f)[1][c], elements3d[e])
      BY DEF FaceOf
    <2> QED
      BY <2>1, <2>3, <2>4 DEF Wanted
  <1>3. \A face \in faceset : \E e \in Wanted :
          /\ NumbersOf(face) \in Sides3(e)
          /\ \A c \in 1..4 : face[2][c] = ColorIdx(face[1][c], e)
    <2> TAKE face \in faceset
    <2>1. PICK e \in Active, f \in 1..6 : face = FaceOf(e, f)
      BY <1>1, SceneIs
    <2> QED
      BY <1>2, <2>1
  <1>4. shown \subseteq all
    BY <1>3
  <1>5. ASSUME NEW e \in Wanted, NEW side \in Sides3(e),
               ~removehidden \/ \A o \in Wanted \ {e} : side \notin Sides3(o)
        PROVE  side \in shown
    <2>1. PICK i \in Active : e = elements3d[i]
      BY DEF Wanted
    <2>2. PICK f \in 1..6 : side = CornersAt(e.nodes, f)
      BY DEF Sides3
    <2>3. e.nodes = Hexes[i]
      BY <1>1, <2>1, FaceAt
    <2>4. Open(i, f)
      BY <1>1, <1>5, <2>1, <2>2, <2>3, HiddenIsShared
    <2>5. FaceOf(i, f) \in faceset
      BY <1>1, <2>4, SceneIs
    <2> QED
      BY <1>2, <2>2, <2>3, <2>5
  <1> QED
    BY <1>3, <1>4, <1>5 DEF SurfaceShown

(* Changing the lists asks for an update, and the update shows them.        *)

LEMMA NumbersFilled ==
  ASSUME NEW n \in Nat \ {0}
  PROVE  Filled(<< >>, [i \in 1..n |-> n + 1 - i]) = [i \in 1..n |-> n + 1 - i]
  <1>1. Max(1..n \cup {0}) = n
    <2>1. n \in 1..n \cup {0} /\ \A y \in 1..n \cup {0} : n >= y
      OBVIOUS
    <2>2. \A x \in 1..n \cup {0} : (\A y \in 1..n \cup {0} : x >= y) => x = n
      OBVIOUS
    <2> QED
      BY <2>1, <2>2 DEF Max
  <1>2. Len(<< >>) = 0
    OBVIOUS
  <1> DEFINE entries == [i \in 1..n |-> n + 1 - i]
  <1>3. DOMAIN entries = 1..n
    OBVIOUS
  <1> HIDE DEF entries
  <1>4. Filled(<< >>, entries) = [i \in 1..n |-> entries[i]]
    BY <1>1, <1>2, <1>3 DEF Filled
  <1> QED
    BY <1>4 DEF entries

LEMMA ElementsAdded ==
  ASSUME FEMAssumption, Meshed, nodes # << >>, Add3DElements
  PROVE  Meshed'
  <1> DEFINE k == Len(elements3d)
             new == (k + 1)..(k + Batch)
  <1>1. k \in Nat /\ Batch \in Nat /\ DOMAIN elements3d = 1..k
    BY ListLength DEF Meshed, FEMAssumption
  <1>2. new \subseteq DOMAIN Hexes
        /\ elements3d' = [n \in DOMAIN elements3d \cup new |->
               IF n \in new THEN [nodes |-> Hexes[n], layerindex |-> LayerOf[n],
                                  active |-> TRUE, coloridx |-> 0]
               ELSE elements3d[n]]
    BY DEF Add3DElements
  <1>3. DOMAIN elements3d \cup new = 1..(k + Batch)
    BY <1>1
  <1>4. ASSUME NEW n \in 1..(k + Batch)
        PROVE  elements3d'[n] \in FEMElements /\ n \in DOMAIN Hexes
               /\ elements3d'[n].nodes = Hexes[n]
    <2>1. CASE n \in new
      <3>1. n \in DOMAIN Hexes /\ Hexes[n] \in [1..8 -> 1..NodeCount]
        BY <1>2, <2>1 DEF FEMAssumption
      <3>2. elements3d'[n] = [nodes |-> Hexes[n], layerindex |-> LayerOf[n],
                              active |-> TRUE, coloridx |-> 0]
        BY <1>2, <1>3, <2>1
      <3>3. LayerOf[n] \in {LayerOf[i] : i \in DOMAIN Hexes}
        BY <3>1
      <3> QED
        BY <3>1, <3>2, <3>3 DEF FEMElements
    <2>2. CASE n \notin new
      <3>1. n \in 1..k /\ elements3d'[n] = elements3d[n]
        BY <1>1, <1>2, <1>3, <2>2
      <3> QED
        BY <1>1, <3>1, ListLength DEF Meshed
    <2> QED
      BY <2>1, <2>2
  <1>5. elements3d' = [n \in 1..(k + Batch) |-> elements3d'[n]]
    BY <1>2, <1>3
  <1>6. k + Batch \in Nat
    BY <1>1
  <1> HIDE DEF new, k
  <1>7. elements3d' \in [1..(k + Batch) -> FEMElements]
    BY <1>4, <1>5
  <1>8. elements3d' \in Seq(FEMElements) /\ DOMAIN elements3d' = 1..(k + Batch)
    BY <1>6, <1>7
  <1> QED
    BY <1>4, <1>8 DEF Meshed

LEMMA ElementsRecorded ==
  ASSUME Meshed, NEW new, DOMAIN new = DOMAIN elements3d,
         new = [e \in DOMAIN elements3d |-> new[e]],
         \A e \in DOMAIN elements3d :
           /\ new[e].nodes = elements3d[e].nodes
           /\ new[e] \in FEMElements,
         elements3d' = new
  PROVE  Meshed'
  <1> DEFINE k == Len(elements3d)
  <1>1. k \in Nat /\ DOMAIN elements3d = 1..k
    BY ListLength DEF Meshed
  <1> HIDE DEF k
  <1>2. new \in [1..k -> FEMElements]
    BY <1>1
  <1>3. new \in Seq(FEMElements)
    BY <1>1, <1>2
  <1> QED
    BY <1>3 DEF Meshed

LEMMA ElementsEnabled ==
  ASSUME FEMInv, EnableSome
  PROVE  /\ Meshed' /\ updating'
         /\ UNCHANGED <<nodes, nodelookup, elementlookup, fecolors, removehidden, faceset>>
         /\ (Bare => elements3d' = << >>)
  <1>1. \E onoroff \in BOOLEAN : \E which : Enable(which, onoroff)
    <2>1. PICK onoroff \in BOOLEAN :
                    \/ Enable(DOMAIN elements3d, onoroff)
                    \/ \E h \in HalfSpaces :
                         Enable({e \in DOMAIN elements3d : Intersects(h, elements3d[e])}, onoroff)
                    \/ \E number \in Switched :
                         Known(number) /\ Enable({elementlookup[number]}, onoroff)
                    \/ \E l \in {LayerOf[n] : n \in DOMAIN LayerOf} :
                         Enable({e \in DOMAIN elements3d : elements3d[e].layerindex = l}, onoroff)
      BY DEF EnableSome
    <2>2. \E which : Enable(which, onoroff)
      <3>1. CASE Enable(DOMAIN elements3d, onoroff)
        BY <3>1
      <3>2. CASE \E h \in HalfSpaces :
                   Enable({e \in DOMAIN elements3d : Intersects(h, elements3d[e])}, onoroff)
        BY <3>2
      <3>3. CASE \E number \in Switched :
                   Known(number) /\ Enable({elementlookup[number]}, onoroff)
        BY <3>3
      <3>4. CASE \E l \in {LayerOf[n] : n \in DOMAIN LayerOf} :
                   Enable({e \in DOMAIN elements3d : elements3d[e].layerindex = l}, onoroff)
        BY <3>4
      <3> QED
        BY <2>1, <3>1, <3>2, <3>3, <3>4
    <2> QED
      BY <2>2
  <1>b. PICK onoroff \in BOOLEAN : \E which : Enable(which, onoroff)
    BY <1>1
  <1>c. PICK which : Enable(which, onoroff)
    BY <1>b
  <1> DEFINE new == [e \in DOMAIN elements3d |-> IF e \in which
                      THEN [elements3d[e] EXCEPT !.active = onoroff] ELSE elements3d[e]]
  <1>2. elements3d' = new
    BY <1>c DEF Enable
  <1>3. ASSUME NEW e \in DOMAIN elements3d
        PROVE  new[e].nodes = elements3d[e].nodes /\ new[e] \in FEMElements
    <2>1. elements3d[e] \in FEMElements
      BY ListLength DEF FEMInv, Meshed
    <2>2. new[e] = elements3d[e] \/ new[e] = [elements3d[e] EXCEPT !.active = onoroff]
      OBVIOUS
    <2> HIDE DEF new
    <2> QED
      BY <2>1, <2>2 DEF FEMElements
  <1>4. DOMAIN new = DOMAIN elements3d /\ new = [e \in DOMAIN elements3d |-> new[e]]
    OBVIOUS
  <1>5. Bare => new = << >>
    BY DEF Bare
  <1> HIDE DEF new
  <1>6. Meshed'
    BY <1>2, <1>3, <1>4, ElementsRecorded DEF FEMInv
  <1> QED
    BY <1>c, <1>2, <1>5, <1>6 DEF Enable

LEMMA ElementColored ==
  ASSUME Meshed, fecolors \in Nat, NEW i \in DOMAIN elements3d,
         elements3d' = [elements3d EXCEPT ![i].coloridx = fecolors + 1]
  PROVE  Meshed'
  <1> DEFINE new == [elements3d EXCEPT ![i].coloridx = fecolors + 1]
  <1>1. \A e \in DOMAIN elements3d : elements3d[e] \in FEMElements
    BY ListLength DEF Meshed
  <1>2. fecolors + 1 \in Nat
    OBVIOUS
  <1>3. ASSUME NEW e \in DOMAIN elements3d
        PROVE  new[e].nodes = elements3d[e].nodes /\ new[e] \in FEMElements
    <2>1. elements3d[e] \in FEMElements
      BY <1>1
    <2>2. new[e] = elements3d[e] \/ new[e] = [elements3d[e] EXCEPT !.coloridx = fecolors + 1]
      OBVIOUS
    <2> HIDE DEF new
    <2> QED
      BY <1>2, <2>1, <2>2 DEF FEMElements
  <1>4. DOMAIN new = DOMAIN elements3d /\ new = [e \in DOMAIN elements3d |-> new[e]]
    OBVIOUS
  <1> HIDE DEF new
  <1> QED
    BY <1>3, <1>4, ElementsRecorded DEF new

LEMMA NodeColored ==
  ASSUME Numbered, fecolors \in Nat, NEW i \in DOMAIN nodes,
         nodes' = [nodes EXCEPT ![i].coloridx = fecolors + 1], UNCHANGED nodelookup
  PROVE  Numbered'
  <1> DEFINE new == [nodes EXCEPT ![i].coloridx = fecolors + 1]
             T == [number : Nat, coloridx : Nat]
             k == Len(nodes)
  <1>1. k \in Nat /\ DOMAIN nodes = 1..k /\ k = NodeCount
        /\ \A j \in 1..k : nodes[j] \in T
    BY ListLength DEF Numbered
  <1>2. fecolors + 1 \in Nat
    OBVIOUS
  <1>3. ASSUME NEW j \in 1..k
        PROVE  new[j].number = nodes[j].number /\ new[j] \in T
    <2>1. nodes[j] \in T /\ j \in DOMAIN nodes
      BY <1>1
    <2>2. new[j] = nodes[j] \/ new[j] = [nodes[j] EXCEPT !.coloridx = fecolors + 1]
      BY <2>1
    <2> HIDE DEF new, k
    <2> QED
      BY <1>2, <2>1, <2>2
  <1>4. DOMAIN new = 1..k /\ new = [j \in 1..k |-> new[j]]
    BY <1>1
  <1>5. nodes' = new
    OBVIOUS
  <1> HIDE DEF new, k, T
  <1>6. new \in [1..k -> T]
    BY <1>3, <1>4
  <1>7. new \in Seq(T) /\ Len(new) = k
    BY <1>1, <1>4, <1>6
  <1>8. \A j \in 1..NodeCount : new[j].number = NodeCount + 1 - j
    BY <1>1, <1>3 DEF Numbered
  <1> QED
    BY <1>1, <1>5, <1>7, <1>8 DEF Numbered, T

LEMMA NodesAdded ==
  ASSUME FEMAssumption, Bare, AddNodes
  PROVE  Numbered'
  <1>1. NodeCount \in Nat \ {0}
    BY DEF FEMAssumption
  <1>2. nodelookup' = [n \in 1..NodeCount |-> NodeCount + 1 - n]
    BY <1>1, NumbersFilled DEF AddNodes, Bare
  <1> DEFINE T == [number : Nat, coloridx : Nat]
             new == [i \in 1..NodeCount |-> [number |-> NodeCount + 1 - i, coloridx |-> 0]]
  <1>3. \A i \in 1..NodeCount : new[i] \in T /\ new[i].number = NodeCount + 1 - i
    BY <1>1
  <1>4. nodes' = new /\ DOMAIN new = 1..NodeCount /\ new = [i \in 1..NodeCount |-> new[i]]
    BY DEF AddNodes
  <1> HIDE DEF T, new
  <1>5. new \in [1..NodeCount -> T]
    BY <1>3, <1>4
  <1>6. new \in Seq(T) /\ Len(new) = NodeCount
    BY <1>1, <1>4, <1>5
  <1> QED
    BY <1>2, <1>3, <1>4, <1>6 DEF Numbered, T

LEMMA FEMBegins == FEMInit => FEMInv
  <1> SUFFICES ASSUME FEMInit PROVE FEMInv
    OBVIOUS
  <1>1. Bare /\ DOMAIN elements3d = {}
    BY DEF FEMInit, Bare
  <1>2. Meshed
    BY <1>1 DEF Meshed, Bare
  <1>3. Active = {}
    BY <1>1 DEF Active
  <1>4. Scene = {}
    BY <1>3, SceneIs
  <1> QED
    BY <1>1, <1>2, <1>4 DEF FEMInit, FEMInv

LEMMA FEMStep ==
  ASSUME FEMAssumption
  PROVE  FEMInv /\ [FEMNext]_femvars => FEMInv'
  <1> SUFFICES ASSUME FEMInv, [FEMNext]_femvars PROVE FEMInv'
    OBVIOUS
  <1>0. /\ fecolors \in Nat /\ removehidden \in BOOLEAN /\ Meshed /\ (Bare \/ Numbered)
        /\ (~updating => faceset = Scene)
    BY DEF FEMInv
  <1>1. CASE UpdateFEM
    <2>1. UNCHANGED <<nodes, nodelookup, elements3d, elementlookup, fecolors, removehidden>>
          /\ faceset' = Scene
      BY <1>1 DEF UpdateFEM, femlists
    <2>2. UNCHANGED <<nodes, nodelookup, elements3d, elementlookup, fecolors, removehidden>>
      BY <2>1
    <2>3. Scene' = Scene
      BY <2>2 DEF Scene, Active, ActiveFaces, ElementFaces, Hidden, ColorIdx
    <2>4. Meshed' /\ (Bare' \/ Numbered')
      BY <1>0, <2>1 DEF Meshed, Bare, Numbered
    <2> QED
      BY <1>0, <2>1, <2>3, <2>4 DEF FEMInv
  <1>2. CASE ResetFEM
    <2>1. Bare' /\ (DOMAIN elements3d = {})' /\ (fecolors \in Nat)' /\ (faceset = {})'
          /\ UNCHANGED removehidden
      BY <1>2 DEF ResetFEM, Bare
    <2>2. Meshed'
      BY <2>1 DEF Meshed, Bare
    <2>3. (Active = {})'
      BY <2>1 DEF Active
    <2>5. (Scene = {})'
      BY <2>3 DEF Scene
    <2> QED
      BY <1>0, <2>1, <2>2, <2>5 DEF FEMInv
  <1>3. CASE AddNodes
    <2>1. Bare
      BY <1>0, <1>3 DEF AddNodes, Numbered, FEMAssumption
    <2>2. Numbered'
      BY <1>3, <2>1, NodesAdded
    <2>3. Meshed'
      BY <1>0, <1>3 DEF AddNodes, Meshed
    <2> QED
      BY <1>0, <1>3, <2>2, <2>3 DEF AddNodes, FEMInv
  <1>4. CASE Add3DElements
    <2>1. nodes # << >> /\ Numbered
      BY <1>0, <1>4 DEF Add3DElements, Bare
    <2>2. Meshed'
      BY <1>0, <1>4, <2>1, ElementsAdded
    <2>3. Numbered'
      BY <1>4, <2>1 DEF Add3DElements, Numbered
    <2> QED
      BY <1>0, <1>4, <2>2, <2>3 DEF Add3DElements, FEMInv
  <1>5. CASE EnableSome
    <2>1. /\ Meshed' /\ updating'
          /\ UNCHANGED <<nodes, nodelookup, elementlookup, fecolors, removehidden, faceset>>
          /\ (Bare => elements3d' = << >>)
      BY <1>5, ElementsEnabled
    <2>2. Bare' \/ Numbered'
      BY <1>0, <2>1 DEF Bare, Numbered
    <2> QED
      BY <1>0, <2>1, <2>2 DEF FEMInv
  <1>6. CASE RemoveHiddenFaces
    <2>1. UNCHANGED <<nodes, nodelookup, elements3d, elementlookup, fecolors>>
          /\ updating' /\ (removehidden \in BOOLEAN)'
      BY <1>6 DEF RemoveHiddenFaces, femlists
    <2>2. Meshed' /\ (Bare' \/ Numbered')
      BY <1>0, <2>1 DEF Meshed, Bare, Numbered
    <2> QED
      BY <1>0, <2>1, <2>2 DEF FEMInv
  <1>7. ASSUME NEW q \in Quads, Add2DElement(q) PROVE FEMInv'
    <2>1. UNCHANGED <<nodes, nodelookup, elements3d, fecolors, removehidden>> /\ updating'
      BY <1>7 DEF Add2DElement
    <2>2. Meshed' /\ (Bare' \/ Numbered')
      BY <1>0, <2>1 DEF Meshed, Bare, Numbered
    <2> QED
      BY <1>0, <2>1, <2>2 DEF FEMInv
  <1>8. ASSUME NEW what \in Painted, SetColor(what) PROVE FEMInv'
    <2>1. (fecolors \in Nat)' /\ updating' /\ UNCHANGED <<nodelookup, removehidden>>
      BY <1>0, <1>8 DEF SetColor
    <2>2. CASE /\ what[2] \in DOMAIN nodelookup
               /\ nodes' = [nodes EXCEPT ![nodelookup[what[2]]].coloridx = fecolors + 1]
               /\ UNCHANGED elements3d
      <3>1. Numbered
        BY <1>0, <2>2 DEF Bare
      <3>2. nodelookup[what[2]] \in DOMAIN nodes
        <4> DEFINE n == what[2]
        <4>1. n \in 1..NodeCount /\ NodeCount \in Nat
          BY <2>2, <3>1 DEF Numbered, FEMAssumption
        <4> HIDE DEF n
        <4>2. nodelookup[n] = NodeCount + 1 - n /\ DOMAIN nodes = 1..NodeCount
          BY <3>1, <4>1 DEF Numbered
        <4>3. nodelookup[n] \in DOMAIN nodes
          BY <4>1, <4>2
        <4> QED
          BY <4>3 DEF n
      <3>3. Numbered'
        BY <1>0, <2>1, <2>2, <3>1, <3>2, NodeColored
      <3>4. Meshed'
        BY <1>0, <2>2 DEF Meshed
      <3> QED
        BY <1>0, <2>1, <3>3, <3>4 DEF FEMInv
    <2>3. CASE /\ Known(what[2])
               /\ elements3d' = [elements3d EXCEPT ![elementlookup[what[2]]].coloridx = fecolors + 1]
               /\ UNCHANGED nodes
      <3>1. elementlookup[what[2]] \in DOMAIN elements3d
        BY <2>3 DEF Known
      <3>2. Meshed'
        BY <1>0, <2>3, <3>1, ElementColored
      <3>3. Numbered'
        BY <1>0, <2>1, <2>3, <3>1 DEF Bare, Numbered
      <3> QED
        BY <1>0, <2>1, <3>2, <3>3 DEF FEMInv
    <2> QED
      BY <1>8, <2>2, <2>3 DEF SetColor
  <1>9. CASE UNCHANGED femvars
    <2>1. UNCHANGED <<nodes, nodelookup, elements3d, elementlookup, fecolors, removehidden,
                      faceset, updating>>
      BY <1>9 DEF femvars, femlists
    <2>2. Scene' = Scene
      BY <2>1 DEF Scene, Active, ActiveFaces, ElementFaces, Hidden, ColorIdx
    <2>3. Meshed' /\ (Bare' \/ Numbered')
      BY <1>0, <2>1 DEF Meshed, Bare, Numbered
    <2> QED
      BY <1>0, <2>1, <2>2, <2>3 DEF FEMInv
  <1> QED
    BY <1>1, <1>2, <1>3, <1>4, <1>5, <1>6, <1>7, <1>8, <1>9 DEF FEMNext

(* What is shown of a model, once no update is due, is its closed surface,  *)
(* in the colours it was given, whatever was added, painted, enabled and    *)
(* disabled before.                                                         *)
THEOREM FEMSurfaceIsShown == FEMAssumption => (FEMSpec => []SurfaceShown)
  <1> SUFFICES ASSUME FEMAssumption PROVE FEMSpec => []SurfaceShown
    OBVIOUS
  <1>1. FEMInit => FEMInv
    BY FEMBegins
  <1>2. FEMInv /\ [FEMNext]_femvars => FEMInv'
    BY FEMStep
  <1>3. FEMInv => SurfaceShown
    BY FEMIsShown
  <1> QED
    BY <1>1, <1>2, <1>3, PTL DEF FEMSpec

-----------------------------------------------------------------------------
(* The slices of a pie.                                                     *)
PieSpec == PieInit /\ [][PieNext]_pievars

(* Sums of positive steps rise.                                             *)
Summed(B, s) == /\ B \in [0..Len(s) -> Int] /\ B[0] = 0
                /\ \A i \in 1..Len(s) : B[i] = B[i - 1] + s[i]
LEMMA AccumulatedIs ==
  ASSUME NEW s \in Seq(Int)
  PROVE  Summed(Accumulated(s), s)
  <1> DEFINE n == Len(s)
             step == [i \in 1..n |-> [x \in Int |-> x + s[i]]]
             Sums(f) == f = [i \in 0..n |-> IF i = 0 THEN 0 ELSE f[i - 1] + s[i]]
             made == CHOOSE f : Sums(f)
  <1>1. Accumulated(s) = made
    BY DEF Accumulated
  <1>2. n \in Nat /\ \A i \in 1..n : s[i] \in Int
    OBVIOUS
  <1>3. step \in [1..n -> [Int -> Int]]
    BY <1>2
  <1>4. PICK f \in [0..n -> Int] : Loops(f, n, 0, step)
    <2> DEFINE zero == 0
    <2>1. zero \in Int
      OBVIOUS
    <2> HIDE DEF step, n, zero
    <2>2. \E f \in [0..n -> Int] : Loops(f, n, zero, step)
      BY <1>2, <1>3, <2>1, LoopRuns
    <2> QED
      BY <2>2 DEF zero
  <1>5. \A i \in 0..n : f[i] = IF i = 0 THEN 0 ELSE f[i - 1] + s[i]
    <2> TAKE i \in 0..n
    <2>1. CASE i = 0
      BY <1>4, <2>1 DEF Loops
    <2>2. CASE i # 0
      <3>1. i \in 1..n /\ i - 1 \in 0..n
        BY <2>2, <1>2
      <3>2. f[i] = step[i][f[i - 1]] /\ f[i - 1] \in Int
        <4> HIDE DEF step, n
        <4> QED
          BY <1>4, <3>1 DEF Loops
      <3>3. step[i][f[i - 1]] = f[i - 1] + s[i]
        BY <3>1, <3>2
      <3> QED
        BY <2>2, <3>2, <3>3
    <2> QED
      BY <2>1, <2>2
  <1>6. Sums(f)
    <2>1. f = [i \in 0..n |-> f[i]]
      BY <1>4
    <2> QED
      BY <2>1, <1>5
  <1>7. Sums(made)
    <2> HIDE DEF Sums
    <2> QED
      BY <1>6
  <1> HIDE DEF made
  <1> DEFINE T == {i \in 0..n : made[i] \in Int}
  <1>8. \A i \in 0..n : made[i] = IF i = 0 THEN 0 ELSE made[i - 1] + s[i]
    BY <1>7
  <1>9. made[0] = 0 /\ \A i \in 1..n : made[i] = made[i - 1] + s[i]
    BY <1>2, <1>8
  <1>10. 0..n \subseteq T
    <2>1. 0 \in T
      BY <1>2, <1>9
    <2>2. \A i \in 1..n : i - 1 \in T => i \in T
      BY <1>2, <1>9
    <2> HIDE DEF T, n
    <2> QED
      BY <1>2, <2>1, <2>2, UpTo
  <1>11. made = [i \in 0..n |-> made[i]]
    BY <1>7
  <1> HIDE DEF Sums
  <1>12. made \in [0..n -> Int]
    <2> HIDE DEF n
    <2>1. \A i \in 0..n : made[i] \in Int
      BY <1>10
    <2> QED
      BY <1>11, <2>1
  <1> QED
    BY <1>1, <1>9, <1>12 DEF Summed

(* Two sums of the same steps are the same.                                 *)
LEMMA SummedOnce ==
  ASSUME NEW s \in Seq(Int), NEW B, NEW C, Summed(B, s), Summed(C, s)
  PROVE  \A i \in 0..Len(s) : B[i] = C[i]
  <1> DEFINE n == Len(s)
             T == {i \in 0..n : B[i] = C[i]}
  <1>1. n \in Nat /\ 0 \in T
    BY DEF Summed
  <1>2. \A i \in 1..n : i - 1 \in T => i \in T
    BY DEF Summed
  <1> HIDE DEF T, n
  <1>3. 0..n \subseteq T
    BY <1>1, <1>2, UpTo
  <1> QED
    BY <1>3 DEF T, n

Rises(B, n) == /\ B \in [0..n -> Int] /\ B[0] = 0
               /\ \A i, j \in 0..n : i < j => B[i] < B[j]
LEMMA SumsRise ==
  ASSUME NEW s \in Seq(Int), NEW B, Summed(B, s), \A i \in 1..Len(s) : s[i] > 0
  PROVE  Rises(B, Len(s))
  <1> DEFINE n == Len(s)
             T == {j \in 0..n : \A i \in 0..n : i < j => B[i] < B[j]}
  <1>1. n \in Nat /\ 0 \in T
    OBVIOUS
  <1>2. ASSUME NEW j \in 1..n, j - 1 \in T PROVE j \in T
    <2>1. \A i \in 0..n : B[i] \in Int
      BY DEF Summed
    <2>2. B[j] = B[j - 1] + s[j] /\ s[j] > 0 /\ s[j] \in Int /\ B[j - 1] \in Int
      BY <2>1, <1>1 DEF Summed
    <2>3. ASSUME NEW i \in 0..n, i < j PROVE B[i] < B[j]
      <3>1. i = j - 1 \/ i < j - 1
        BY <2>3, <1>1
      <3>2. i < j - 1 => B[i] < B[j - 1]
        BY <1>2
      <3>3. B[i] \in Int
        BY <2>1
      <3> QED
        BY <2>2, <3>1, <3>2, <3>3
    <2> QED
      BY <2>3, <1>1
  <1> HIDE DEF T, n
  <1>3. 0..n \subseteq T
    BY <1>1, <1>2, UpTo
  <1> QED
    BY <1>3 DEF Rises, Summed, T, n

(* The points of the circle and the borders in it, and the order of both.   *)
Marks == [point : Int, index : Int]
Laid(raw, c, n, B) ==
    /\ raw \in Seq(Marks) /\ Len(raw) = c + n
    /\ \A i \in 1..(c + 1) : raw[i].point = (i - 1) * B[n] /\ raw[i].index = -1
    /\ \A i \in (c + 2)..(c + n) : raw[i].point = c * B[i - c - 1] /\ raw[i].index = i - c - 1

LEMMA Scaled ==
  ASSUME NEW c \in Nat \ {0}, NEW a \in Int, NEW b \in Int
  PROVE  /\ c * a \in Int
         /\ a < b => c * a < c * b
         /\ a <= b => c * a <= c * b
         /\ c * a = c * b => a = b
  OBVIOUS

LEMMA Joint ==
  ASSUME NEW S, NEW a \in Seq(S), NEW b \in Seq(S)
  PROVE  /\ a \o b \in Seq(S) /\ Len(a \o b) = Len(a) + Len(b)
         /\ \A i \in 1..(Len(a) + Len(b)) : (a \o b)[i] = IF i <= Len(a) THEN a[i] ELSE b[i - Len(a)]
  OBVIOUS

LEMMA RawIs ==
  ASSUME NEW c \in Nat \ {0}, NEW n \in Nat \ {0}, NEW B, Rises(B, n),
         Circle = c, Len(values) = n, Sumvalues = B[n],
         \A i \in 1..(n - 1) : Border(i) = c * B[i]
  PROVE  Laid(Raw, c, n, B)
  <1> DEFINE a == [i \in 1..(c + 1) |-> [point |-> (i - 1) * B[n], index |-> -1]]
             b == [i \in 1..(n - 1) |-> [point |-> Border(i), index |-> i]]
             M == Marks
  <1>1. Raw = a \o b
    BY DEF Raw
  <1>2. \A i \in 0..n : B[i] \in Int
    BY DEF Rises
  <1>3. a \in Seq(M) /\ Len(a) = c + 1
    <2>1. \A i \in 1..(c + 1) : (i - 1) * B[n] \in Int
      <3>1. B[n] \in Int
        BY <1>2
      <3> QED
        BY <3>1
    <2>2. \A i \in 1..(c + 1) : [point |-> (i - 1) * B[n], index |-> -1] \in M
      BY <2>1 DEF Marks
    <2>3. c + 1 \in Nat
      OBVIOUS
    <2> HIDE DEF M
    <2>4. a \in [1..(c + 1) -> M]
      BY <2>2
    <2> QED
      BY <2>3, <2>4
  <1>4. b \in Seq(M) /\ Len(b) = n - 1
    <2>1. \A i \in 1..(n - 1) : Border(i) \in Int
      <3> TAKE i \in 1..(n - 1)
      <3>1. B[i] \in Int
        BY <1>2
      <3> QED
        BY <3>1, Scaled
    <2>2. \A i \in 1..(n - 1) : [point |-> Border(i), index |-> i] \in M
      BY <2>1 DEF Marks
    <2>3. n - 1 \in Nat
      OBVIOUS
    <2> HIDE DEF M
    <2>4. b \in [1..(n - 1) -> M]
      BY <2>2
    <2> QED
      BY <2>3, <2>4
  <1>5. \A i \in 1..(c + 1) : a[i].point = (i - 1) * B[n] /\ a[i].index = -1
    OBVIOUS
  <1>6. \A i \in 1..(n - 1) : b[i].point = c * B[i] /\ b[i].index = i
    OBVIOUS
  <1> HIDE DEF a, b, M
  <1>7. Raw \in Seq(M) /\ Len(Raw) = c + n
    <2>1. Raw \in Seq(M) /\ Len(Raw) = Len(a) + Len(b)
      BY <1>1, <1>3, <1>4, Joint
    <2> QED
      BY <1>3, <1>4, <2>1
  <1>8. \A i \in 1..(c + n) : Raw[i] = IF i <= c + 1 THEN a[i] ELSE b[i - (c + 1)]
    <2>1. Len(a) + Len(b) = c + n
      BY <1>3, <1>4
    <2> QED
      BY <1>1, <1>3, <1>4, <2>1, Joint
  <1>9. \A i \in 1..(c + 1) : Raw[i] = a[i]
    BY <1>8
  <1>10. ASSUME NEW i \in (c + 2)..(c + n) PROVE Raw[i] = b[i - c - 1] /\ i - c - 1 \in 1..(n - 1)
    <2>1. i \in 1..(c + n) /\ ~(i <= c + 1) /\ i - (c + 1) = i - c - 1 /\ i - c - 1 \in 1..(n - 1)
      OBVIOUS
    <2> QED
      BY <1>8, <2>1
  <1>11. \A i \in 1..(c + 1) : Raw[i].point = (i - 1) * B[n] /\ Raw[i].index = -1
    BY <1>5, <1>9
  <1>12. \A i \in (c + 2)..(c + n) : Raw[i].point = c * B[i - c - 1] /\ Raw[i].index = i - c - 1
    BY <1>6, <1>10
  <1> QED
    BY <1>7, <1>11, <1>12 DEF Laid, M

(* The sort puts every mark in a place of its own.                          *)
ComesIn(raw, j, i) == \/ raw[j].point < raw[i].point
                      \/ raw[j].point = raw[i].point /\ j < i
BeforeIn(raw, i) == {j \in DOMAIN raw : ComesIn(raw, j, i)}
PlaceIn(raw) == [i \in DOMAIN raw |-> Cardinality(BeforeIn(raw, i)) + 1]

LEMMA Places ==
  ASSUME NEW raw \in Seq(Marks)
  PROVE  /\ \A i \in 1..Len(raw) : PlaceIn(raw)[i] \in 1..Len(raw)
         /\ \A i, j \in 1..Len(raw) : ComesIn(raw, i, j) => PlaceIn(raw)[i] < PlaceIn(raw)[j]
  <1> DEFINE n == Len(raw)
             place == PlaceIn(raw)
  <1>1. n \in Nat /\ DOMAIN raw = 1..n /\ \A i \in 1..n : raw[i].point \in Int
    <2>1. n \in Nat /\ DOMAIN raw = 1..n /\ \A i \in 1..n : raw[i] \in Marks
      BY ListLength
    <2>2. \A m \in Marks : m.point \in Int
      BY DEF Marks
    <2> QED
      BY <2>1, <2>2
  <1> HIDE DEF n
  <1>2. ASSUME NEW i \in 1..n
        PROVE  /\ IsFiniteSet(BeforeIn(raw, i)) /\ i \notin BeforeIn(raw, i)
               /\ Cardinality(BeforeIn(raw, i)) \in Nat
               /\ BeforeIn(raw, i) \cup {i} \subseteq 1..n
    <2>1. i \notin BeforeIn(raw, i)
      BY <1>1 DEF BeforeIn, ComesIn
    <2>2. BeforeIn(raw, i) \cup {i} \subseteq 1..n
      BY <1>1 DEF BeforeIn
    <2> DEFINE U == BeforeIn(raw, i)
    <2> HIDE DEF U
    <2>3. IsFiniteSet(1..n)
      BY <1>1, FS_Interval
    <2>4. U \subseteq 1..n
      BY <2>2 DEF U
    <2>5. IsFiniteSet(U)
      BY <2>3, <2>4, FS_Subset
    <2>6. Cardinality(U) \in Nat
      BY <2>5, FS_CardinalityType
    <2> QED
      BY <2>1, <2>2, <2>5, <2>6 DEF U
  <1>3. \A i \in 1..n : place[i] = Cardinality(BeforeIn(raw, i)) + 1
    BY <1>1 DEF PlaceIn
  <1>4. ASSUME NEW i \in 1..n, NEW T, IsFiniteSet(T), BeforeIn(raw, i) \cup {i} \subseteq T
        PROVE  place[i] <= Cardinality(T)
    <2> DEFINE U == BeforeIn(raw, i)
    <2>1. IsFiniteSet(U) /\ i \notin U /\ U \cup {i} \subseteq T
      BY <1>2, <1>4
    <2> HIDE DEF U
    <2>2. Cardinality(U \cup {i}) = Cardinality(U) + 1
      BY <2>1, FS_AddElement
    <2> DEFINE V == U \cup {i}
    <2>3. Cardinality(V) <= Cardinality(T)
      <3>1. V \in SUBSET T
        BY <2>1
      <3> HIDE DEF V
      <3> QED
        BY <1>4, <3>1, FS_Subset
    <2> QED
      BY <1>3, <2>2, <2>3 DEF U
  <1>5. ASSUME NEW i \in 1..n PROVE place[i] \in 1..n
    <2>1. IsFiniteSet(1..n) /\ Cardinality(1..n) = n
      <3>1. IsFiniteSet(1..n) /\ Cardinality(1..n) = IF 1 > n THEN 0 ELSE n - 1 + 1
        BY <1>1, FS_Interval
      <3> QED
        BY <1>1, <3>1
    <2>2. place[i] <= n
      BY <1>2, <1>4, <2>1
    <2> QED
      BY <1>1, <1>2, <1>3, <2>2
  <1>6. ASSUME NEW i \in 1..n, NEW j \in 1..n, ComesIn(raw, i, j)
        PROVE  place[i] < place[j]
    <2>1. BeforeIn(raw, i) \cup {i} \subseteq BeforeIn(raw, j)
      BY <1>1, <1>6 DEF BeforeIn, ComesIn
    <2>2. place[i] <= Cardinality(BeforeIn(raw, j))
      BY <1>2, <1>4, <2>1
    <2> QED
      BY <1>2, <1>3, <2>2, <1>5
  <1> QED
    BY <1>5, <1>6 DEF n

LEMMA AllOneToOne ==
  ASSUME NEW n \in Nat, NEW f \in [1..n -> 1..n],
         \A i, j \in 1..n : f[i] = f[j] => i = j
  PROVE  \A k \in 1..n : \E i \in 1..n : f[i] = k
  <1> DEFINE S == 1..n
  <1>1. IsFiniteSet(S)
    BY FS_Interval
  <1>2. f \in Injection(S, S)
    BY DEF Injection, IsInjective
  <1> HIDE DEF S
  <1>3. f \in Surjection(S, S)
    BY <1>1, <1>2, FS_Injection
  <1> QED
    BY <1>3 DEF Surjection, S

(* The sorted marks, each from its place among the raw ones.                *)
SortedFrom(s, raw, from) ==
    /\ from \in [1..Len(raw) -> 1..Len(raw)] /\ s = [k \in 1..Len(raw) |-> raw[from[k]]]
    /\ \A k, l \in 1..Len(raw) : k < l => ComesIn(raw, from[k], from[l])
    /\ \A i \in 1..Len(raw) : \E k \in 1..Len(raw) : from[k] = i
LEMMA SortedIs ==
  ASSUME Raw \in Seq(Marks)
  PROVE  \E from : SortedFrom(Sorted, Raw, from)
  <1> DEFINE n == Len(Raw)
             place == PlaceIn(Raw)
             D == DOMAIN Raw
             from == [k \in D |-> CHOOSE i \in D : place[i] = k]
  <1>1. n \in Nat /\ DOMAIN Raw = 1..n /\ \A i \in 1..n : Raw[i].point \in Int
    <2>1. n \in Nat /\ DOMAIN Raw = 1..n /\ \A i \in 1..n : Raw[i] \in Marks
      BY ListLength
    <2>2. \A m \in Marks : m.point \in Int
      BY DEF Marks
    <2> QED
      BY <2>1, <2>2
  <1>2. Sorted = [k \in DOMAIN Raw |-> Raw[CHOOSE i \in DOMAIN Raw : place[i] = k]]
    BY DEF Sorted, PlaceIn, BeforeIn, ComesIn
  <1>3. Sorted = [k \in 1..n |-> Raw[from[k]]]
    <2> DEFINE At(k) == CHOOSE i \in D : place[i] = k
    <2>1. \A k \in D : from[k] = At(k)
      OBVIOUS
    <2>2. Sorted = [k \in D |-> Raw[At(k)]]
      BY <1>2
    <2>3. D = 1..n
      BY <1>1
    <2> HIDE DEF n, from, place, D, At
    <2>4. Sorted = [k \in D |-> Raw[from[k]]]
      BY <2>1, <2>2
    <2> QED
      BY <2>3, <2>4
  <1>4. \A i, j \in 1..n : i # j => ComesIn(Raw, i, j) \/ ComesIn(Raw, j, i)
    <2> HIDE DEF n
    <2> QED
      BY <1>1 DEF ComesIn
  <1>5. /\ \A i \in 1..n : place[i] \in 1..n
        /\ \A i, j \in 1..n : ComesIn(Raw, i, j) => place[i] < place[j]
    BY Places
  <1> HIDE DEF n
  <1>6. place \in [1..n -> 1..n]
    <2>1. place = [i \in 1..n |-> place[i]]
      BY <1>1 DEF PlaceIn
    <2> HIDE DEF place
    <2> QED
      BY <1>5, <2>1
  <1> HIDE DEF place
  <1>7. \A i, j \in 1..n : place[i] = place[j] => i = j
    BY <1>1, <1>4, <1>5
  <1>8. \A k \in 1..n : \E i \in 1..n : place[i] = k
    BY <1>1, <1>6, <1>7, AllOneToOne
  <1>a. D = 1..n
    BY <1>1
  <1> HIDE DEF D
  <1>9. \A k \in 1..n : from[k] \in 1..n /\ place[from[k]] = k
    BY <1>a, <1>8
  <1>10. from \in [1..n -> 1..n]
    BY <1>a, <1>9
  <1> HIDE DEF from
  <1>11. ASSUME NEW k \in 1..n, NEW l \in 1..n, k < l PROVE ComesIn(Raw, from[k], from[l])
    <2>1. from[k] # from[l] /\ ~(place[from[l]] < place[from[k]])
      BY <1>1, <1>9, <1>11
    <2> QED
      BY <1>4, <1>5, <1>9, <2>1
  <1>12. \A i \in 1..n : \E k \in 1..n : from[k] = i
    <2> TAKE i \in 1..n
    <2>1. place[i] \in 1..n /\ from[place[i]] \in 1..n /\ place[from[place[i]]] = place[i]
      BY <1>5, <1>9
    <2> QED
      BY <1>7, <2>1
  <1>13. SortedFrom(Sorted, Raw, from)
    BY <1>3, <1>10, <1>11, <1>12 DEF SortedFrom, n
  <1> QED
    BY <1>13

(* Points of the circle, and borders, differ from each other.               *)
LEMMA RawClasses ==
  ASSUME NEW c \in Nat \ {0}, NEW n \in Nat \ {0}, NEW B, Rises(B, n), NEW raw, Laid(raw, c, n, B)
  PROVE  /\ B[n] \in Nat \ {0}
         /\ \A i \in 1..(c + n) : raw[i].point \in Nat /\ raw[i].point <= c * B[n]
         /\ \A i, j \in 1..(c + n) : i < j /\ (j <= c + 1 \/ c + 1 < i) => raw[i].point < raw[j].point
         /\ \A i \in 1..(c + n) : raw[i].index # -1 <=> c + 1 < i
         /\ \A i \in (c + 2)..(c + n) : raw[i].index = i - c - 1 /\ raw[i].point = c * B[i - c - 1]
                                        /\ raw[i].point < c * B[n]
  <1>1. \A i \in 0..n : B[i] \in Int
    BY DEF Rises
  <1>2. \A i, j \in 0..n : i < j => B[i] < B[j]
    BY DEF Rises
  <1>3. B[n] \in Nat \ {0} /\ B[0] = 0
    <2>1. 0 \in 0..n /\ n \in 0..n /\ 0 < n
      OBVIOUS
    <2>2. B[0] = 0 /\ B[0] < B[n] /\ B[n] \in Int
      BY <1>1, <1>2, <2>1 DEF Rises
    <2> QED
      BY <2>2
  <1> DEFINE S == B[n]
  <1>4. \A i \in 1..(c + 1) : raw[i].point = (i - 1) * S /\ raw[i].index = -1
    BY DEF Laid
  <1>5. \A i \in (c + 2)..(c + n) : raw[i].point = c * B[i - c - 1] /\ raw[i].index = i - c - 1
    BY DEF Laid
  <1>6. S \in Nat \ {0}
    BY <1>3
  <1> HIDE DEF S
  <1>7. ASSUME NEW i \in 1..(c + 1)
        PROVE  raw[i].point \in Nat /\ raw[i].point <= c * S /\ raw[i].point = S * (i - 1)
    <2> DEFINE a == i - 1
    <2>1. a \in Nat /\ a <= c /\ i - 1 = a /\ 0 <= a /\ c \in Int /\ 0 \in Int
      OBVIOUS
    <2> HIDE DEF a
    <2>2. raw[i].point = a * S
      BY <1>4, <2>1
    <2>3. a * S = S * a /\ c * S = S * c /\ S * 0 = 0
      BY <1>6, <2>1
    <2>4. S * a <= S * c /\ S * 0 <= S * a /\ S * a \in Int
      BY <1>6, <2>1, Scaled
    <2> QED
      BY <2>1, <2>2, <2>3, <2>4
  <1>8. ASSUME NEW i \in (c + 2)..(c + n)
        PROVE  /\ i - c - 1 \in 1..(n - 1) /\ raw[i].point = c * B[i - c - 1]
               /\ raw[i].index = i - c - 1
               /\ raw[i].point \in Nat /\ raw[i].point < c * S
    <2> DEFINE b == i - c - 1
    <2>1. b \in 1..(n - 1) /\ b \in 0..n /\ n \in 0..n /\ 0 \in 0..n /\ b < n /\ 0 < b
      OBVIOUS
    <2>2. raw[i].point = c * B[b] /\ raw[i].index = b
      BY <1>5
    <2> HIDE DEF b
    <2>3. B[b] \in Int /\ B[b] < S /\ 0 < B[b] /\ S \in Int /\ 0 \in Int
      BY <1>1, <1>2, <1>3, <2>1 DEF S
    <2> DEFINE x == B[b]
    <2>4. x \in Int /\ x < S /\ 0 < x /\ S \in Int /\ 0 \in Int
      BY <2>3
    <2> HIDE DEF x
    <2>5. c * x < c * S /\ c * 0 < c * x /\ c * x \in Int
      BY <2>4, Scaled
    <2>6. c * 0 = 0
      OBVIOUS
    <2>7. raw[i].point = c * x
      BY <2>2 DEF x
    <2>8. raw[i].point \in Nat /\ raw[i].point < c * S
      BY <2>5, <2>6, <2>7
    <2> QED
      BY <2>1, <2>2, <2>8 DEF b
  <1>9. ASSUME NEW i \in 1..(c + n), NEW j \in 1..(c + n), i < j, j <= c + 1
        PROVE  raw[i].point < raw[j].point
    <2>1. i \in 1..(c + 1) /\ j \in 1..(c + 1) /\ i - 1 \in Int /\ j - 1 \in Int /\ i - 1 < j - 1
      BY <1>9
    <2>2. S * (i - 1) < S * (j - 1)
      BY <1>6, <2>1, Scaled
    <2> QED
      BY <1>7, <2>1, <2>2
  <1>10. ASSUME NEW i \in 1..(c + n), NEW j \in 1..(c + n), i < j, c + 1 < i
         PROVE  raw[i].point < raw[j].point
    <2> DEFINE a == i - c - 1
               b == j - c - 1
    <2>1. i \in (c + 2)..(c + n) /\ j \in (c + 2)..(c + n) /\ a \in 0..n /\ b \in 0..n /\ a < b
      BY <1>10
    <2>2. raw[i].point = c * B[a] /\ raw[j].point = c * B[b]
      BY <1>8, <2>1
    <2> HIDE DEF a, b
    <2>3. B[a] < B[b] /\ B[a] \in Int /\ B[b] \in Int
      BY <1>1, <1>2, <2>1
    <2>4. c * B[a] < c * B[b]
      BY <2>3, Scaled
    <2> QED
      BY <2>2, <2>4
  <1>11. ASSUME NEW i \in 1..(c + n)
         PROVE  /\ raw[i].point \in Nat /\ raw[i].point <= c * S
                /\ raw[i].index # -1 <=> c + 1 < i
    <2>1. CASE i <= c + 1
      <3>1. i \in 1..(c + 1) /\ ~(c + 1 < i)
        BY <2>1
      <3> QED
        BY <3>1, <1>4, <1>7
    <2>2. CASE c + 1 < i
      <3>1. i \in (c + 2)..(c + n)
        BY <2>2
      <3>2. raw[i].point \in Nat /\ raw[i].point < c * S /\ raw[i].index \in 1..(n - 1)
        BY <1>8, <3>1
      <3>3. c * S \in Int
        BY <1>6
      <3> QED
        BY <2>2, <3>2, <3>3
    <2> QED
      BY <2>1, <2>2
  <1> QED
    BY <1>3, <1>8, <1>9, <1>10, <1>11 DEF S

(* A mark that is the last one at its point has the item that begins at the *)
(* last border up to there.                                                 *)
IsItem(b, x, c, n, B) == /\ b \in 0..(n - 1) /\ c * B[b] <= x
                         /\ \A j \in 0..(n - 1) : b < j => x < c * B[j]
LastAt(t, k) == k = Len(t) \/ t[k].point < t[k + 1].point
Ordered(t) == /\ \A k, l \in 1..Len(t) : k < l => t[k].point <= t[l].point
              /\ \A k \in 1..Len(t) : k + 2 <= Len(t) => t[k].point < t[k + 2].point
LEMMA SortedOrdered ==
  ASSUME NEW c \in Nat \ {0}, NEW n \in Nat \ {0}, NEW B, Rises(B, n), NEW raw, Laid(raw, c, n, B),
         NEW s, NEW from, SortedFrom(s, raw, from)
  PROVE  /\ s \in Seq(Marks) /\ Len(s) = c + n /\ Ordered(s)
         /\ \A k \in 1..(c + n) : from[k] \in 1..(c + n) /\ s[k] = raw[from[k]]
  <1>1. Len(raw) = c + n /\ c + n \in Nat /\ \A i \in 1..(c + n) : raw[i] \in Marks
    BY ListLength DEF Laid
  <1>2. /\ from \in [1..(c + n) -> 1..(c + n)] /\ s = [k \in 1..(c + n) |-> raw[from[k]]]
        /\ \A k, l \in 1..(c + n) : k < l => ComesIn(raw, from[k], from[l])
    BY <1>1 DEF SortedFrom
  <1>3. \A k \in 1..(c + n) : from[k] \in 1..(c + n) /\ s[k] = raw[from[k]]
    BY <1>2
  <1>4. s \in [1..(c + n) -> Marks]
    BY <1>1, <1>2, <1>3
  <1>5. s \in Seq(Marks) /\ Len(s) = c + n
    BY <1>1, <1>4
  <1>6. \A i \in 1..(c + n) : raw[i].point \in Int
    <2>1. \A m \in Marks : m.point \in Int
      BY DEF Marks
    <2> QED
      BY <1>1, <2>1
  <1>7. ASSUME NEW k \in 1..(c + n), NEW l \in 1..(c + n), k < l
        PROVE  s[k].point < s[l].point \/ (s[k].point = s[l].point /\ from[k] < from[l])
    BY <1>2, <1>3, <1>7 DEF ComesIn
  <1>8. \A k, l \in 1..(c + n) : k < l => s[k].point <= s[l].point
    BY <1>3, <1>6, <1>7
  <1>9. ASSUME NEW k \in 1..(c + n), k + 2 <= c + n PROVE s[k].point < s[k + 2].point
    <2>1. k + 1 \in 1..(c + n) /\ k + 2 \in 1..(c + n) /\ k < k + 1 /\ k + 1 < k + 2
      BY <1>9
    <2> DEFINE x == s[k].point
               y == s[k + 1].point
               z == s[k + 2].point
               p == from[k]
               q == from[k + 1]
               r == from[k + 2]
    <2>2. x \in Int /\ y \in Int /\ z \in Int /\ p \in 1..(c + n) /\ q \in 1..(c + n) /\ r \in 1..(c + n)
      BY <2>1, <1>3, <1>6
    <2>3. (x < y \/ (x = y /\ p < q)) /\ (y < z \/ (y = z /\ q < r))
      BY <2>1, <1>7
    <2>4. x = raw[p].point /\ y = raw[q].point /\ z = raw[r].point
      BY <2>1, <1>3
    <2> HIDE DEF x, y, z, p, q, r
    <2>5. CASE q <= c + 1
      <3>1. p < q => x < y
        BY <2>2, <2>4, <2>5, RawClasses
      <3> QED
        BY <2>2, <2>3, <3>1 DEF x, z
    <2>6. CASE c + 1 < q
      <3>1. q < r => y < z
        BY <2>2, <2>4, <2>6, RawClasses
      <3> QED
        BY <2>2, <2>3, <3>1 DEF x, z
    <2> QED
      BY <2>2, <2>5, <2>6
  <1> QED
    BY <1>3, <1>5, <1>8, <1>9 DEF Ordered

BordersAt(s, k) == {j \in 1..k : s[j].index # -1}
LEMMA IndexIs ==
  ASSUME NEW s, NEW k \in Nat
  PROVE  IF BordersAt(s, k) = {} THEN IndexAt(s, k) = 0
         ELSE \E m \in BordersAt(s, k) : /\ IndexAt(s, k) = s[m].index
                                         /\ \A l \in BordersAt(s, k) : l <= m
  <1> DEFINE borders == BordersAt(s, k)
             m == CHOOSE j \in borders : \A l \in borders : l <= j
  <1>1. IndexAt(s, k) = IF borders = {} THEN 0 ELSE s[m].index
    BY DEF IndexAt, BordersAt
  <1>2. ASSUME borders # {} PROVE m \in borders /\ \A l \in borders : l <= m
    <2>1. borders \in SUBSET Int /\ k \in Int /\ \A y \in borders : y <= k
      BY DEF BordersAt
    <2> HIDE DEF borders
    <2>2. Max(borders) \in borders /\ \A y \in borders : y <= Max(borders)
      BY <1>2, <2>1, Greatest
    <2> QED
      BY <2>2
  <1> HIDE DEF m
  <1> QED
    BY <1>1, <1>2

Itemized(t, c, n, B) ==
    \A k \in 1..Len(t) : LastAt(t, k) => IsItem(t[k].index, t[k].point, c, n, B)
SamePoints(t, u) == /\ \A k \in 1..Len(t) : \E i \in 1..Len(u) : u[i].point = t[k].point
                    /\ \A i \in 1..Len(u) : \E k \in 1..Len(t) : t[k].point = u[i].point

Bordered(s, c, n, B) ==
         /\ \A j \in 1..(n - 1) : \E l \in 1..(c + n) : s[l].index = j /\ s[l].point = c * B[j]
         /\ \A l \in 1..(c + n) : s[l].index # -1 =>
              s[l].index \in 1..(n - 1) /\ s[l].point = c * B[s[l].index]
         /\ \A l \in 1..(c + n) : s[l].point >= 0
LEMMA BorderAt ==
  ASSUME NEW c \in Nat \ {0}, NEW n \in Nat \ {0}, NEW B, Rises(B, n), NEW raw, Laid(raw, c, n, B),
         NEW s, NEW from, SortedFrom(s, raw, from)
  PROVE  Bordered(s, c, n, B)
  <1>1. Len(raw) = c + n /\ c + n \in Nat
    BY DEF Laid
  <1>2. \A l \in 1..(c + n) : from[l] \in 1..(c + n) /\ s[l] = raw[from[l]]
    BY SortedOrdered
  <1>3. \A i \in 1..(c + n) : \E k \in 1..(c + n) : from[k] = i
    BY <1>1 DEF SortedFrom
  <1>4. ASSUME NEW j \in 1..(n - 1)
        PROVE  \E l \in 1..(c + n) : s[l].index = j /\ s[l].point = c * B[j]
    <2> DEFINE i == c + 1 + j
    <2>1. i \in (c + 2)..(c + n) /\ i \in 1..(c + n) /\ i - c - 1 = j
      OBVIOUS
    <2> HIDE DEF i
    <2>2. raw[i].index = j /\ raw[i].point = c * B[j]
      BY <2>1, RawClasses
    <2>3. PICK l \in 1..(c + n) : from[l] = i
      BY <1>3, <2>1
    <2> QED
      BY <1>2, <2>2, <2>3
  <1>5. ASSUME NEW l \in 1..(c + n), s[l].index # -1
        PROVE  s[l].index \in 1..(n - 1) /\ s[l].point = c * B[s[l].index]
    <2> DEFINE i == from[l]
    <2>1. i \in 1..(c + n) /\ s[l] = raw[i]
      BY <1>2
    <2> HIDE DEF i
    <2>2. c + 1 < i
      BY <1>5, <2>1, RawClasses
    <2>3. i \in (c + 2)..(c + n) /\ i - c - 1 \in 1..(n - 1)
      BY <2>1, <2>2
    <2>4. raw[i].index = i - c - 1 /\ raw[i].point = c * B[i - c - 1]
      BY <2>3, RawClasses
    <2> QED
      BY <2>1, <2>3, <2>4
  <1>6. ASSUME NEW l \in 1..(c + n) PROVE s[l].point >= 0
    <2>1. s[l].point \in Nat
      BY <1>2, RawClasses
    <2> QED
      BY <2>1
  <1> QED
    BY <1>4, <1>5, <1>6 DEF Bordered

LEMMA IndexedIs ==
  ASSUME NEW c \in Nat \ {0}, NEW n \in Nat \ {0}, NEW B, Rises(B, n), NEW raw, Laid(raw, c, n, B),
         NEW s, NEW from, SortedFrom(s, raw, from), NEW t,
         t = [k \in DOMAIN s |-> [point |-> s[k].point, index |-> IndexAt(s, k)]]
  PROVE  t \in Seq(Marks) /\ Len(t) = c + n /\ Ordered(t) /\ Itemized(t, c, n, B)
         /\ SamePoints(t, raw)
  <1>0. c + n \in Nat /\ \A j \in 0..n : B[j] \in Int
    BY DEF Rises
  <1>b. Bordered(s, c, n, B)
    BY BorderAt
  <1>1. /\ s \in Seq(Marks) /\ Len(s) = c + n /\ Ordered(s)
        /\ \A k \in 1..(c + n) : from[k] \in 1..(c + n) /\ s[k] = raw[from[k]]
    BY SortedOrdered
  <1>2. DOMAIN s = 1..(c + n) /\ \A k \in 1..(c + n) : s[k].point \in Int /\ s[k].index \in Int
    <2>1. DOMAIN s = 1..(c + n) /\ \A k \in 1..(c + n) : s[k] \in Marks
      BY <1>1, ListLength
    <2>2. \A m \in Marks : m.point \in Int /\ m.index \in Int
      BY DEF Marks
    <2> QED
      BY <2>1, <2>2
  <1>3. \A k \in 1..(c + n) : t[k].point = s[k].point /\ t[k].index = IndexAt(s, k)
    BY <1>2
  <1>4. ASSUME NEW k \in 1..(c + n)
        PROVE  /\ IndexAt(s, k) \in 0..(n - 1) /\ c * B[IndexAt(s, k)] <= s[k].point
               /\ \A j \in 1..(n - 1) : \A l \in 1..k :
                    s[l].index = j /\ s[l].point = c * B[j] => j <= IndexAt(s, k)
    <2>0. k \in Nat
      OBVIOUS
    <2>1. CASE BordersAt(s, k) = {}
      <3>1. IndexAt(s, k) = 0
        BY <2>0, <2>1, IndexIs
      <3>2. B[0] = 0 /\ c * 0 = 0 /\ 0 \in 0..(n - 1)
        BY DEF Rises
      <3>3. s[k].point >= 0 /\ s[k].point \in Int
        BY <1>2, <1>b DEF Bordered
      <3>4. ASSUME NEW j \in 1..(n - 1), NEW l \in 1..k, s[l].index = j PROVE FALSE
        <4>1. l \in BordersAt(s, k)
          BY <3>4 DEF BordersAt
        <4> QED
          BY <2>1, <4>1
      <3> QED
        BY <3>1, <3>2, <3>3, <3>4
    <2>2. CASE BordersAt(s, k) # {}
      <3>1. PICK m \in BordersAt(s, k) : /\ IndexAt(s, k) = s[m].index
                                         /\ \A l \in BordersAt(s, k) : l <= m
        BY <2>0, <2>2, IndexIs
      <3>2. m \in 1..k /\ m \in 1..(c + n) /\ s[m].index # -1
        BY <1>0 DEF BordersAt
      <3>3. s[m].index \in 1..(n - 1) /\ s[m].point = c * B[s[m].index]
        BY <3>2, <1>b DEF Bordered
      <3>4. s[m].point <= s[k].point
        <4>1. m = k \/ m < k
          BY <3>2
        <4>2. m < k => s[m].point <= s[k].point
          BY <1>1, <3>2 DEF Ordered
        <4>3. s[m].point \in Int /\ s[k].point \in Int
          BY <1>2, <3>2
        <4> QED
          BY <4>1, <4>2, <4>3
      <3>5. ASSUME NEW j \in 1..(n - 1), NEW l \in 1..k, s[l].index = j, s[l].point = c * B[j]
            PROVE  j <= s[m].index
        <4>1. l \in BordersAt(s, k) /\ l \in 1..(c + n)
          BY <3>5, <1>0 DEF BordersAt
        <4>2. l <= m
          BY <3>1, <4>1
        <4>3. CASE l = m
          BY <4>3, <3>3, <3>5
        <4>4. CASE l < m
          <5> DEFINE b == s[m].index
          <5>1. s[l].point <= s[m].point
            BY <4>1, <4>4, <3>2, <1>1 DEF Ordered
          <5>2. b \in 0..n /\ j \in 0..n /\ s[m].point = c * B[b]
            BY <3>3
          <5> HIDE DEF b
          <5>3. B[b] \in Int /\ B[j] \in Int /\ c * B[j] <= c * B[b]
            BY <5>1, <5>2, <3>5, <1>0
          <5>4. ~(B[b] < B[j])
            <6>1. B[b] < B[j] => c * B[b] < c * B[j]
              BY <5>3, Scaled
            <6>2. c * B[b] \in Int /\ c * B[j] \in Int
              BY <5>3, Scaled
            <6> QED
              BY <5>3, <6>1, <6>2
          <5>5. ~(b < j)
            BY <5>2, <5>4 DEF Rises
          <5> QED
            BY <5>2, <5>5 DEF b
        <4> QED
          BY <4>1, <4>2, <4>3, <4>4, <3>2
      <3> QED
        BY <3>1, <3>3, <3>4, <3>5
    <2> QED
      BY <2>1, <2>2
  <1>5. t \in Seq(Marks) /\ Len(t) = c + n
    <2>1. \A k \in 1..(c + n) : [point |-> s[k].point, index |-> IndexAt(s, k)] \in Marks
      BY <1>2, <1>4 DEF Marks
    <2>2. t \in [1..(c + n) -> Marks]
      BY <1>2, <2>1
    <2> QED
      BY <1>0, <2>2
  <1>6. Ordered(t)
    BY <1>0, <1>1, <1>3, <1>5 DEF Ordered
  <1>7. ASSUME NEW k \in 1..Len(t), LastAt(t, k) PROVE IsItem(t[k].index, t[k].point, c, n, B)
    <2>0. k \in 1..(c + n) /\ k \in Nat
      BY <1>5
    <2>1. t[k].index \in 0..(n - 1) /\ c * B[t[k].index] <= t[k].point
      BY <1>3, <1>4, <2>0
    <2>2. ASSUME NEW j \in 0..(n - 1), t[k].index < j PROVE t[k].point < c * B[j]
      <3>1. j \in 1..(n - 1)
        BY <2>1, <2>2
      <3>2. PICK l \in 1..(c + n) : s[l].index = j /\ s[l].point = c * B[j]
        BY <3>1, <1>b DEF Bordered
      <3>3. ~(l <= k)
        <4>1. ASSUME l <= k PROVE FALSE
          <5>1. l \in 1..k
            BY <4>1
          <5>2. j <= IndexAt(s, k)
            BY <1>4, <2>0, <3>1, <3>2, <5>1
          <5> QED
            BY <1>3, <2>0, <2>1, <2>2, <5>2
        <4> QED
          BY <4>1
      <3>4. k < l /\ k # c + n /\ k + 1 \in 1..(c + n) /\ (k + 1 = l \/ k + 1 < l)
        BY <2>0, <3>3
      <3>5. t[k].point < t[k + 1].point
        BY <1>5, <1>7, <3>4 DEF LastAt
      <3>6. t[k + 1].point <= t[l].point
        <4>1. t[k + 1].point \in Int
          BY <1>2, <1>3, <3>4
        <4>2. k + 1 < l => t[k + 1].point <= t[l].point
          BY <1>5, <1>6, <3>4 DEF Ordered
        <4>3. k + 1 = l => t[k + 1].point <= t[l].point
          BY <4>1
        <4> QED
          BY <3>4, <4>2, <4>3
      <3> QED
        BY <1>2, <1>3, <2>0, <3>2, <3>4, <3>5, <3>6
    <2> QED
      BY <2>1, <2>2 DEF IsItem
  <1>8. SamePoints(t, raw)
    <2>1. Len(raw) = c + n
      BY DEF Laid
    <2>2. \A k \in 1..Len(t) : \E i \in 1..Len(raw) : raw[i].point = t[k].point
      BY <1>1, <1>3, <1>5, <2>1
    <2>3. ASSUME NEW i \in 1..Len(raw) PROVE \E k \in 1..Len(t) : t[k].point = raw[i].point
      <3>1. PICK k \in 1..(c + n) : from[k] = i
        BY <2>1 DEF SortedFrom
      <3>2. k \in 1..Len(t) /\ t[k].point = s[k].point /\ s[k] = raw[from[k]]
        BY <1>1, <1>3, <1>5
      <3> QED
        BY <3>1, <3>2
    <2> QED
      BY <2>2, <2>3 DEF SamePoints
  <1> QED
    BY <1>5, <1>6, <1>7, <1>8 DEF Itemized

(* After i steps of the loop that removes doubles, the first i have gone.   *)
Collapsing(u, i, t, Good) ==
    /\ u \in Seq(Marks) /\ Len(u) <= Len(t) /\ Ordered(u) /\ SamePoints(t, u)
    /\ \A j \in 1..Len(u) : j <= i /\ j < Len(u) => u[j].point < u[j + 1].point
    /\ \A j \in 1..Len(u) : LastAt(u, j) => u[j] \in Good
Collapse(u, i) == IF i < Len(u) /\ u[i].point = u[i + 1].point THEN RemoveAt(u, i) ELSE u

LEMMA CollapseStep ==
  ASSUME NEW t \in Seq(Marks), NEW Good, NEW u, NEW i \in Nat \ {0}, Collapsing(u, i - 1, t, Good)
  PROVE  Collapsing(Collapse(u, i), i, t, Good)
  <1> DEFINE n == Len(u)
  <1>1. n \in Nat /\ u \in Seq(Marks) /\ \A j \in 1..n : u[j] \in Marks /\ u[j].point \in Int
    <2>1. u \in Seq(Marks) /\ n \in Nat /\ \A j \in 1..n : u[j] \in Marks
      BY ListLength DEF Collapsing
    <2>2. \A m \in Marks : m.point \in Int
      BY DEF Marks
    <2> QED
      BY <2>1, <2>2
  <1> HIDE DEF n
  <1>2. /\ \A k, l \in 1..n : k < l => u[k].point <= u[l].point
        /\ \A k \in 1..n : k + 2 <= n => u[k].point < u[k + 2].point
    BY DEF Collapsing, Ordered, n
  <1>3. \A j \in 1..n : j <= i - 1 /\ j < n => u[j].point < u[j + 1].point
    BY DEF Collapsing, n
  <1>4. \A j \in 1..n : (j = n \/ u[j].point < u[j + 1].point) => u[j] \in Good
    BY DEF Collapsing, n, LastAt
  <1>5. /\ \A k \in 1..Len(t) : \E j \in 1..n : u[j].point = t[k].point
        /\ \A j \in 1..n : \E k \in 1..Len(t) : t[k].point = u[j].point
    BY DEF Collapsing, SamePoints, n
  <1>6. CASE i < n /\ u[i].point = u[i + 1].point
    <2> DEFINE v == RemoveAt(u, i)
    <2>1. v = Collapse(u, i)
      BY <1>6 DEF Collapse, n
    <2>2. v \in Seq(Marks) /\ Without(v, u, i)
      <3>1. i \in 1..Len(u)
        BY <1>1, <1>6 DEF n
      <3> QED
        BY <1>1, <3>1, RemovedIs
    <2> HIDE DEF v
    <2> DEFINE m == n - 1
    <2>3. m \in Nat /\ Len(v) = m /\ \A j \in 1..m : v[j] = IF j < i THEN u[j] ELSE u[j + 1]
      BY <1>1, <1>6, <2>2 DEF Without, n
    <2>4. i \in 1..m /\ i \in 1..n /\ i + 1 \in 1..n /\ n = m + 1 /\ m \in Nat
      BY <1>1, <1>6
    <2> HIDE DEF m
    <2>5. \A k, l \in 1..m : k < l => v[k].point <= v[l].point
      <3> SUFFICES ASSUME NEW k \in 1..m, NEW l \in 1..m, k < l PROVE v[k].point <= v[l].point
        OBVIOUS
      <3>1. CASE l < i
        BY <1>2, <2>3, <2>4, <3>1
      <3>2. CASE ~(l < i) /\ k < i
        <4>1. k \in 1..n /\ l + 1 \in 1..n /\ k < l + 1
          BY <2>4
        <4> QED
          BY <1>2, <2>3, <3>2, <4>1
      <3>3. CASE ~(k < i)
        <4>1. k + 1 \in 1..n /\ l + 1 \in 1..n /\ k + 1 < l + 1 /\ ~(l < i)
          BY <2>4, <3>3
        <4> QED
          BY <1>2, <2>3, <3>3, <4>1
      <3> QED
        BY <3>1, <3>2, <3>3
    <2>6. ASSUME NEW j \in 1..m, j <= i, j < m PROVE v[j].point < v[j + 1].point
      <3>1. j \in 1..n /\ j + 1 \in 1..n /\ j + 1 \in 1..m
        BY <2>4, <2>6
      <3>2. CASE j + 1 < i
        <4>1. v[j] = u[j] /\ v[j + 1] = u[j + 1] /\ j <= i - 1 /\ j < n
          BY <2>3, <2>4, <2>6, <3>1, <3>2
        <4> QED
          BY <1>3, <3>1, <4>1
      <3>3. CASE j + 1 = i
        <4>1. v[j] = u[j] /\ v[j + 1] = u[i + 1] /\ j <= i - 1 /\ j < n
          BY <2>3, <2>4, <2>6, <3>1, <3>3
        <4> QED
          BY <1>3, <1>6, <3>1, <3>3, <4>1
      <3>4. CASE j = i
        <4>1. v[j] = u[i + 1] /\ v[j + 1] = u[i + 2]
          BY <2>3, <3>1, <3>4
        <4>2. i + 2 <= n
          BY <2>4, <2>6, <3>4
        <4>3. u[i].point < u[i + 2].point
          BY <1>2, <2>4, <4>2
        <4> QED
          BY <1>6, <4>1, <4>3
      <3>5. j + 1 < i \/ j + 1 = i \/ j = i
        BY <2>4, <2>6
      <3> QED
        BY <3>2, <3>3, <3>4, <3>5
    <2>7. ASSUME NEW k \in 1..m, k + 2 <= m PROVE v[k].point < v[k + 2].point
      <3>1. k + 1 \in 1..m /\ k + 2 \in 1..m /\ k < k + 1 /\ k + 1 < k + 2
        BY <2>3, <2>7
      <3>0. \A j \in 1..m : v[j].point \in Int
        <4> TAKE j \in 1..m
        <4>1. j \in 1..n /\ j + 1 \in 1..n /\ (v[j] = u[j] \/ v[j] = u[j + 1])
          BY <2>3, <2>4
        <4> QED
          BY <1>1, <4>1
      <3>2. v[k].point \in Int /\ v[k + 1].point \in Int /\ v[k + 2].point \in Int
        BY <3>0, <3>1
      <3>3. CASE k <= i
        <4>0. k < m
          BY <2>4, <2>7
        <4>a. v[k].point < v[k + 1].point
          BY <2>6, <3>3, <4>0
        <4>1. v[k].point < v[k + 1].point /\ v[k + 1].point <= v[k + 2].point
          BY <4>a, <2>5, <3>1
        <4> QED
          BY <3>2, <4>1
      <3>4. CASE ~(k <= i)
        <4>1. v[k] = u[k + 1] /\ v[k + 2] = u[k + 3] /\ k + 1 \in 1..n /\ (k + 1) + 2 <= n
              /\ (k + 1) + 2 = k + 3
          BY <2>3, <2>4, <3>1, <3>4, <2>7
        <4> QED
          BY <1>2, <4>1
      <3> QED
        BY <3>3, <3>4
    <2>8. ASSUME NEW j \in 1..m, j = m \/ v[j].point < v[j + 1].point PROVE v[j] \in Good
      <3>1. CASE ~(j < i)
        <4>1. v[j] = u[j + 1] /\ j + 1 \in 1..n
          BY <2>3, <2>4, <3>1
        <4>2. j # m => v[j + 1] = u[j + 1 + 1]
          BY <2>3, <2>4, <3>1
        <4>3. j + 1 = n \/ u[j + 1].point < u[j + 1 + 1].point
          BY <2>4, <2>8, <4>1, <4>2
        <4> QED
          BY <1>4, <4>1, <4>3
      <3>2. CASE j < i
        <4>1. v[j] = u[j] /\ j \in 1..n /\ j <= i - 1 /\ j < n
          BY <2>3, <2>4, <3>2
        <4>2. u[j].point < u[j + 1].point
          BY <1>3, <4>1
        <4> QED
          BY <1>4, <4>1, <4>2
      <3> QED
        BY <3>1, <3>2
    <2>9. ASSUME NEW j \in 1..n PROVE \E k \in 1..m : v[k].point = u[j].point
      <3>1. CASE j < i
        <4>1. j \in 1..m /\ v[j] = u[j]
          BY <2>3, <2>4, <3>1
        <4> QED
          BY <4>1
      <3>2. CASE j = i
        <4>1. v[i].point = u[j].point
          BY <1>6, <2>3, <2>4, <3>2
        <4> QED
          BY <2>4, <4>1
      <3>3. CASE i < j
        <4>1. j - 1 \in 1..m /\ ~(j - 1 < i) /\ j - 1 + 1 = j
          BY <2>4, <3>3
        <4>2. v[j - 1] = u[j - 1 + 1]
          BY <2>3, <4>1
        <4> QED
          BY <4>1, <4>2
      <3> QED
        BY <2>4, <3>1, <3>2, <3>3
    <2>10. \A j \in 1..m : \E k \in 1..n : v[j].point = u[k].point
      <3> TAKE j \in 1..m
      <3>1. j \in 1..n /\ j + 1 \in 1..n /\ (v[j] = u[j] \/ v[j] = u[j + 1])
        BY <2>3, <2>4
      <3> QED
        BY <3>1
    <2>11. SamePoints(t, v)
      <3>1. \A k \in 1..Len(t) : \E j \in 1..m : v[j].point = t[k].point
        <4> TAKE k \in 1..Len(t)
        <4>1. PICK j \in 1..n : u[j].point = t[k].point
          BY <1>5
        <4> QED
          BY <2>9, <4>1
      <3>2. \A j \in 1..m : \E k \in 1..Len(t) : t[k].point = v[j].point
        <4> TAKE j \in 1..m
        <4>1. PICK l \in 1..n : v[j].point = u[l].point
          BY <2>10
        <4>2. PICK k \in 1..Len(t) : t[k].point = u[l].point
          BY <1>5
        <4> QED
          BY <4>1, <4>2
      <3> QED
        BY <2>3, <3>1, <3>2 DEF SamePoints
    <2>12. Ordered(v)
      BY <2>3, <2>5, <2>7 DEF Ordered
    <2>13. Len(v) <= Len(t)
      <3>1. n <= Len(t) /\ Len(t) \in Nat
        BY DEF Collapsing, n
      <3> QED
        BY <2>3, <2>4, <3>1
    <2> QED
      BY <2>1, <2>2, <2>3, <2>6, <2>8, <2>11, <2>12, <2>13 DEF Collapsing, LastAt
  <1>7. CASE ~(i < n /\ u[i].point = u[i + 1].point)
    <2>1. Collapse(u, i) = u
      BY <1>7 DEF Collapse, n
    <2>2. ASSUME NEW j \in 1..n, j <= i, j < n PROVE u[j].point < u[j + 1].point
      <3>1. CASE j <= i - 1
        BY <1>3, <2>2, <3>1
      <3>2. CASE j = i
        <4>1. j + 1 \in 1..n /\ j < j + 1
          BY <1>1, <2>2
        <4>2. u[j].point <= u[j + 1].point /\ u[j].point # u[j + 1].point
          BY <1>2, <1>7, <2>2, <3>2, <4>1
        <4>3. u[j].point \in Int /\ u[j + 1].point \in Int
          BY <1>1, <4>1
        <4> QED
          BY <4>2, <4>3
      <3>3. j <= i - 1 \/ j = i
        BY <2>2
      <3> QED
        BY <3>1, <3>2, <3>3
    <2> QED
      BY <2>1, <2>2 DEF Collapsing, n
  <1> QED
    BY <1>6, <1>7

LEMMA CollapsedIs ==
  ASSUME NEW t \in Seq(Marks), NEW Good, Ordered(t),
         \A k \in 1..Len(t) : LastAt(t, k) => t[k] \in Good
  PROVE  Collapsing(Collapsed(t), Len(t), t, Good)
  <1> DEFINE n == Len(t)
             S == Seq(Marks)
             step == [i \in 1..n |-> [u \in S |-> Collapse(u, i)]]
             Makes(f) == f = [i \in 0..n |-> IF i = 0 THEN t ELSE
                                LET u == f[i - 1]
                                IN  IF i < Len(u) /\ u[i].point = u[i + 1].point
                                    THEN RemoveAt(u, i) ELSE u]
             made == CHOOSE f : Makes(f)
  <1>1. Collapsed(t) = made[n]
    BY DEF Collapsed
  <1>2. n \in Nat /\ t \in S
    OBVIOUS
  <1>3. \A i \in 1..n : \A u \in S : Collapse(u, i) \in S
    <2> TAKE i \in 1..n
    <2> TAKE u \in S
    <2>1. CASE i < Len(u) /\ u[i].point = u[i + 1].point
      <3>1. Collapse(u, i) = RemoveAt(u, i)
        BY <2>1 DEF Collapse
      <3>2. i \in 1..Len(u) /\ u \in Seq(Marks)
        BY <2>1
      <3>3. RemoveAt(u, i) \in Seq(Marks)
        BY <3>2, RemovedIs
      <3> QED
        BY <3>1, <3>3
    <2>2. CASE ~(i < Len(u) /\ u[i].point = u[i + 1].point)
      BY <2>2 DEF Collapse
    <2> QED
      BY <2>1, <2>2
  <1>4. step \in [1..n -> [S -> S]]
    <2> HIDE DEF S, n
    <2> QED
      BY <1>3
  <1>5. \A f : Makes(f) <=> f = [i \in 0..n |-> IF i = 0 THEN t ELSE Collapse(f[i - 1], i)]
    BY DEF Collapse
  <1>6. PICK f \in [0..n -> S] : Loops(f, n, t, step)
    <2> HIDE DEF step, S, n
    <2> QED
      BY <1>2, <1>4, LoopRuns
  <1>7. Makes(f)
    <2>1. f = [i \in 0..n |-> f[i]]
      BY <1>6
    <2>2. \A i \in 0..n : f[i] = IF i = 0 THEN t ELSE Collapse(f[i - 1], i)
      <3> TAKE i \in 0..n
      <3>1. CASE i = 0
        BY <1>6, <3>1 DEF Loops
      <3>2. CASE i # 0
        <4>1. i \in 1..n /\ i - 1 \in 0..n
          BY <3>2, <1>2
        <4>2. f[i] = step[i][f[i - 1]] /\ f[i - 1] \in S
          <5> HIDE DEF step, S, n
          <5> QED
            BY <1>6, <4>1 DEF Loops
        <4>3. step[i][f[i - 1]] = Collapse(f[i - 1], i)
          <5> HIDE DEF S, n
          <5> QED
            BY <4>1, <4>2
        <4> QED
          BY <3>2, <4>2, <4>3
      <3> QED
        BY <3>1, <3>2
    <2> HIDE DEF Makes, S, n, step
    <2>3. f = [i \in 0..n |-> IF i = 0 THEN t ELSE Collapse(f[i - 1], i)]
      BY <2>1, <2>2
    <2> QED
      BY <1>5, <2>3
  <1>8. Makes(made)
    <2> HIDE DEF Makes
    <2> QED
      BY <1>7
  <1> HIDE DEF made
  <1>9. \A i \in 0..n : made[i] = IF i = 0 THEN t ELSE Collapse(made[i - 1], i)
    <2>1. made = [i \in 0..n |-> IF i = 0 THEN t ELSE Collapse(made[i - 1], i)]
      <3> HIDE DEF Makes
      <3> QED
        BY <1>5, <1>8
    <2> HIDE DEF Makes, n, S, step
    <2> QED
      BY <2>1
  <1> DEFINE T == {i \in 0..n : Collapsing(made[i], i, t, Good)}
  <1>10. 0 \in T
    <2>1. made[0] = t /\ 0 \in 0..n
      BY <1>2, <1>9
    <2>2. SamePoints(t, t)
      BY DEF SamePoints
    <2>3. \A j \in 1..Len(t) : ~(j <= 0)
      OBVIOUS
    <2>4. Len(t) <= Len(t)
      BY <1>2
    <2>5. Collapsing(t, 0, t, Good)
      BY <2>2, <2>3, <2>4 DEF Collapsing
    <2> QED
      BY <2>1, <2>5
  <1>11. ASSUME NEW i \in 1..n, i - 1 \in T PROVE i \in T
    <2>1. i \in 0..n /\ i # 0 /\ i \in Nat \ {0} /\ Collapsing(made[i - 1], i - 1, t, Good)
      BY <1>2, <1>11
    <2>2. made[i] = Collapse(made[i - 1], i)
      BY <1>9, <2>1
    <2>3. Collapsing(Collapse(made[i - 1], i), i, t, Good)
      BY <2>1, CollapseStep
    <2> QED
      BY <2>1, <2>2, <2>3
  <1> HIDE DEF T
  <1>12. n \in T
    <2> HIDE DEF n
    <2>1. 0..n \subseteq T
      BY <1>2, <1>10, <1>11, UpTo
    <2> QED
      BY <1>2, <2>1
  <1> QED
    BY <1>1, <1>12 DEF T

(* The marks that are left rise, and each has its item.                     *)
Pointed(p, c, n, B) ==
    /\ p \in Seq(Marks) /\ Len(p) > 0
    /\ \A j, l \in 1..Len(p) : j < l => p[j].point < p[l].point
    /\ \A j \in 1..Len(p) : /\ IsItem(p[j].index, p[j].point, c, n, B)
                            /\ p[j].point >= 0 /\ p[j].point <= c * B[n]
    /\ \A b \in 0..n : \E j \in 1..Len(p) : p[j].point = c * B[b]

LEMMA PiePointed ==
  ASSUME NEW c \in Nat \ {0}, NEW n \in Nat \ {0}, NEW B, Rises(B, n), Laid(Raw, c, n, B)
  PROVE  Pointed(PiePoints, c, n, B)
  <1> DEFINE t == Indexed
             p == PiePoints
             Good == {m \in Marks : IsItem(m.index, m.point, c, n, B)}
  <1>1. PICK from : SortedFrom(Sorted, Raw, from)
    BY SortedIs DEF Laid
  <1>2. t = [k \in DOMAIN Sorted |-> [point |-> Sorted[k].point, index |-> IndexAt(Sorted, k)]]
    BY DEF Indexed
  <1>3. t \in Seq(Marks) /\ Len(t) = c + n /\ Ordered(t) /\ Itemized(t, c, n, B)
        /\ SamePoints(t, Raw)
    <2> HIDE DEF t
    <2> QED
      BY <1>1, <1>2, IndexedIs
  <1>4. p = Collapsed(t)
    BY DEF PiePoints
  <1> HIDE DEF t, p
  <1>5. \A k \in 1..Len(t) : LastAt(t, k) => t[k] \in Good
    BY <1>3, ListLength DEF Itemized
  <1>6. Collapsing(p, c + n, t, Good)
    <2> HIDE DEF Good
    <2> QED
      BY <1>3, <1>4, <1>5, CollapsedIs
  <1>7. /\ p \in Seq(Marks) /\ Len(p) \in Nat /\ Len(p) <= c + n /\ c + n \in Nat
        /\ \A j \in 1..Len(p) : p[j] \in Marks /\ p[j].point \in Int
    <2>1. p \in Seq(Marks) /\ Len(p) \in Nat /\ \A j \in 1..Len(p) : p[j] \in Marks
      BY <1>6, ListLength DEF Collapsing
    <2>2. \A m \in Marks : m.point \in Int
      BY DEF Marks
    <2> QED
      BY <1>3, <1>6, <2>1, <2>2 DEF Collapsing
  <1>8. \A j \in 1..Len(p) : j < Len(p) => p[j].point < p[j + 1].point
    BY <1>6, <1>7 DEF Collapsing
  <1>9. ASSUME NEW j \in 1..Len(p), NEW l \in 1..Len(p), j < l
        PROVE  p[j].point < p[l].point
    <2>1. j < Len(p) /\ j + 1 \in 1..Len(p) /\ (j + 1 = l \/ j + 1 < l)
      BY <1>7, <1>9
    <2>2. p[j].point < p[j + 1].point
      BY <1>8, <2>1
    <2>3. j + 1 < l => p[j + 1].point <= p[l].point
      BY <1>6, <2>1 DEF Collapsing, Ordered
    <2> QED
      BY <1>7, <2>1, <2>2, <2>3
  <1>10. ASSUME NEW j \in 1..Len(p)
         PROVE  /\ IsItem(p[j].index, p[j].point, c, n, B)
                /\ p[j].point >= 0 /\ p[j].point <= c * B[n]
    <2>1. LastAt(p, j)
      BY <1>7, <1>8 DEF LastAt
    <2>2. p[j] \in Good
      BY <1>6, <2>1 DEF Collapsing
    <2>3. PICK k \in 1..Len(t) : t[k].point = p[j].point
      BY <1>6 DEF Collapsing, SamePoints
    <2>4. PICK i \in 1..Len(Raw) : Raw[i].point = t[k].point
      BY <1>3 DEF SamePoints
    <2>5. i \in 1..(c + n)
      BY DEF Laid
    <2>6. Raw[i].point \in Nat /\ Raw[i].point <= c * B[n]
      BY <2>5, RawClasses
    <2> QED
      BY <2>2, <2>3, <2>4, <2>6
  <1>11. ASSUME NEW b \in 0..n PROVE \E j \in 1..Len(p) : p[j].point = c * B[b]
    <2>1. \E i \in 1..Len(Raw) : Raw[i].point = c * B[b]
      <3>1. Len(Raw) = c + n /\ B[0] = 0 /\ B[n] \in Int
        BY DEF Laid, Rises
      <3>2. CASE b = 0
        <4>1. 1 \in 1..(c + 1) /\ 1 \in 1..(c + n)
          OBVIOUS
        <4>2. Raw[1].point = (1 - 1) * B[n]
          BY <4>1 DEF Laid
        <4>3. (1 - 1) * B[n] = 0 /\ c * 0 = 0
          BY <3>1
        <4> QED
          BY <3>1, <3>2, <4>1, <4>2, <4>3
      <3>3. CASE b = n
        <4>1. c + 1 \in 1..(c + 1) /\ c + 1 \in 1..(c + n) /\ c + 1 - 1 = c
          OBVIOUS
        <4>2. Raw[c + 1].point = c * B[n]
          BY <4>1 DEF Laid
        <4> QED
          BY <3>1, <3>3, <4>1, <4>2
      <3>4. CASE b # 0 /\ b # n
        <4> DEFINE i == c + 1 + b
        <4>1. i \in (c + 2)..(c + n) /\ i \in 1..(c + n) /\ i - c - 1 = b
          BY <3>4
        <4> HIDE DEF i
        <4>2. Raw[i].point = c * B[b]
          BY <4>1 DEF Laid
        <4> QED
          BY <3>1, <4>1, <4>2
      <3> QED
        BY <3>2, <3>3, <3>4
    <2>2. PICK i \in 1..Len(Raw) : Raw[i].point = c * B[b]
      BY <2>1
    <2>3. PICK k \in 1..Len(t) : t[k].point = Raw[i].point
      BY <1>3 DEF SamePoints
    <2>4. PICK j \in 1..Len(p) : p[j].point = t[k].point
      BY <1>6 DEF Collapsing, SamePoints
    <2> QED
      BY <2>2, <2>3, <2>4
  <1>12. Len(p) > 0
    <2>1. 0 \in 0..n
      OBVIOUS
    <2> QED
      BY <1>7, <1>11, <2>1
  <1> QED
    BY <1>7, <1>9, <1>10, <1>11, <1>12 DEF Pointed, p

(* The slices open at the borders.                                          *)
OpensAt(p, q, c, n, B) ==
    /\ q \in [0..(n - 1) -> 1..Len(p)]
    /\ \A b \in 0..(n - 1) : p[q[b]].point = c * B[b]
    /\ \A a, b \in 0..(n - 1) : a < b => q[a] < q[b]
    /\ \A i \in 1..Len(p) : i \in Opens(p) <=> \E b \in 0..(n - 1) : i = q[b]
LEMMA SlicesOpen ==
  ASSUME NEW c \in Nat \ {0}, NEW n \in Nat \ {0}, NEW B, Rises(B, n), NEW p, Pointed(p, c, n, B)
  PROVE  \E q : OpensAt(p, q, c, n, B)
  <1> DEFINE m == Len(p)
             q == [b \in 0..(n - 1) |-> CHOOSE j \in 1..m : p[j].point = c * B[b]]
  <1>1. m \in Nat /\ m > 0 /\ DOMAIN p = 1..m /\ \A j \in 1..m : p[j].point \in Int /\ p[j].index \in Int
    <2>1. m \in Nat /\ m > 0 /\ DOMAIN p = 1..m /\ \A j \in 1..m : p[j] \in Marks
      BY ListLength DEF Pointed
    <2>2. \A x \in Marks : x.point \in Int /\ x.index \in Int
      BY DEF Marks
    <2> QED
      BY <2>1, <2>2
  <1>2. /\ \A j, l \in 1..m : j < l => p[j].point < p[l].point
        /\ \A j \in 1..m : IsItem(p[j].index, p[j].point, c, n, B)
                            /\ p[j].point >= 0 /\ p[j].point <= c * B[n]
        /\ \A b \in 0..n : \E j \in 1..m : p[j].point = c * B[b]
    BY DEF Pointed
  <1> HIDE DEF m
  <1>3. \A b \in 0..(n - 1) : q[b] \in 1..m /\ p[q[b]].point = c * B[b]
    <2> TAKE b \in 0..(n - 1)
    <2>1. b \in 0..n
      OBVIOUS
    <2>2. \E j \in 1..m : p[j].point = c * B[b]
      BY <1>2, <2>1
    <2> QED
      BY <2>2
  <1>4. q \in [0..(n - 1) -> 1..m]
    BY <1>3
  <1> HIDE DEF q
  <1>5. \A b \in 0..n : B[b] \in Int /\ c * B[b] \in Int
    <2> TAKE b \in 0..n
    <2>1. B[b] \in Int
      BY DEF Rises
    <2> QED
      BY <2>1, Scaled
  <1>6. ASSUME NEW a \in 0..n, NEW b \in 0..n, a < b PROVE c * B[a] < c * B[b]
    <2>1. B[a] < B[b]
      BY <1>6 DEF Rises
    <2> QED
      BY <1>5, <2>1, Scaled
  <1>7. ASSUME NEW a \in 0..(n - 1), NEW b \in 0..(n - 1), a < b PROVE q[a] < q[b]
    <2>1. a \in 0..n /\ b \in 0..n
      OBVIOUS
    <2>2. p[q[a]].point < p[q[b]].point
      BY <1>3, <1>6, <1>7, <2>1
    <2>3. q[a] \in 1..m /\ q[b] \in 1..m
      BY <1>3
    <2>4. ~(q[b] < q[a]) /\ q[b] # q[a]
      <3>1. p[q[a]].point \in Int /\ p[q[b]].point \in Int
        BY <1>1, <2>3
      <3>2. q[b] < q[a] => p[q[b]].point < p[q[a]].point
        BY <1>2, <2>3
      <3> QED
        BY <2>2, <3>1, <3>2
    <2> QED
      BY <2>3, <2>4
  <1>8. ASSUME NEW b \in 0..(n - 1) PROVE p[q[b]].index = b
    <2> DEFINE i == p[q[b]].index
    <2>1. q[b] \in 1..m /\ p[q[b]].point = c * B[b]
      BY <1>3
    <2>2. i \in 0..(n - 1) /\ c * B[i] <= c * B[b] /\ \A j \in 0..(n - 1) : i < j => c * B[b] < c * B[j]
      BY <1>2, <2>1 DEF IsItem
    <2> HIDE DEF i
    <2>3. i \in 0..n /\ b \in 0..n
      BY <2>2
    <2>4. ~(b < i)
      BY <1>5, <1>6, <2>2, <2>3
    <2>5. ~(i < b)
      BY <1>5, <2>2, <2>3
    <2>6. i = b
      BY <2>3, <2>4, <2>5
    <2> QED
      BY <2>6 DEF i
  <1>9. q[0] = 1
    <2>1. 0 \in 0..(n - 1) /\ 1 \in 1..m /\ c * 0 = 0 /\ B[0] = 0
      BY <1>1 DEF Rises
    <2>2. q[0] \in 1..m /\ p[q[0]].point = 0
      BY <1>3, <2>1
    <2>3. p[1].point >= 0 /\ p[1].point \in Int
      BY <1>1, <1>2, <2>1
    <2>4. 1 < q[0] => p[1].point < p[q[0]].point
      BY <1>2, <2>1, <2>2
    <2> QED
      BY <2>2, <2>3, <2>4
  <1>10. \A i \in 1..m : i \in Opens(p) <=> i = 1 \/ p[i].index # p[i - 1].index
    BY <1>1 DEF Opens
  <1>11. ASSUME NEW b \in 0..(n - 1) PROVE q[b] \in Opens(p)
    <2>1. q[b] \in 1..m
      BY <1>3
    <2>2. CASE q[b] = 1
      BY <1>10, <2>1, <2>2
    <2>3. CASE q[b] # 1
      <3> DEFINE i == q[b]
                 j == q[b] - 1
      <3>1. i \in 1..m /\ j \in 1..m /\ j < i
        BY <1>1, <2>1, <2>3
      <3>2. p[j].point < c * B[b]
        BY <1>2, <1>3, <3>1
      <3>3. IsItem(p[j].index, p[j].point, c, n, B)
        BY <1>2, <3>1
      <3>4. p[j].index # b
        <4>1. p[j].index = b => c * B[b] <= p[j].point
          BY <3>3 DEF IsItem
        <4>2. b \in 0..n
          OBVIOUS
        <4>3. c * B[b] \in Int /\ p[j].point \in Int
          BY <1>1, <1>5, <3>1, <4>2
        <4> QED
          BY <3>2, <4>1, <4>3
      <3>5. p[i].index = b
        BY <1>8
      <3> QED
        BY <1>10, <3>1, <3>4, <3>5
    <2> QED
      BY <2>2, <2>3
  <1>12. ASSUME NEW i \in 1..m, i \in Opens(p) PROVE \E b \in 0..(n - 1) : i = q[b]
    <2>1. CASE i = 1
      <3>1. 0 \in 0..(n - 1)
        OBVIOUS
      <3> QED
        BY <1>9, <2>1, <3>1
    <2>2. CASE i # 1
      <3> DEFINE j == i - 1
                 b == p[i].index
                 a == p[j].index
      <3>1. j \in 1..m /\ j < i /\ a # b
        BY <1>1, <1>10, <1>12, <2>2
      <3>2. IsItem(b, p[i].point, c, n, B) /\ IsItem(a, p[j].point, c, n, B)
        BY <1>2, <3>1
      <3>3. p[j].point < p[i].point /\ p[j].point \in Int /\ p[i].point \in Int
        BY <1>1, <1>2, <3>1
      <3> HIDE DEF a, b, j
      <3>4. a \in 0..(n - 1) /\ b \in 0..(n - 1) /\ a \in 0..n /\ b \in 0..n
        BY <3>2 DEF IsItem
      <3>5. c * B[a] <= p[j].point /\ c * B[b] <= p[i].point
        BY <3>2 DEF IsItem
      <3>6. ~(b < a)
        <4>1. b < a => p[i].point < c * B[a]
          BY <3>2, <3>4 DEF IsItem
        <4>2. c * B[a] \in Int
          BY <1>5, <3>4
        <4> QED
          BY <3>3, <3>5, <4>1, <4>2
      <3>7. p[j].point < c * B[b]
        <4>1. a < b
          BY <3>1, <3>4, <3>6
        <4> QED
          BY <3>2, <3>4, <4>1 DEF IsItem
      <3>8. q[b] \in 1..m /\ p[q[b]].point = c * B[b] /\ c * B[b] \in Int
        BY <1>3, <1>5, <3>4
      <3>9. ~(i < q[b])
        <4>1. i < q[b] => p[i].point < p[q[b]].point
          BY <1>2, <3>8
        <4> QED
          BY <3>3, <3>5, <3>8, <4>1
      <3>10. ~(q[b] < j) /\ q[b] # j
        <4>1. q[b] < j => p[q[b]].point < p[j].point
          BY <1>2, <3>1, <3>8
        <4> QED
          BY <3>3, <3>7, <3>8, <4>1
      <3>11. q[b] = i
        <4>1. j = i - 1 /\ i \in Int /\ q[b] \in Int
          BY <3>8 DEF j
        <4> QED
          BY <3>9, <3>10, <4>1
      <3> QED
        BY <3>4, <3>11
    <2> QED
      BY <2>1, <2>2
  <1>13. \A i \in 1..m : i \in Opens(p) <=> \E b \in 0..(n - 1) : i = q[b]
    BY <1>11, <1>12
  <1>14. OpensAt(p, q, c, n, B)
    BY <1>3, <1>4, <1>7, <1>13 DEF OpensAt, m
  <1> QED
    BY <1>14

OpensBelow(q, b) == {q[a] : a \in 0..(b - 1)}
LEMMA OpensCounted ==
  ASSUME NEW n \in Nat \ {0}, NEW S, NEW q \in [0..(n - 1) -> S],
         \A a, b \in 0..(n - 1) : a # b => q[a] # q[b], NEW b \in 0..n
  PROVE  Cardinality(OpensBelow(q, b)) = b
  <1> DEFINE D == 0..(b - 1)
             T == OpensBelow(q, b)
             h == [a \in D |-> q[a]]
  <1>1. b \in Nat /\ D \subseteq 0..(n - 1) /\ b - 1 \in Int /\ 0 \in Int
    OBVIOUS
  <1>2. IsFiniteSet(D) /\ Cardinality(D) = IF 0 > b - 1 THEN 0 ELSE b - 1 - 0 + 1
    <2> DEFINE e == b - 1
               zero == 0
    <2>1. e \in Int /\ zero \in Int
      BY <1>1
    <2> HIDE DEF e, zero
    <2>2. IsFiniteSet(zero..e) /\ Cardinality(zero..e) = IF zero > e THEN 0 ELSE e - zero + 1
      BY <2>1, FS_Interval
    <2> QED
      BY <2>2 DEF e, zero
  <1>3. Cardinality(D) = b
    BY <1>1, <1>2
  <1>4. h \in [D -> T] /\ \A x \in T : \E a \in D : h[a] = x
    BY DEF OpensBelow
  <1>5. \A x, y \in D : h[x] = h[y] => x = y
    BY <1>1
  <1> HIDE DEF D, T, h
  <1>6. h \in Bijection(D, T)
    BY <1>4, <1>5 DEF Bijection, Injection, Surjection, IsInjective
  <1>7. ExistsBijection(D, T)
    BY <1>6 DEF ExistsBijection
  <1>8. Cardinality(T) = Cardinality(D)
    BY <1>2, <1>7, FS_Bijection
  <1> QED
    BY <1>3, <1>8 DEF T

LEMMA SlicesAre ==
  ASSUME NEW c \in Nat \ {0}, NEW n \in Nat \ {0}, NEW B, Rises(B, n), Pointed(PiePoints, c, n, B)
  PROVE  /\ Len(Slices) = n /\ DOMAIN Slices = 1..n
         /\ \A k \in 1..n : Slices[k] = [color |-> k, from |-> c * B[k - 1], to |-> c * B[k]]
  <1> DEFINE p == PiePoints
             O == Opens(p)
             Count(i) == Cardinality({j \in O : j < i})
             Nth(k) == CHOOSE i \in O : Count(i) = k - 1
             m == Len(p)
  <1>1. Slices = [k \in 1..Cardinality(O) |->
           [color |-> k, from |-> p[Nth(k)].point,
            to |-> IF k = Cardinality(O) THEN p[m].point ELSE p[Nth(k + 1)].point]]
    BY DEF Slices
  <1>2. PICK q : OpensAt(p, q, c, n, B)
    BY SlicesOpen
  <1>3. Pointed(p, c, n, B) /\ DOMAIN p = 1..m /\ m \in Nat
    <2>1. Pointed(p, c, n, B)
      OBVIOUS
    <2> HIDE DEF p
    <2> QED
      BY <2>1, ListLength DEF Pointed
  <1>4. O \subseteq 1..m
    BY <1>3 DEF Opens
  <1> HIDE DEF p
  <1>5. /\ q \in [0..(n - 1) -> 1..m]
        /\ \A b \in 0..(n - 1) : p[q[b]].point = c * B[b]
        /\ \A a, b \in 0..(n - 1) : a < b => q[a] < q[b]
        /\ \A i \in 1..m : i \in O <=> \E b \in 0..(n - 1) : i = q[b]
    BY <1>2 DEF OpensAt
  <1>6. \A a, b \in 0..(n - 1) : a # b => q[a] # q[b]
    <2> SUFFICES ASSUME NEW a \in 0..(n - 1), NEW b \in 0..(n - 1), a # b PROVE q[a] # q[b]
      OBVIOUS
    <2>1. a < b \/ b < a
      OBVIOUS
    <2>2. q[a] \in 1..m /\ q[b] \in 1..m
      BY <1>5
    <2> QED
      BY <1>5, <2>1, <2>2
  <1> HIDE DEF O
  <1>7. O = OpensBelow(q, n)
    BY <1>4, <1>5 DEF OpensBelow
  <1>8. Cardinality(O) = n
    <2>1. n \in 0..n
      OBVIOUS
    <2> HIDE DEF m
    <2> QED
      BY <1>5, <1>6, <1>7, <2>1, OpensCounted
  <1>9. ASSUME NEW b \in 0..(n - 1) PROVE Count(q[b]) = b /\ q[b] \in O
    <2>1. q[b] \in O
      BY <1>4, <1>5
    <2>2. {j \in O : j < q[b]} = OpensBelow(q, b)
      <3>1. ASSUME NEW j \in O, j < q[b] PROVE j \in OpensBelow(q, b)
        <4>1. PICK a \in 0..(n - 1) : j = q[a]
          BY <1>4, <1>5
        <4>2. ~(b < a) /\ a # b
          <5>1. b < a => q[b] < q[a]
            BY <1>5
          <5>2. q[a] \in Int /\ q[b] \in Int
            BY <1>5
          <5> QED
            BY <3>1, <4>1, <5>1, <5>2
        <4>3. a \in 0..(b - 1)
          BY <4>2
        <4> QED
          BY <4>1, <4>3 DEF OpensBelow
      <3>2. ASSUME NEW j \in OpensBelow(q, b) PROVE j \in O /\ j < q[b]
        <4>1. PICK a \in 0..(b - 1) : j = q[a]
          BY DEF OpensBelow
        <4>2. a \in 0..(n - 1) /\ a < b
          OBVIOUS
        <4> QED
          BY <1>4, <1>5, <4>1, <4>2
      <3> QED
        BY <3>1, <3>2
    <2>3. b \in 0..n
      OBVIOUS
    <2>4. Cardinality(OpensBelow(q, b)) = b
      <3> HIDE DEF m
      <3> QED
        BY <1>5, <1>6, <2>3, OpensCounted
    <2> QED
      BY <2>1, <2>2, <2>4
  <1>10. ASSUME NEW k \in 1..n PROVE Nth(k) = q[k - 1]
    <2>1. k - 1 \in 0..(n - 1)
      OBVIOUS
    <2>2. \A i \in O : Count(i) = k - 1 => i = q[k - 1]
      <3> TAKE i \in O
      <3>1. PICK a \in 0..(n - 1) : i = q[a]
        BY <1>4, <1>5
      <3>2. Count(i) = a
        BY <1>9, <3>1
      <3> QED
        BY <3>1, <3>2
    <2>3. Count(q[k - 1]) = k - 1 /\ q[k - 1] \in O
      BY <1>9, <2>1
    <2> HIDE DEF Count
    <2> QED
      BY <2>2, <2>3
  <1> HIDE DEF Nth
  <1>11. p[m].point = c * B[n]
    <2>1. n \in 0..n
      OBVIOUS
    <2>2. PICK j \in 1..m : p[j].point = c * B[n]
      BY <1>3, <2>1 DEF Pointed
    <2>3. m \in 1..m
      BY <1>3, <2>2
    <2>4. j < m => p[j].point < p[m].point
      BY <1>3, <2>2, <2>3 DEF Pointed
    <2>5. p[m].point <= c * B[n]
      BY <1>3, <2>3 DEF Pointed
    <2>6. p[m].point \in Int /\ p[j].point \in Int
      <3>1. \A i \in 1..m : p[i] \in Marks
        BY <1>3, ListLength DEF Pointed
      <3>2. \A x \in Marks : x.point \in Int
        BY DEF Marks
      <3> QED
        BY <2>3, <3>1, <3>2
    <2>7. ~(j < m)
      BY <2>2, <2>4, <2>5, <2>6
    <2>8. j = m
      <3> HIDE DEF m
      <3> QED
        BY <1>3, <2>7
    <2> QED
      BY <2>2, <2>8
  <1>12. ASSUME NEW k \in 1..n
         PROVE  Slices[k] = [color |-> k, from |-> c * B[k - 1], to |-> c * B[k]]
    <2>1. Slices[k] = [color |-> k, from |-> p[Nth(k)].point,
                       to |-> IF k = n THEN p[m].point ELSE p[Nth(k + 1)].point]
      <3> HIDE DEF m
      <3> QED
        BY <1>1, <1>8
    <2>2. p[Nth(k)].point = c * B[k - 1]
      <3>1. k - 1 \in 0..(n - 1)
        OBVIOUS
      <3> QED
        BY <1>5, <1>10, <3>1
    <2>3. CASE k = n
      BY <2>1, <2>2, <2>3, <1>11
    <2>4. CASE k # n
      <3>1. k + 1 \in 1..n /\ k + 1 - 1 = k /\ k \in 0..(n - 1)
        BY <2>4
      <3>2. Nth(k + 1) = q[k + 1 - 1]
        BY <1>10, <3>1
      <3> HIDE DEF Nth, p, m, Count, O
      <3>3. p[Nth(k + 1)].point = c * B[k]
        BY <1>5, <3>1, <3>2
      <3> QED
        BY <2>1, <2>2, <2>4, <3>3
    <2> QED
      BY <2>3, <2>4
  <1>13. DOMAIN Slices = 1..n /\ Len(Slices) = n
    <2> HIDE DEF m
    <2>1. Slices = [k \in 1..n |-> Slices[k]]
      BY <1>1, <1>8
    <2>2. n \in Nat
      OBVIOUS
    <2> QED
      BY <2>1, <2>2
  <1> QED
    BY <1>12, <1>13

(* Steps that are all positive make borders that rise to the sum of them.   *)
PieInv == /\ values \in Seq(Int) /\ valueType \in {"ITEM_SIZE", "ITEM_BORDER"}
          /\ (sensors = {} => slices = IF colors # Len(values) \/ values = << >>
                                          \/ (valueType = "ITEM_BORDER" /\ ~Increasing)
                                       THEN << >> ELSE Slices)

LEMMA StepsAre ==
  ASSUME values \in Seq(Int), values # << >>, valueType \in {"ITEM_SIZE", "ITEM_BORDER"},
         \A i \in DOMAIN values : Steps[i] > 0
  PROVE  /\ Rises(Accumulated(Steps), Len(values))
         /\ Sumvalues = Accumulated(Steps)[Len(values)]
         /\ \A i \in 1..(Len(values) - 1) : Border(i) = Circle * Accumulated(Steps)[i]
         /\ valueType = "ITEM_BORDER" => Increasing
  <1> DEFINE n == Len(values)
             B == Accumulated(Steps)
  <1>1. n \in Nat \ {0} /\ DOMAIN values = 1..n /\ \A i \in 1..n : values[i] \in Int
    OBVIOUS
  <1>2. \A i \in 1..n : Steps[i] = IF valueType = "ITEM_SIZE" \/ i = 1 THEN values[i]
                                   ELSE values[i] - values[i - 1]
    BY <1>1 DEF Steps
  <1>3. Steps \in Seq(Int) /\ Len(Steps) = n
    <2>1. \A i \in 1..n : i # 1 => i - 1 \in 1..n
      BY <1>1
    <2>2. \A i \in 1..n : Steps[i] \in Int
      BY <1>1, <1>2, <2>1
    <2>3. Steps = [i \in 1..n |-> Steps[i]]
      BY <1>1 DEF Steps
    <2> HIDE DEF n
    <2>4. Steps \in [1..n -> Int]
      BY <2>2, <2>3
    <2> QED
      BY <1>1, <2>4
  <1>4. \A i \in 1..n : Steps[i] > 0
    BY <1>1
  <1> DEFINE S == Steps
  <1>5. S \in Seq(Int) /\ Len(S) = n /\ (\A i \in 1..Len(S) : S[i] > 0) /\ B = Accumulated(S)
    BY <1>3, <1>4
  <1> HIDE DEF n, S, B
  <1>6. Summed(B, S)
    BY <1>5, AccumulatedIs
  <1>7. Rises(B, n)
    BY <1>5, <1>6, SumsRise
  <1>8. B \in [0..n -> Int] /\ B[0] = 0 /\ \A i \in 1..n : B[i] = B[i - 1] + S[i]
    BY <1>5, <1>6 DEF Summed
  <1>9. CASE valueType = "ITEM_SIZE"
    <2>1. S = values
      <3>1. \A i \in 1..n : Steps[i] = values[i]
        BY <1>2, <1>9
      <3>2. Steps = [i \in 1..n |-> Steps[i]]
        BY <1>1 DEF Steps
      <3>3. values = [i \in 1..n |-> values[i]]
        BY <1>1
      <3> QED
        BY <3>1, <3>2, <3>3 DEF S
    <2>2. Accumulated(values) = B
      BY <1>5, <2>1
    <2>3. Sumvalues = B[n]
      BY <1>9, <2>2 DEF Sumvalues, n
    <2>4. \A i \in 1..(n - 1) : Border(i) = Circle * B[i]
      BY <1>9, <2>2 DEF Border
    <2>5. valueType # "ITEM_BORDER"
      BY <1>9
    <2> QED
      BY <1>7, <2>3, <2>4, <2>5 DEF B, n
  <1>10. CASE valueType # "ITEM_SIZE"
    <2>1. \A i \in 1..n : Steps[i] = IF i = 1 THEN values[i] ELSE values[i] - values[i - 1]
      BY <1>2, <1>10
    <2> DEFINE T == {i \in 0..n : i = 0 \/ B[i] = values[i]}
    <2>2. 0 \in T
      BY <1>1
    <2>3. ASSUME NEW i \in 1..n, i - 1 \in T PROVE i \in T
      <3>1. B[i] = B[i - 1] + S[i] /\ S[i] = IF i = 1 THEN values[i] ELSE values[i] - values[i - 1]
        BY <1>8, <2>1 DEF S
      <3>2. CASE i = 1
        <4>1. B[1] = B[0] + values[1] /\ B[0] = 0 /\ values[1] \in Int
          BY <1>1, <1>8, <3>1, <3>2
        <4>2. B[i] = values[i]
          BY <3>2, <4>1
        <4> QED
          BY <1>1, <4>2
      <3>3. CASE i # 1
        <4>1. B[i - 1] = values[i - 1] /\ i - 1 \in 1..n
          BY <1>1, <2>3, <3>3
        <4>2. values[i] \in Int /\ values[i - 1] \in Int
          BY <1>1, <4>1
        <4>3. B[i] = values[i]
          BY <3>1, <3>3, <4>1, <4>2
        <4> QED
          BY <1>1, <4>3
      <3> QED
        BY <3>2, <3>3
    <2> HIDE DEF T
    <2>4. 0..n \subseteq T
      BY <1>1, <2>2, <2>3, UpTo
    <2>5. \A i \in 1..n : B[i] = values[i]
      BY <1>1, <2>4 DEF T
    <2>6. Sumvalues = B[n]
      <3>1. n \in 1..n
        BY <1>1
      <3>2. Sumvalues = values[n]
        BY <1>10 DEF Sumvalues, n
      <3> QED
        BY <2>5, <3>1, <3>2
    <2>7. ASSUME NEW i \in 1..(n - 1) PROVE Border(i) = Circle * B[i]
      <3>1. i \in 1..n
        BY <1>1
      <3>2. Border(i) = Circle * values[i]
        BY <1>10 DEF Border
      <3> QED
        BY <2>5, <3>1, <3>2
    <2>8. Increasing
      <3>1. ASSUME NEW i \in 1..n PROVE values[i] >= (IF i = 1 THEN 0 ELSE values[i - 1])
        <4>1. values[i] \in Int /\ Steps[i] > 0
          BY <1>1, <1>4
        <4>2. CASE i = 1
          BY <2>1, <4>1, <4>2
        <4>3. CASE i # 1
          <5>1. i - 1 \in 1..n
            BY <1>1, <4>3
          <5>2. values[i - 1] \in Int
            BY <1>1, <5>1
          <5>3. values[i] - values[i - 1] > 0
            BY <2>1, <4>1, <4>3
          <5> QED
            BY <4>1, <4>3, <5>2, <5>3
        <4> QED
          BY <4>2, <4>3
      <3> QED
        BY <1>1, <3>1 DEF Increasing
    <2> QED
      BY <1>7, <2>6, <2>7, <2>8 DEF B, n
  <1> QED
    BY <1>9, <1>10

LEMMA PieIsRight ==
  ASSUME PieAssumption, PieInv
  PROVE  SlicesRight
  <1> DEFINE n == Len(values)
             B == Accumulated(Steps)
             c == Circle
  <1> SUFFICES ASSUME sensors = {}, colors = n, \A i \in DOMAIN values : Steps[i] > 0
               PROVE  /\ Len(slices) = n
                      /\ \A i \in DOMAIN slices :
                           slices[i] = [color |-> i, from |-> c * B[i - 1], to |-> c * B[i]]
    BY DEF SlicesRight
  <1>1. CASE values = << >>
    <2>1. slices = << >>
      BY <1>1 DEF PieInv
    <2> QED
      BY <1>1, <2>1
  <1>2. CASE values # << >>
    <2>1. values \in Seq(Int) /\ valueType \in {"ITEM_SIZE", "ITEM_BORDER"}
      BY DEF PieInv
    <2>2. n \in Nat \ {0} /\ c \in Nat \ {0}
      BY <1>2, <2>1 DEF PieAssumption
    <2>3. /\ Rises(B, n) /\ Sumvalues = B[n]
          /\ \A i \in 1..(n - 1) : Border(i) = c * B[i]
          /\ valueType = "ITEM_BORDER" => Increasing
      BY <1>2, <2>1, StepsAre
    <2>4. slices = Slices
      BY <1>2, <2>3 DEF PieInv
    <2>5. Circle = c /\ Len(values) = n
      OBVIOUS
    <2> HIDE DEF n, B, c
    <2>6. Laid(Raw, c, n, B)
      BY <2>2, <2>3, <2>5, RawIs
    <2>7. Pointed(PiePoints, c, n, B)
      BY <2>2, <2>3, <2>6, PiePointed
    <2>8. /\ Len(Slices) = n /\ DOMAIN Slices = 1..n
          /\ \A k \in 1..n : Slices[k] = [color |-> k, from |-> c * B[k - 1], to |-> c * B[k]]
      BY <2>2, <2>3, <2>7, SlicesAre
    <2> QED
      BY <2>4, <2>8
  <1> QED
    BY <1>1, <1>2

LEMMA PieBegins == PieInit => PieInv
  <1> SUFFICES ASSUME PieInit PROVE PieInv
    OBVIOUS
  <1>1. values = << >> /\ valueType = "ITEM_SIZE" /\ slices = << >>
    BY DEF PieInit
  <1>2. values \in Seq(Int)
    BY <1>1
  <1> QED
    BY <1>1, <1>2 DEF PieInv

LEMMA PieStep ==
  ASSUME PieAssumption
  PROVE  PieInv /\ [PieNext]_pievars => PieInv'
  <1> SUFFICES ASSUME PieInv, [PieNext]_pievars PROVE PieInv'
    OBVIOUS
  <1>0. values \in Seq(Int) /\ valueType \in {"ITEM_SIZE", "ITEM_BORDER"}
    BY DEF PieInv
  <1>1. ASSUME NEW f \in sensors, Update(f) PROVE PieInv'
    <2>1. UNCHANGED <<valueType, values, colors>> /\ GenerateGeometry
      BY <1>1 DEF Update
    <2>2. Slices' = Slices /\ Increasing' = Increasing
      BY <2>1 DEF Slices, PiePoints, Indexed, Sorted, Raw, Border, Sumvalues, Increasing
    <2> QED
      BY <1>0, <2>1, <2>2 DEF GenerateGeometry, PieInv
  <1>2. ASSUME NEW t \in {"ITEM_SIZE", "ITEM_BORDER"}, SetValueType(t) PROVE PieInv'
    BY <1>0, <1>2 DEF SetValueType, PieInv
  <1>3. ASSUME NEW v \in Values, SetValues(v) PROVE PieInv'
    <2>1. v \in Seq(Int)
      BY DEF PieAssumption
    <2> QED
      BY <1>0, <1>3, <2>1 DEF SetValues, PieInv
  <1>4. ASSUME NEW k \in Numbers, SetColors(k) PROVE PieInv'
    BY <1>0, <1>4 DEF SetColors, PieInv
  <1>5. CASE UNCHANGED pievars
    <2>1. UNCHANGED <<valueType, values, colors>> /\ UNCHANGED sensors /\ UNCHANGED slices
      BY <1>5 DEF pievars
    <2>2. Slices' = Slices /\ Increasing' = Increasing
      BY <2>1 DEF Slices, PiePoints, Indexed, Sorted, Raw, Border, Sumvalues, Increasing
    <2> QED
      BY <1>0, <2>1, <2>2 DEF PieInv
  <1> QED
    BY <1>1, <1>2, <1>3, <1>4, <1>5 DEF PieNext

(* A pie of values that are all positive shows a slice for each, in its     *)
(* color and between its borders, once its sensors have been served.        *)
THEOREM SlicesAreRight == PieAssumption => (PieSpec => []SlicesRight)
  <1> SUFFICES ASSUME PieAssumption PROVE PieSpec => []SlicesRight
    OBVIOUS
  <1>1. PieInit => PieInv
    BY PieBegins
  <1>2. PieInv /\ [PieNext]_pievars => PieInv'
    BY PieStep
  <1>3. PieInv => SlicesRight
    BY PieIsRight
  <1> QED
    BY <1>1, <1>2, <1>3, PTL DEF PieSpec

-----------------------------------------------------------------------------
(* All of them side by side: they share no variable, and keep what they     *)
(* promise for any wells, meshes, legends, axes, objects and pies.          *)
Kits == /\ WellSpec /\ FEMSpec /\ LegendSpec /\ DisplaySpec /\ AxisSpec
        /\ DynSpec /\ PieSpec
KitsAssumption == /\ WellAssumption /\ FEMAssumption /\ LegendAssumption
                  /\ DisplayAssumption /\ AnnotationAssumption /\ PieAssumption

(* Whatever was set, edited, enabled, added or removed, and in whatever     *)
(* order, what the kits show is what they were given.                       *)
THEOREM KitsAreCurrent == KitsAssumption => (Kits => []KitsCurrent)
  <1> SUFFICES ASSUME KitsAssumption PROVE Kits => []KitsCurrent
    OBVIOUS
  <1>1. /\ (WellSpec => [](DrawnFresh /\ FacesRight)) /\ (FEMSpec => []SurfaceShown)
        /\ (LegendSpec => []OneLayout) /\ (DisplaySpec => []AxesFollow)
        /\ (AxisSpec => []AxisShown) /\ (PieSpec => []SlicesRight)
    BY WellIsDrawn, FEMSurfaceIsShown, LegendLaidOut, DisplayedAxesFollow,
       AnnotationsAreShown, SlicesAreRight DEF KitsAssumption
  <1>2. DrawnFresh /\ FacesRight /\ SurfaceShown /\ OnePlace /\ AxisShown
          /\ SlicesRight /\ AxesFollow /\ OneLayout => KitsCurrent
    BY DEF KitsCurrent
  <1> QED
    BY <1>1, <1>2, ObjectsHaveOnePlace, PTL DEF Kits

(* And every edit of theirs leaves the rest where it was.                   *)
THEOREM EditsAreKept == KitsAssumption => (Kits => EditsKeep)
  <1> SUFFICES ASSUME KitsAssumption PROVE Kits => EditsKeep
    OBVIOUS
  <1>1. (LegendSpec => Sectioned) /\ (DisplaySpec => SeenFromItsPlace)
    BY RowsAreSectioned, DisplaySeenFromItsPlace DEF KitsAssumption
  <1> QED
    BY <1>1, PTL DEF Kits, EditsKeep
=============================================================================

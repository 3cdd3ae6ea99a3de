-------------------------- MODULE ContainersProofs --------------------------
(***************************************************************************)
(* Theorems about the two containers: SbList, for any lists, items and     *)
(* size of the buffer in a list; and SmHash, for any keys, objects, hash   *)
(* function, table size and load factor.                                   *)
(***************************************************************************)
EXTENDS SbList, SmHash, Sequences, FiniteSetTheorems, WellFoundedInduction, TLAPS

LEMMA ContentSeq ==
  ASSUME NEW L, Good(L)
  PROVE  /\ Content(L) \in Seq(Items \cup {Junk}) /\ Len(Content(L)) = L.numitems
         /\ \A i \in 1..L.numitems : Content(L)[i] = L.itembuffer[i - 1]
  <1>1. \A i \in 1..L.numitems : L.itembuffer[i - 1] \in Items \cup {Junk}
    BY DEF Good
  <1>2. L.numitems \in Nat
    BY DEF Good
  <1> DEFINE S == Items \cup {Junk}
  <1> HIDE DEF S
  <1>3. Content(L) \in [1..L.numitems -> S]
    BY <1>1 DEF Content, S
  <1>4. Content(L) \in Seq(S)
    BY <1>2, <1>3
  <1>5. Len(Content(L)) = L.numitems
    BY <1>2, <1>3, <1>4
  <1>6. \A i \in 1..L.numitems : Content(L)[i] = L.itembuffer[i - 1]
    BY DEF Content
  <1> QED
    BY <1>4, <1>5, <1>6 DEF S

LEMMA HoldingGood ==
  ASSUME NEW L, Good(L), NEW n \in Nat, n =< L.itembuffersize,
         NEW buffer \in [0..(L.itembuffersize - 1) -> Items \cup {Junk}]
  PROVE  Good(Holding(L, n, buffer))
  BY DEF Good, Holding

LEMMA MovedGood ==
  ASSUME ListAssumption, NEW L, Good(L), NEW n \in Nat,
         n >= L.numitems, n >= DEFAULTSIZE
  PROVE  /\ Good(Moved(L, n)) /\ Content(Moved(L, n)) = Content(L)
         /\ Moved(L, n).numitems = L.numitems /\ Moved(L, n).itembuffersize = n
  <1>2. Buffer(L, n) \in [0..(n - 1) -> Items \cup {Junk}]
    BY DEF Good, Buffer
  <1>3. Without(L) = 0
    BY DEF Good, Without
  <1>4. Good(Moved(L, n))
    BY <1>2, <1>3 DEF Good, ListAssumption, Moved
  <1>5. \A i \in 1..L.numitems : Buffer(L, n)[i - 1] = L.itembuffer[i - 1]
    BY DEF Good, Buffer
  <1>6. Content(Moved(L, n)) = Content(L)
    BY <1>5 DEF Content, Moved
  <1> QED
    BY <1>4, <1>6 DEF Moved

LEMMA SeqSame ==
  ASSUME NEW S, NEW s \in Seq(S), NEW t \in Seq(S), Len(s) = Len(t),
         \A i \in 1..Len(s) : s[i] = t[i]
  PROVE  s = t
  OBVIOUS

LEMMA RoomGood ==
  ASSUME ListAssumption, NEW L, Good(L)
  PROVE  /\ Good(Room(L)) /\ Content(Room(L)) = Content(L)
         /\ Room(L).numitems = L.numitems
         /\ Room(L).numitems < Room(L).itembuffersize
  <1>1. CASE L.numitems = L.itembuffersize
    <2>1. PICK n \in Nat : n = 2 * L.itembuffersize
      BY DEF Good
    <2>2. n > L.numitems /\ n >= DEFAULTSIZE
      BY <1>1, <2>1 DEF Good, ListAssumption
    <2>3. Room(L) = Moved(L, n)
      BY <1>1, <2>1 DEF Room, Doubled
    <2>4. n >= L.numitems /\ L.numitems \in Nat
      BY <2>2 DEF Good
    <2>5. /\ Good(Moved(L, n)) /\ Content(Moved(L, n)) = Content(L)
          /\ Moved(L, n).numitems = L.numitems /\ Moved(L, n).itembuffersize = n
      BY <2>2, <2>4, MovedGood
    <2> QED
      BY <2>2, <2>3, <2>5
  <1>2. CASE L.numitems # L.itembuffersize
    BY <1>2 DEF Room, Good
  <1> QED
    BY <1>1, <1>2

LEMMA FittedGood ==
  ASSUME ListAssumption, NEW L, Good(L)
  PROVE  Good(Fitted(L)) /\ Content(Fitted(L)) = Content(L)
  <1>1. CASE L.numitems >= L.itembuffersize
    BY <1>1 DEF Fitted
  <1>2. CASE ~(L.numitems >= L.itembuffersize) /\ L.numitems > DEFAULTSIZE
    <2>1. Fitted(L) = Moved(L, L.numitems)
      BY <1>2 DEF Fitted
    <2>2. L.numitems \in Nat /\ L.numitems >= DEFAULTSIZE /\ L.numitems >= L.numitems
      BY <1>2 DEF Good, ListAssumption
    <2> QED
      BY <2>1, <2>2, MovedGood
  <1>3. CASE ~(L.numitems >= L.itembuffersize) /\ ~(L.numitems > DEFAULTSIZE)
    <2>1. Buffer(L, DEFAULTSIZE) \in [0..(DEFAULTSIZE - 1) -> Items \cup {Junk}]
      BY DEF Good, Buffer
    <2>2. Without(L) = 0
      BY DEF Good, Without
    <2>3. L.numitems =< DEFAULTSIZE
      BY <1>3 DEF Good, ListAssumption
    <2>4. Good(Fitted(L))
      <3>1. Fitted(L) = [numitems |-> L.numitems, itembuffersize |-> DEFAULTSIZE,
                         itembuffer |-> Buffer(L, DEFAULTSIZE), onheap |-> FALSE,
                         live |-> Without(L)]
        BY <1>3 DEF Fitted
      <3> QED
        BY <2>1, <2>2, <2>3, <3>1 DEF Good, ListAssumption
    <2>5. \A i \in 1..L.numitems : Buffer(L, DEFAULTSIZE)[i - 1] = L.itembuffer[i - 1]
      BY <2>3 DEF Good, Buffer, ListAssumption
    <2>6. Content(Fitted(L)) = Content(L)
      BY <1>3, <2>5 DEF Content, Fitted
    <2> QED
      BY <2>4, <2>6
  <1> QED
    BY <1>1, <1>2, <1>3

LEMMA AddedGood ==
  ASSUME NEW L, Good(L), L.numitems < L.itembuffersize, NEW x \in Items
  PROVE  Good(Added(L, x)) /\ Content(Added(L, x)) = Append(Content(L), x)
  <1> DEFINE S == Items \cup {Junk}
             buffer == [L.itembuffer EXCEPT ![L.numitems] = x]
             A == Added(L, x)
  <1>1. buffer \in [0..(L.itembuffersize - 1) -> S]
    BY DEF Good
  <1>2. L.numitems + 1 \in Nat /\ L.numitems + 1 =< L.itembuffersize
    BY DEF Good
  <1>3. Good(A)
    BY <1>1, <1>2, HoldingGood DEF Added
  <1>4. /\ Content(L) \in Seq(S) /\ Len(Content(L)) = L.numitems
        /\ \A i \in 1..L.numitems : Content(L)[i] = L.itembuffer[i - 1]
    BY ContentSeq
  <1>5. /\ Content(A) \in Seq(S) /\ Len(Content(A)) = A.numitems
        /\ \A i \in 1..A.numitems : Content(A)[i] = A.itembuffer[i - 1]
    BY <1>3, ContentSeq
  <1>6. A.numitems = L.numitems + 1 /\ A.itembuffer = buffer
    BY DEF Added, Holding
  <1> HIDE DEF A
  <1>7. \A i \in 1..(L.numitems + 1) : buffer[i - 1] = Append(Content(L), x)[i]
    BY <1>4 DEF Good
  <1>8. Append(Content(L), x) \in Seq(S) /\ Len(Append(Content(L), x)) = L.numitems + 1
    BY <1>4
  <1> HIDE DEF S, buffer
  <1>9. Content(A) = Append(Content(L), x)
    BY <1>5, <1>6, <1>7, <1>8, SeqSame
  <1> QED
    BY <1>3, <1>9 DEF A

LEMMA InsertAtItems ==
  ASSUME NEW S, NEW s \in Seq(S), NEW k \in 1..(Len(s) + 1), NEW x \in S
  PROVE  /\ Contents!InsertAt(s, k, x) \in Seq(S) /\ Len(Contents!InsertAt(s, k, x)) = Len(s) + 1
         /\ \A j \in 1..(Len(s) + 1) :
              Contents!InsertAt(s, k, x)[j] = IF j < k THEN s[j] ELSE IF j = k THEN x ELSE s[j - 1]
  <1> DEFINE a == SubSeq(s, 1, k - 1)
             c == SubSeq(s, k, Len(s))
  <1>1. /\ a \in Seq(S) /\ Len(a) = k - 1
        /\ \A j \in 1..(k - 1) : a[j] = s[j]
    OBVIOUS
  <1>2. /\ c \in Seq(S) /\ Len(c) = Len(s) - k + 1
        /\ \A j \in 1..(Len(s) - k + 1) : c[j] = s[j + k - 1]
    OBVIOUS
  <1> HIDE DEF a, c
  <1> DEFINE b == a \o <<x>>
  <1>3. /\ b \in Seq(S) /\ Len(b) = k
        /\ \A j \in 1..k : b[j] = IF j < k THEN s[j] ELSE x
    BY <1>1
  <1> HIDE DEF b
  <1>4. Contents!InsertAt(s, k, x) = b \o c
    BY DEF Contents!InsertAt, a, b, c
  <1>5. /\ b \o c \in Seq(S) /\ Len(b \o c) = Len(s) + 1
        /\ \A j \in 1..(Len(s) + 1) : (b \o c)[j] = IF j =< k THEN b[j] ELSE c[j - k]
    <2>0. b \in Seq(S) /\ c \in Seq(S)
      BY <1>2, <1>3
    <2>1. b \o c \in Seq(S) /\ Len(b \o c) = Len(b) + Len(c)
      BY <2>0
    <2>2. \A j \in 1..(Len(b) + Len(c)) :
            (b \o c)[j] = IF j =< Len(b) THEN b[j] ELSE c[j - Len(b)]
      BY <2>0
    <2>3. Len(b) + Len(c) = Len(s) + 1
      BY <1>2, <1>3
    <2> QED
      BY <1>3, <2>1, <2>2, <2>3
  <1>6. ASSUME NEW j \in 1..(Len(s) + 1)
        PROVE  (b \o c)[j] = IF j < k THEN s[j] ELSE IF j = k THEN x ELSE s[j - 1]
    <2>1. CASE j =< k
      BY <1>3, <1>5, <2>1
    <2>2. CASE j > k
      <3>1. j - k \in 1..(Len(s) - k + 1) /\ (j - k) + k - 1 = j - 1
        BY <2>2
      <3>2. c[j - k] = s[(j - k) + k - 1]
        BY <1>2, <3>1
      <3>3. (b \o c)[j] = c[j - k]
        BY <1>5, <2>2
      <3>4. ~(j < k) /\ j # k
        BY <2>2
      <3> QED
        BY <3>1, <3>2, <3>3, <3>4
    <2>3. j =< k \/ j > k
      OBVIOUS
    <2> QED
      BY <2>1, <2>2, <2>3
  <1>7. \A j \in 1..(Len(s) + 1) :
          (b \o c)[j] = IF j < k THEN s[j] ELSE IF j = k THEN x ELSE s[j - 1]
    BY <1>6
  <1> QED
    BY <1>4, <1>5, <1>7

LEMMA BetweenGood ==
  ASSUME NEW L, Good(L), L.numitems < L.itembuffersize, NEW x \in Items,
         NEW i \in 0..L.numitems
  PROVE  Good(Between(L, x, i)) /\ Content(Between(L, x, i)) = Contents!InsertAt(Content(L), i + 1, x)
  <1> DEFINE S == Items \cup {Junk}
             buffer == [j \in DOMAIN L.itembuffer |->
                          IF j = i THEN x
                          ELSE IF j > i /\ j =< L.numitems THEN L.itembuffer[j - 1]
                          ELSE L.itembuffer[j]]
             A == Between(L, x, i)
             t == Contents!InsertAt(Content(L), i + 1, x)
  <1>1. buffer \in [0..(L.itembuffersize - 1) -> S]
    BY DEF Good
  <1>2. L.numitems + 1 \in Nat /\ L.numitems + 1 =< L.itembuffersize
    BY DEF Good
  <1>3. Good(A)
    BY <1>1, <1>2, HoldingGood DEF Between
  <1>4. /\ Content(L) \in Seq(S) /\ Len(Content(L)) = L.numitems
        /\ \A j \in 1..L.numitems : Content(L)[j] = L.itembuffer[j - 1]
    BY ContentSeq
  <1>5. /\ Content(A) \in Seq(S) /\ Len(Content(A)) = A.numitems
        /\ \A j \in 1..A.numitems : Content(A)[j] = A.itembuffer[j - 1]
    BY <1>3, ContentSeq
  <1>6. A.numitems = L.numitems + 1 /\ A.itembuffer = buffer
    BY DEF Between, Holding
  <1> HIDE DEF A
  <1>7. L.numitems \in Nat /\ i + 1 \in 1..(Len(Content(L)) + 1) /\ x \in S
    BY <1>4 DEF Good
  <1>8. /\ t \in Seq(S) /\ Len(t) = L.numitems + 1
        /\ \A j \in 1..(L.numitems + 1) :
             t[j] = IF j < i + 1 THEN Content(L)[j]
                    ELSE IF j = i + 1 THEN x ELSE Content(L)[j - 1]
    BY <1>4, <1>7, InsertAtItems
  <1> HIDE DEF t, S
  <1>9. \A j \in 1..(L.numitems + 1) : buffer[j - 1] = t[j]
    BY <1>4, <1>7, <1>8 DEF Good
  <1> HIDE DEF buffer
  <1>10. Content(A) = t
    BY <1>5, <1>6, <1>8, <1>9, SeqSame
  <1> QED
    BY <1>3, <1>10 DEF A, t

LEMMA RemoveAtItems ==
  ASSUME NEW S, NEW s \in Seq(S), NEW k \in 1..Len(s)
  PROVE  /\ Contents!RemoveAt(s, k) \in Seq(S) /\ Len(Contents!RemoveAt(s, k)) = Len(s) - 1
         /\ \A j \in 1..(Len(s) - 1) :
              Contents!RemoveAt(s, k)[j] = IF j < k THEN s[j] ELSE s[j + 1]
  <1> DEFINE a == SubSeq(s, 1, k - 1)
             c == SubSeq(s, k + 1, Len(s))
  <1>1. /\ a \in Seq(S) /\ Len(a) = k - 1
        /\ \A j \in 1..(k - 1) : a[j] = s[j]
    OBVIOUS
  <1>2. /\ c \in Seq(S) /\ Len(c) = Len(s) - k
        /\ \A j \in 1..(Len(s) - k) : c[j] = s[j + k]
    OBVIOUS
  <1> HIDE DEF a, c
  <1>3. Contents!RemoveAt(s, k) = a \o c
    BY DEF Contents!RemoveAt, a, c
  <1>4. a \in Seq(S) /\ c \in Seq(S)
    BY <1>1, <1>2
  <1>5. a \o c \in Seq(S) /\ Len(a \o c) = Len(a) + Len(c)
    BY <1>4
  <1>6. \A j \in 1..(Len(a) + Len(c)) :
          (a \o c)[j] = IF j =< Len(a) THEN a[j] ELSE c[j - Len(a)]
    BY <1>4
  <1>7. Len(a) + Len(c) = Len(s) - 1
    BY <1>1, <1>2
  <1>8. ASSUME NEW j \in 1..(Len(s) - 1)
        PROVE  (a \o c)[j] = IF j < k THEN s[j] ELSE s[j + 1]
    <2>1. CASE j < k
      BY <1>1, <1>6, <1>7, <2>1
    <2>2. CASE ~(j < k)
      <3>1. j - (k - 1) \in 1..(Len(s) - k) /\ (j - (k - 1)) + k = j + 1 /\ ~(j =< k - 1)
        BY <2>2
      <3>2. c[j - (k - 1)] = s[(j - (k - 1)) + k]
        BY <1>2, <3>1
      <3>3. (a \o c)[j] = c[j - (k - 1)]
        BY <1>1, <1>6, <1>7, <3>1
      <3> QED
        BY <2>2, <3>1, <3>2, <3>3
    <2> QED
      BY <2>1, <2>2
  <1>9. \A j \in 1..(Len(s) - 1) : (a \o c)[j] = IF j < k THEN s[j] ELSE s[j + 1]
    BY <1>8
  <1> QED
    BY <1>3, <1>5, <1>7, <1>9

LEMMA RemovedAtGood ==
  ASSUME NEW L, Good(L), NEW i \in 0..(L.numitems - 1)
  PROVE  Good(RemovedAt(L, i)) /\ Content(RemovedAt(L, i)) = Contents!RemoveAt(Content(L), i + 1)
  <1> DEFINE S == Items \cup {Junk}
             buffer == [j \in DOMAIN L.itembuffer |->
                          IF j >= i /\ j < L.numitems - 1 THEN L.itembuffer[j + 1]
                          ELSE L.itembuffer[j]]
             A == RemovedAt(L, i)
             t == Contents!RemoveAt(Content(L), i + 1)
  <1>1. buffer \in [0..(L.itembuffersize - 1) -> S]
    BY DEF Good
  <1>2. L.numitems - 1 \in Nat /\ L.numitems - 1 =< L.itembuffersize
    BY DEF Good
  <1>3. Good(A)
    BY <1>1, <1>2, HoldingGood DEF RemovedAt
  <1>4. /\ Content(L) \in Seq(S) /\ Len(Content(L)) = L.numitems
        /\ \A j \in 1..L.numitems : Content(L)[j] = L.itembuffer[j - 1]
    BY ContentSeq
  <1>5. /\ Content(A) \in Seq(S) /\ Len(Content(A)) = A.numitems
        /\ \A j \in 1..A.numitems : Content(A)[j] = A.itembuffer[j - 1]
    BY <1>3, ContentSeq
  <1>6. A.numitems = L.numitems - 1 /\ A.itembuffer = buffer
    BY DEF RemovedAt, Holding
  <1> HIDE DEF A
  <1>7. L.numitems \in Nat /\ i + 1 \in 1..Len(Content(L))
    BY <1>4 DEF Good
  <1>8. /\ t \in Seq(S) /\ Len(t) = L.numitems - 1
        /\ \A j \in 1..(L.numitems - 1) :
             t[j] = IF j < i + 1 THEN Content(L)[j] ELSE Content(L)[j + 1]
    BY <1>4, <1>7, RemoveAtItems
  <1> HIDE DEF t, S
  <1>9. ASSUME NEW j \in 1..(L.numitems - 1)
        PROVE  buffer[j - 1] = t[j]
    <2>1. /\ j - 1 \in DOMAIN L.itembuffer /\ (j - 1) + 1 = j /\ (j + 1) - 1 = j
          /\ j \in 1..L.numitems /\ j + 1 \in 1..L.numitems
      BY <1>7 DEF Good
    <2>2. Content(L)[j] = L.itembuffer[j - 1] /\ Content(L)[j + 1] = L.itembuffer[j]
      BY <1>4, <2>1
    <2>3. buffer[j - 1] = IF j - 1 >= i /\ j - 1 < L.numitems - 1 THEN L.itembuffer[j]
                          ELSE L.itembuffer[j - 1]
      BY <2>1
    <2>4. j < i + 1 <=> ~(j - 1 >= i /\ j - 1 < L.numitems - 1)
      BY <1>7
    <2> QED
      BY <1>8, <2>2, <2>3, <2>4
  <1> HIDE DEF buffer
  <1>10. Content(A) = t
    BY <1>5, <1>6, <1>8, <1>9, SeqSame
  <1> QED
    BY <1>3, <1>10 DEF A, t

LEMMA RemovedFastGood ==
  ASSUME NEW L, Good(L), NEW i \in 0..(L.numitems - 1)
  PROVE  /\ Good(RemovedFast(L, i))
         /\ Content(RemovedFast(L, i)) =
              Contents!Front([Content(L) EXCEPT ![i + 1] = Contents!Last(Content(L))])
  <1> DEFINE S == Items \cup {Junk}
             buffer == [L.itembuffer EXCEPT ![i] = L.itembuffer[L.numitems - 1]]
             A == RemovedFast(L, i)
             u == [Content(L) EXCEPT ![i + 1] = Contents!Last(Content(L))]
             t == Contents!Front(u)
  <1>1. buffer \in [0..(L.itembuffersize - 1) -> S]
    BY DEF Good
  <1>2. L.numitems - 1 \in Nat /\ L.numitems - 1 =< L.itembuffersize
    BY DEF Good
  <1>3. Good(A)
    BY <1>1, <1>2, HoldingGood DEF RemovedFast
  <1>4. /\ Content(L) \in Seq(S) /\ Len(Content(L)) = L.numitems
        /\ \A j \in 1..L.numitems : Content(L)[j] = L.itembuffer[j - 1]
    BY ContentSeq
  <1>5. /\ Content(A) \in Seq(S) /\ Len(Content(A)) = A.numitems
        /\ \A j \in 1..A.numitems : Content(A)[j] = A.itembuffer[j - 1]
    BY <1>3, ContentSeq
  <1>6. A.numitems = L.numitems - 1 /\ A.itembuffer = buffer
    BY DEF RemovedFast, Holding
  <1> HIDE DEF A
  <1>7. Contents!Last(Content(L)) = L.itembuffer[L.numitems - 1] /\ Contents!Last(Content(L)) \in S
    BY <1>2, <1>4 DEF Contents!Last, Good
  <1> HIDE DEF S
  <1>8. /\ u \in Seq(S) /\ Len(u) = L.numitems
        /\ \A j \in 1..L.numitems :
             u[j] = IF j = i + 1 THEN Contents!Last(Content(L)) ELSE Content(L)[j]
    <2>0. L.numitems \in Nat
      BY DEF Good
    <2>1. DOMAIN Content(L) = 1..L.numitems /\ i + 1 \in 1..L.numitems
      BY <2>0 DEF Content
    <2>2. /\ DOMAIN u = 1..L.numitems
          /\ \A j \in 1..L.numitems :
               u[j] = IF j = i + 1 THEN Contents!Last(Content(L)) ELSE Content(L)[j]
      BY <2>1
    <2>3. u \in [1..L.numitems -> S]
      BY <1>4, <1>7, <2>1
    <2> HIDE DEF u
    <2>4. u \in Seq(S) /\ Len(u) = L.numitems
      BY <2>0, <2>3
    <2> QED
      BY <2>2, <2>4
  <1> HIDE DEF u
  <1>9. /\ t \in Seq(S) /\ Len(t) = L.numitems - 1
        /\ \A j \in 1..(L.numitems - 1) : t[j] = u[j]
    <2>1. t = SubSeq(u, 1, L.numitems - 1)
      BY <1>8 DEF Contents!Front
    <2> QED
      BY <1>2, <1>8, <2>1
  <1> HIDE DEF t
  <1>10. ASSUME NEW j \in 1..(L.numitems - 1)
         PROVE  buffer[j - 1] = t[j]
    <2>1. L.numitems \in Nat /\ j \in 1..L.numitems /\ j - 1 \in DOMAIN L.itembuffer
      BY DEF Good
    <2>2. buffer[j - 1] = IF j - 1 = i THEN L.itembuffer[L.numitems - 1]
                          ELSE L.itembuffer[j - 1]
      BY <2>1
    <2>3. t[j] = IF j = i + 1 THEN L.itembuffer[L.numitems - 1] ELSE L.itembuffer[j - 1]
      BY <1>4, <1>7, <1>8, <1>9, <2>1
    <2>4. j - 1 = i <=> j = i + 1
      BY <2>1
    <2> QED
      BY <2>2, <2>3, <2>4
  <1> HIDE DEF buffer
  <1>11. Content(A) = t
    BY <1>5, <1>6, <1>9, <1>10, SeqSame
  <1> QED
    BY <1>3, <1>11 DEF A, t, u

LEMMA TruncatedGood ==
  ASSUME NEW L, Good(L), NEW n \in 0..L.numitems
  PROVE  Good(Truncated(L, n)) /\ Content(Truncated(L, n)) = SubSeq(Content(L), 1, n)
  <1> DEFINE S == Items \cup {Junk}
             A == Truncated(L, n)
             t == SubSeq(Content(L), 1, n)
  <1>1. n \in Nat /\ n =< L.itembuffersize
    BY DEF Good
  <1>2. L.itembuffer \in [0..(L.itembuffersize - 1) -> S]
    BY DEF Good
  <1>3. Good(A)
    BY <1>1, <1>2, HoldingGood DEF Truncated
  <1>4. /\ Content(L) \in Seq(S) /\ Len(Content(L)) = L.numitems
        /\ \A j \in 1..L.numitems : Content(L)[j] = L.itembuffer[j - 1]
    BY ContentSeq
  <1>5. /\ Content(A) \in Seq(S) /\ Len(Content(A)) = A.numitems
        /\ \A j \in 1..A.numitems : Content(A)[j] = A.itembuffer[j - 1]
    BY <1>3, ContentSeq
  <1>6. A.numitems = n /\ A.itembuffer = L.itembuffer
    BY DEF Truncated, Holding
  <1> HIDE DEF A, S
  <1>7. t \in Seq(S) /\ Len(t) = n /\ \A j \in 1..n : t[j] = Content(L)[j]
    BY <1>1, <1>4 DEF Good
  <1> HIDE DEF t
  <1>8. \A j \in 1..n : A.itembuffer[j - 1] = t[j]
    BY <1>1, <1>4, <1>6, <1>7
  <1>9. Content(A) = t
    BY <1>5, <1>6, <1>7, <1>8, SeqSame
  <1> QED
    BY <1>3, <1>9 DEF A, t

LEMMA GrownGood ==
  ASSUME ListAssumption, NEW L, Good(L), NEW n \in Nat
  PROVE  Good(Grown(L, n)) /\ n =< Grown(L, n).itembuffersize
  <1>1. CASE n =< L.itembuffersize
    BY <1>1 DEF Grown
  <1>2. CASE ~(n =< L.itembuffersize)
    <2>1. n >= L.numitems /\ n >= DEFAULTSIZE
      BY <1>2 DEF Good, ListAssumption
    <2> QED
      BY <1>2, <2>1, MovedGood DEF Grown
  <1> QED
    BY <1>1, <1>2

LEMMA FilledFromGood ==
  ASSUME NEW L, Good(L), NEW M, Good(M), M.numitems =< L.itembuffersize
  PROVE  Good(FilledFrom(L, M)) /\ Content(FilledFrom(L, M)) = Content(M)
  <1> DEFINE S == Items \cup {Junk}
             buffer == [i \in DOMAIN L.itembuffer |->
                          IF i < M.numitems THEN M.itembuffer[i] ELSE L.itembuffer[i]]
  <1>1. buffer \in [0..(L.itembuffersize - 1) -> S]
    BY DEF Good
  <1>2. Good(FilledFrom(L, M))
    BY <1>1, HoldingGood DEF FilledFrom, Good
  <1>3. \A i \in 1..M.numitems : buffer[i - 1] = M.itembuffer[i - 1]
    BY DEF Good
  <1>4. Content(FilledFrom(L, M)) = Content(M)
    BY <1>3 DEF FilledFrom, Holding, Content
  <1> QED
    BY <1>2, <1>4

(* The invariant: a step keeps every list sound, whatever the list.         *)
LEMMA FreshGood ==
  ASSUME ListAssumption
  PROVE  Good(Fresh(0)) /\ Content(Fresh(0)) = << >>
  <1>1. Good(Fresh(0))
    BY DEF Good, Fresh, ListAssumption
  <1>2. Content(Fresh(0)) = << >>
    BY DEF Content, Fresh
  <1> QED
    BY <1>1, <1>2

LEMMA InitSound == ASSUME ListAssumption, ListInit PROVE Sound
  BY FreshGood DEF ListInit, Sound

(* A list made in the place of another is empty, and the buffer of the      *)
(* other is gone.                                                           *)
LEMMA RemadeGood ==
  ASSUME ListAssumption, NEW L, Good(L), NEW n \in Nat
  PROVE  Good(Remade(L, n)) /\ Content(Remade(L, n)) = << >>
  <1>1. Without(L) = 0
    BY DEF Good, Without
  <1>2. Remade(L, n) = Grown(Fresh(0), n)
    BY <1>1 DEF Remade
  <1>3. Content(Grown(Fresh(0), n)) = << >>
    BY DEF Grown, Moved, Content, Fresh
  <1> QED
    BY <1>2, <1>3, FreshGood, GrownGood

LEMMA BecomesSound ==
  ASSUME Sound, NEW l \in Lists, NEW L, Good(L), Becomes(l, L)
  PROVE  /\ Sound'
         /\ [m \in Lists |-> Content(list[m])]' =
              [[m \in Lists |-> Content(list[m])] EXCEPT ![l] = Content(L)]
  <1>1. list = [m \in Lists |-> list[m]] /\ list' = [list EXCEPT ![l] = L]
    BY DEF Sound, Becomes
  <1>2. list' = [m \in Lists |-> IF m = l THEN L ELSE list[m]]
    BY <1>1
  <1>3. \A m \in Lists : list'[m] = IF m = l THEN L ELSE list[m]
    BY <1>2
  <1>4. Sound'
    <2>1. list' = [m \in Lists |-> list'[m]]
      BY <1>2, <1>3
    <2>2. \A m \in Lists : Good(list'[m])
      BY <1>3 DEF Sound
    <2> QED
      BY <2>1, <2>2 DEF Sound, Good
  <1>5. [m \in Lists |-> Content(list'[m])] =
          [[m \in Lists |-> Content(list[m])] EXCEPT ![l] = Content(L)]
    BY <1>3
  <1> QED
    BY <1>4, <1>5

(* What every action of the code does, seen by index.                       *)
LEMMA StepKeeps ==
  ASSUME ListAssumption, Sound, ListNext
  PROVE  Sound' /\ Contents!Next
  <1> DEFINE items == [m \in Lists |-> Content(list[m])]
  <1>1. PICK l \in Lists :
          \/ AppendItem(l) \/ Insert(l) \/ RemoveItem(l) \/ RemoveFast(l)
          \/ Truncate(l) \/ CopyList(l) \/ Remake(l)
    BY DEF ListNext
  <1>2. Good(list[l]) /\ \A m \in Lists : Good(list[m])
    BY DEF Sound
  <1>3. /\ items[l] = Content(list[l]) /\ Len(items[l]) = list[l].numitems
        /\ DOMAIN items[l] = 1..list[l].numitems /\ list[l].numitems \in Nat
    BY <1>2, ContentSeq DEF Content, Good
  <1> HIDE DEF items
  <1>4. ASSUME NEW L, Good(L), Becomes(l, L)
        PROVE  Sound' /\ items' = [items EXCEPT ![l] = Content(L)]
    BY <1>4, BecomesSound DEF items
  <1>5. CASE AppendItem(l)
    <2>1. PICK x \in Items :
            list[l].numitems < MaxItems /\ Becomes(l, Added(Room(list[l]), x))
      BY <1>5 DEF AppendItem
    <2>2. /\ Good(Added(Room(list[l]), x))
          /\ Content(Added(Room(list[l]), x)) = Append(items[l], x)
      BY <1>2, <1>3, RoomGood, AddedGood
    <2>3. Sound' /\ items' = [items EXCEPT ![l] = Append(items[l], x)]
      BY <1>4, <2>1, <2>2
    <2>4. Contents!AppendOne(l)
      BY <1>3, <2>1, <2>3 DEF Contents!AppendOne, Contents!Becomes, items
    <2> QED
      BY <2>3, <2>4 DEF Contents!Next
  <1>6. CASE Insert(l)
    <2>1. PICK x \in Items, i \in 0..list[l].numitems :
            list[l].numitems < MaxItems /\ Becomes(l, Between(Room(list[l]), x, i))
      BY <1>6 DEF Insert
    <2>2. /\ Good(Room(list[l])) /\ Content(Room(list[l])) = items[l]
          /\ Room(list[l]).numitems = list[l].numitems
          /\ Room(list[l]).numitems < Room(list[l]).itembuffersize
      BY <1>2, <1>3, RoomGood
    <2>3. /\ Good(Between(Room(list[l]), x, i))
          /\ Content(Between(Room(list[l]), x, i)) = Contents!InsertAt(items[l], i + 1, x)
      BY <2>2, BetweenGood
    <2>4. Sound' /\ items' = [items EXCEPT ![l] = Contents!InsertAt(items[l], i + 1, x)]
      BY <1>4, <2>1, <2>3
    <2>5. Len(items[l]) < MaxItems /\ i \in 0..Len(items[l])
      BY <1>3, <2>1
    <2>6. Contents!InsertOne(l)
      BY <2>4, <2>5 DEF Contents!InsertOne, Contents!Becomes, items
    <2> QED
      BY <2>4, <2>6 DEF Contents!Next
  <1>7. CASE RemoveItem(l)
    <2>1. PICK i \in 0..(list[l].numitems - 1) : Becomes(l, RemovedAt(list[l], i))
      BY <1>7 DEF RemoveItem
    <2>2. /\ Good(RemovedAt(list[l], i))
          /\ Content(RemovedAt(list[l], i)) = Contents!RemoveAt(items[l], i + 1)
      BY <1>2, <1>3, RemovedAtGood
    <2>3. Sound' /\ items' = [items EXCEPT ![l] = Contents!RemoveAt(items[l], i + 1)]
      BY <1>4, <2>1, <2>2
    <2>4. i + 1 \in DOMAIN items[l]
      BY <1>3
    <2>5. Contents!RemoveOne(l)
      BY <2>3, <2>4 DEF Contents!RemoveOne, Contents!Becomes, items
    <2> QED
      BY <2>3, <2>5 DEF Contents!Next
  <1>8. CASE RemoveFast(l)
    <2>1. PICK i \in 0..(list[l].numitems - 1) : Becomes(l, RemovedFast(list[l], i))
      BY <1>8 DEF RemoveFast
    <2>2. /\ Good(RemovedFast(list[l], i))
          /\ Content(RemovedFast(list[l], i)) =
               Contents!Front([items[l] EXCEPT ![i + 1] = Contents!Last(items[l])])
      BY <1>2, <1>3, RemovedFastGood
    <2>3. /\ Sound'
          /\ items' = [items EXCEPT ![l] = Contents!Front([items[l] EXCEPT ![i + 1] = Contents!Last(items[l])])]
      BY <1>4, <2>1, <2>2
    <2>4. i + 1 \in DOMAIN items[l]
      BY <1>3
    <2>5. Contents!RemoveAndFill(l)
      BY <2>3, <2>4 DEF Contents!RemoveAndFill, Contents!Becomes, items
    <2> QED
      BY <2>3, <2>5 DEF Contents!Next
  <1>9. CASE Truncate(l)
    <2>1. PICK n \in 0..list[l].numitems :
            \/ Becomes(l, Truncated(list[l], n))
            \/ Becomes(l, Fitted(Truncated(list[l], n)))
      BY <1>9 DEF Truncate
    <2>2. /\ Good(Truncated(list[l], n))
          /\ Content(Truncated(list[l], n)) = SubSeq(items[l], 1, n)
      BY <1>2, <1>3, TruncatedGood
    <2>3. /\ Good(Fitted(Truncated(list[l], n)))
          /\ Content(Fitted(Truncated(list[l], n))) = SubSeq(items[l], 1, n)
      BY <2>2, FittedGood
    <2>4. Sound' /\ items' = [items EXCEPT ![l] = SubSeq(items[l], 1, n)]
      BY <1>4, <2>1, <2>2, <2>3
    <2>5. Contents!Shorten(l)
      BY <1>3, <2>4 DEF Contents!Shorten, Contents!Becomes, items
    <2> QED
      BY <2>4, <2>5 DEF Contents!Next
  <1>10. CASE CopyList(l)
    <2>1. PICK m \in Lists : Becomes(l, FilledFrom(Grown(list[l], list[m].numitems), list[m]))
      BY <1>10 DEF CopyList
    <2>2. Good(list[m]) /\ list[m].numitems \in Nat
      BY <1>2 DEF Good
    <2>3. /\ Good(Grown(list[l], list[m].numitems))
          /\ list[m].numitems =< Grown(list[l], list[m].numitems).itembuffersize
      BY <1>2, <2>2, GrownGood
    <2>4. /\ Good(FilledFrom(Grown(list[l], list[m].numitems), list[m]))
          /\ Content(FilledFrom(Grown(list[l], list[m].numitems), list[m])) = Content(list[m])
      BY <2>2, <2>3, FilledFromGood
    <2>5. Sound' /\ items' = [items EXCEPT ![l] = Content(list[m])]
      BY <1>4, <2>1, <2>4
    <2>6. items[m] = Content(list[m])
      BY DEF items
    <2>7. Contents!CopyOf(l)
      BY <2>5, <2>6 DEF Contents!CopyOf, Contents!Becomes, items
    <2> QED
      BY <2>5, <2>7 DEF Contents!Next
  <1>11. CASE Remake(l)
    <2>1. PICK n \in 0..(MaxItems + 1) : Becomes(l, Remade(list[l], n))
      BY <1>11 DEF Remake
    <2>2. n \in Nat
      BY DEF ListAssumption
    <2>3. Good(Remade(list[l], n)) /\ Content(Remade(list[l], n)) = << >>
      BY <1>2, <2>2, RemadeGood
    <2>4. Sound' /\ items' = [items EXCEPT ![l] = << >>]
      BY <1>4, <2>1, <2>3
    <2>5. SubSeq(items[l], 1, 0) = << >> /\ 0 \in 0..Len(items[l])
      BY <1>3
    <2>6. Contents!Shorten(l)
      BY <2>4, <2>5 DEF Contents!Shorten, Contents!Becomes, items
    <2> QED
      BY <2>4, <2>6 DEF Contents!Next
  <1> QED
    BY <1>1, <1>5, <1>6, <1>7, <1>8, <1>9, <1>10, <1>11

(* Every list has the cells it believes it has, room for its items, and no  *)
(* buffer on the heap but the one it uses, whatever is done to the lists,   *)
(* for every size of the buffer in the list (SbList: grow, fit, copy).      *)
THEOREM SoundTheorem == ListAssumption => (ListSpec => []Sound)
  <1> SUFFICES ASSUME ListAssumption PROVE ListSpec => []Sound
    OBVIOUS
  <1>1. ListInit => Sound
    BY InitSound
  <1>2. Sound /\ [ListNext]_list => Sound'
    <2>1. Sound /\ UNCHANGED list => Sound'
      BY DEF Sound
    <2> QED
      BY <2>1, StepKeeps
  <1> QED
    BY <1>1, <1>2, PTL DEF ListSpec

(* Seen by index the lists are sequences: where the buffers are and when    *)
(* they move cannot be told, and a list has nothing to do with another.     *)
THEOREM ImplementsTheorem == ListAssumption => (ListSpec => ListImplements)
  <1> SUFFICES ASSUME ListAssumption PROVE ListSpec => ListImplements
    OBVIOUS
  <1>1. ListInit => Contents!Init
    BY FreshGood DEF ListInit, Contents!Init
  <1>2. Sound /\ [ListNext]_list => [Contents!Next]_(Contents!vars)
    <2>1. UNCHANGED list => UNCHANGED Contents!vars
      BY DEF Contents!vars
    <2> QED
      BY <2>1, StepKeeps
  <1>3. ListSpec => []Sound
    BY SoundTheorem
  <1>4. ListSpec => Contents!Init /\ [][Contents!Next]_(Contents!vars)
    BY <1>1, <1>2, <1>3, PTL DEF ListSpec
  <1> QED
    BY <1>4 DEF ListImplements, Contents!Spec
-----------------------------------------------------------------------------
(* SmHash.                                                                 *)
USE HashAssumption, SizeAssumption, LoadAssumption, ObjectAssumption

(* A non-empty set of natural numbers has a least element. *)
LEMMA LeastIsLeast ==
  ASSUME NEW S \in SUBSET Nat, S # {}
  PROVE  Least(S) \in S /\ \A m \in S : Least(S) =< m
<1>1. PICK n \in S : \A m \in S : ~(<<m, n>> \in OpToRel(<, Nat))
  BY WFMin, NatLessThanWellFounded
<1>2. \A m \in S : ~(m < n)
  BY <1>1 DEF OpToRel
<1>3. \A m \in S : n =< m
  BY <1>2
<1> QED
  BY <1>3 DEF Least

(* Every prime of the table can be a size. *)
LEMMA PrimesAreSizes == PrimeTable \subseteq Nat \ {0}
BY DEF PrimeTable

(* smhash_geq_prime_number never answers zero to a positive number ... *)
LEMMA GeqPrimeType ==
  ASSUME NEW n \in Nat
  PROVE  GeqPrime(n) \in Nat \ {0}
<1> DEFINE Fit == {p \in PrimeTable : p >= n}
<1>1. CASE Fit = {}
  <2>1. 2 \in PrimeTable
    BY DEF PrimeTable
  <2>2. n > 2
    BY <1>1, <2>1
  <2> QED
    BY <1>1, <2>2 DEF GeqPrime
<1>2. CASE Fit # {}
  <2>1. Fit \in SUBSET Nat
    BY PrimesAreSizes
  <2>2. Least(Fit) \in Fit
    BY <1>2, <2>1, LeastIsLeast
  <2> QED
    BY <1>2, <2>2, PrimesAreSizes DEF GeqPrime
<1> QED
  BY <1>1, <1>2

(* ... and a table only grows. *)
LEMMA NewSizeType ==
  ASSUME NEW T, T.size \in Nat, NEW count \in Nat
  PROVE  NewSize(T, count) \in Nat /\ NewSize(T, count) > T.size
<1>1. CASE Roomy(T, count) = {}
  BY <1>1 DEF NewSize
<1>2. CASE Roomy(T, count) # {}
  <2>1. Roomy(T, count) \in SUBSET Nat
    BY PrimesAreSizes DEF Roomy
  <2>2. Least(Roomy(T, count)) \in Roomy(T, count)
    BY <1>2, <2>1, LeastIsLeast
  <2> QED
    BY <1>2, <2>2, PrimesAreSizes DEF NewSize, Roomy
<1> QED
  BY <1>1, <1>2

(* The threshold of a table is a natural number, like elements. *)
LEMMA ThresholdType ==
  ASSUME NEW s \in Nat
  PROVE  ThresholdOf(s) \in Nat
<1>1. s * LoadNum \in Nat
  OBVIOUS
<1> QED
  BY <1>1 DEF ThresholdOf
-----------------------------------------------------------------------------
(* What a table may hold, and the inductive invariant of one table. *)
GoodEntries(E) ==
  /\ E \subseteq Entry /\ IsFiniteSet(E)
  /\ \A e, f \in E : e.key = f.key => e = f

GoodTable(T) ==
  /\ T.size \in Nat \ {0} /\ T \in TablesOf(T.size)
  /\ \A i \in 0..(T.size - 1) : \A e \in T.buckets[i] : Index(T, e.key) = i
  /\ GoodEntries(Stored(T))
  /\ T.elements = Cardinality(Stored(T))

(* The modulo of a hash is the number of a bucket. *)
LEMMA ModType ==
  ASSUME NEW n \in Nat, NEW s \in Nat \ {0}
  PROVE  n % s \in 0..(s - 1)
OBVIOUS

(* The buckets of a table filled anew hold exactly the entries. *)
LEMMA FilledGood ==
  ASSUME NEW s \in Nat \ {0}, NEW E, GoodEntries(E)
  PROVE  /\ GoodTable(Filled(s, E))
         /\ Stored(Filled(s, E)) = E /\ Filled(s, E).size = s
<1> DEFINE F == Filled(s, E)
<1>1. /\ F.size = s /\ F.elements = Cardinality(E)
      /\ F.threshold = ThresholdOf(s)
      /\ F.buckets = [i \in 0..(s - 1) |-> {e \in E : Hash[e.key] % s = i}]
  BY DEF Filled
<1>2. \A e \in E : e.key \in Keys /\ Hash[e.key] \in Nat
  BY DEF GoodEntries, Entry
<1>3. Stored(F) = E
  <2>1. \A e \in E : Hash[e.key] % s \in 0..(s - 1)
    BY <1>2, ModType
  <2> QED
    BY <1>1, <2>1 DEF Stored
<1>4. F \in TablesOf(s)
  <2>1. F.buckets \in [0..(s - 1) -> SUBSET Entry]
    BY <1>1 DEF GoodEntries
  <2>2. Cardinality(E) \in Nat
    BY FS_CardinalityType DEF GoodEntries
  <2> QED
    BY <1>1, <2>1, <2>2 DEF TablesOf, Filled
<1>5. \A i \in 0..(s - 1) : \A e \in F.buckets[i] : Index(F, e.key) = i
  BY <1>1 DEF Index
<1> HIDE DEF F
<1> QED
  BY <1>1, <1>3, <1>4, <1>5 DEF GoodTable, F

(* The index of a key is the number of a bucket of a good table. *)
LEMMA IndexInRange ==
  ASSUME NEW T, GoodTable(T), NEW k \in Keys
  PROVE  Index(T, k) \in 0..(T.size - 1)
<1>1. Hash[k] \in Nat
  OBVIOUS
<1> QED
  BY <1>1, ModType DEF Index, GoodTable

(* Searching one bucket is searching the table. *)
LEMMA MatchesInStored ==
  ASSUME NEW T, GoodTable(T), NEW k \in Keys
  PROVE  Matches(T, k) = {e \in Stored(T) : e.key = k}
<1>1. Matches(T, k) \subseteq {e \in Stored(T) : e.key = k}
  BY IndexInRange DEF Matches, Stored
<1>2. ASSUME NEW e \in Stored(T), e.key = k
      PROVE  e \in Matches(T, k)
  <2>1. PICK i \in 0..(T.size - 1) : e \in T.buckets[i]
    BY DEF Stored
  <2>2. Index(T, k) = i
    BY <1>2, <2>1 DEF GoodTable
  <2> QED
    BY <1>2, <2>1, <2>2 DEF Matches
<1> QED
  BY <1>1, <1>2

WithBucket(T, j, B, n) == [T EXCEPT !.buckets[j] = B, !.elements = n]

Changed(T, U, j, B, n) ==
  /\ U.size = T.size /\ U \in TablesOf(U.size) /\ U.elements = n
  /\ \A i \in 0..(U.size - 1) : \A e \in U.buckets[i] : Index(U, e.key) = i
  /\ Stored(U) = (Stored(T) \ T.buckets[j]) \cup B

(* What a change of one bucket makes of the entries. *)
LEMMA BucketChanged ==
  ASSUME NEW T, GoodTable(T), NEW j \in 0..(T.size - 1), NEW B \in SUBSET Entry,
         NEW n \in Nat, \A e \in B : Index(T, e.key) = j
  PROVE  Changed(T, WithBucket(T, j, B, n), j, B, n)
<1> DEFINE U == WithBucket(T, j, B, n)
<1>1. j \in 0..(T.size - 1)
  OBVIOUS
<1>2. T \in TablesOf(T.size)
  BY DEF GoodTable
<1>3. /\ U.size = T.size /\ U.elements = n /\ U.threshold = T.threshold
      /\ U.buckets = [T.buckets EXCEPT ![j] = B]
  BY <1>2 DEF TablesOf, WithBucket
<1>4. U \in TablesOf(U.size)
  BY <1>1, <1>2, <1>3 DEF TablesOf, WithBucket
<1> HIDE DEF U
<1>5. \A i \in 0..(U.size - 1) : U.buckets[i] = IF i = j THEN B ELSE T.buckets[i]
  BY <1>1, <1>2, <1>3 DEF TablesOf
<1>6. \A e : Index(U, e) = Index(T, e)
  BY <1>3 DEF Index
<1>7. \A i \in 0..(T.size - 1) : \A e \in T.buckets[i] : Index(T, e.key) = i
  BY DEF GoodTable
<1>8. Stored(U) = (Stored(T) \ T.buckets[j]) \cup B
  <2>1. ASSUME NEW e \in Stored(U)
        PROVE  e \in (Stored(T) \ T.buckets[j]) \cup B
    <3>1. PICK i \in 0..(U.size - 1) : e \in U.buckets[i]
      BY DEF Stored
    <3>2. CASE i = j
      BY <1>5, <3>1, <3>2
    <3>3. CASE i # j
      <4>1. e \in T.buckets[i] /\ i \in 0..(T.size - 1)
        BY <1>3, <1>5, <3>1, <3>3
      <4>2. e \notin T.buckets[j]
        BY <1>1, <1>7, <3>3, <4>1
      <4> QED
        BY <4>1, <4>2 DEF Stored
    <3> QED
      BY <3>2, <3>3
  <2>2. ASSUME NEW e \in Stored(T), e \notin T.buckets[j]
        PROVE  e \in Stored(U)
    <3>1. PICK i \in 0..(T.size - 1) : e \in T.buckets[i]
      BY DEF Stored
    <3>2. i # j
      BY <2>2, <3>1
    <3>3. e \in U.buckets[i] /\ i \in 0..(U.size - 1)
      BY <1>3, <1>5, <3>1, <3>2
    <3> QED
      BY <3>3 DEF Stored
  <2>3. ASSUME NEW e \in B
        PROVE  e \in Stored(U)
    <3>1. e \in U.buckets[j] /\ j \in 0..(U.size - 1)
      BY <1>1, <1>3, <1>5
    <3> QED
      BY <3>1 DEF Stored
  <2> QED
    BY <2>1, <2>2, <2>3
<1>9. \A i \in 0..(U.size - 1) : \A e \in U.buckets[i] : Index(U, e.key) = i
  BY <1>3, <1>5, <1>6, <1>7
<1> QED
  BY <1>3, <1>4, <1>8, <1>9 DEF U, Changed

(* The entries a put of obj under k leaves. *)
WithEntry(E, k, obj) ==
  {e \in E : e.key # k} \cup {[key |-> k, obj |-> obj]}

(* What a put leaves are good entries again. *)
LEMMA WithEntryGood ==
  ASSUME NEW E, GoodEntries(E), NEW k \in Keys, NEW obj \in Objects
  PROVE  GoodEntries(WithEntry(E, k, obj))
<1> DEFINE Rest == {e \in E : e.key # k}
           new  == [key |-> k, obj |-> obj]
<1>1. IsFiniteSet(Rest \cup {new})
  <2>1. IsFiniteSet(Rest)
    BY FS_Subset DEF GoodEntries
  <2> QED
    BY <2>1, FS_AddElement
<1>2. new \in Entry /\ new.key = k
  BY DEF Entry
<1> QED
  BY <1>1, <1>2 DEF GoodEntries, WithEntry

(* Replacing the object of a key that is there keeps the count ... *)
LEMMA ReplacedGood ==
  ASSUME NEW T, GoodTable(T), NEW k \in Keys, NEW obj \in Objects,
         Matches(T, k) # {}
  PROVE  /\ GoodTable(Replaced(T, k, obj))
         /\ Stored(Replaced(T, k, obj)) = WithEntry(Stored(T), k, obj)
<1> DEFINE j   == Index(T, k)
           new == [key |-> k, obj |-> obj]
           B   == (T.buckets[j] \ Matches(T, k)) \cup {new}
           U   == Replaced(T, k, obj)
           n   == T.elements
<1>0. T \in TablesOf(T.size) /\ n \in Nat /\ j \in 0..(T.size - 1)
  BY IndexInRange DEF GoodTable, TablesOf
<1>1. U = WithBucket(T, j, B, n)
  BY <1>0 DEF Replaced, TablesOf, WithBucket
<1>a. new \in Entry /\ new.key = k /\ T.buckets[j] \subseteq Entry
  BY <1>0 DEF Entry, TablesOf
<1>2. B \in SUBSET Entry
  BY <1>a
<1>3. \A e \in B : Index(T, e.key) = j
  BY <1>0, <1>a DEF GoodTable
<1>b. new \in B /\ B \subseteq T.buckets[j] \cup {new} /\ Matches(T, k) \cap B \subseteq {new}
  OBVIOUS
<1>c. \A e \in T.buckets[j] : e \in B \/ e \in Matches(T, k)
  OBVIOUS
<1>n. n = T.elements
  OBVIOUS
<1>g. Matches(T, k) \subseteq T.buckets[j]
  BY DEF Matches
<1> HIDE DEF B, U, n, new, j
<1>e. Changed(T, WithBucket(T, j, B, n), j, B, n)
  BY <1>0, <1>2, <1>3, <1>n, BucketChanged
<1>4. Changed(T, U, j, B, n)
  BY <1>1, <1>e
<1>f. U.size = T.size /\ Stored(U) = (Stored(T) \ T.buckets[j]) \cup B
  BY <1>4 DEF Changed
<1>5. PICK old \in Matches(T, k) : TRUE
  OBVIOUS
<1>6. Matches(T, k) = {e \in Stored(T) : e.key = k}
  BY MatchesInStored
<1>7. T.buckets[j] \subseteq Stored(T)
  BY <1>0 DEF Stored
<1>d. \A e \in B : e = new \/ (e \in Stored(T) /\ e.key # k)
  BY <1>b, <1>6, <1>7
<1>8. Stored(U) = WithEntry(Stored(T), k, obj)
  <2>1. ASSUME NEW e \in Stored(U)
        PROVE  e = new \/ (e \in Stored(T) /\ e.key # k)
    <3>1. CASE e \in B
      BY <1>d, <3>1
    <3>2. CASE e \in Stored(T) /\ e \notin T.buckets[j]
      BY <1>6, <1>g, <3>2
    <3> QED
      BY <1>f, <2>1, <3>1, <3>2
  <2>2. ASSUME NEW e \in Stored(T), e.key # k
        PROVE  e \in Stored(U)
    BY <1>c, <1>f, <1>6, <2>2
  <2>3. new \in Stored(U)
    BY <1>b, <1>f
  <2>4. WithEntry(Stored(T), k, obj) = {e \in Stored(T) : e.key # k} \cup {new}
    BY DEF WithEntry, new
  <2> QED
    BY <2>1, <2>2, <2>3, <2>4
<1>9. GoodEntries(Stored(T)) /\ n = Cardinality(Stored(T))
  BY <1>n DEF GoodTable
<1>10. Matches(T, k) = {old}
  BY <1>5, <1>6, <1>9 DEF GoodEntries
<1>11. WithEntry(Stored(T), k, obj) = (Stored(T) \ {old}) \cup {new}
  BY <1>6, <1>10 DEF WithEntry, new
<1>12. Cardinality((Stored(T) \ {old}) \cup {new}) = n
  <2>1. IsFiniteSet(Stored(T)) /\ old \in Stored(T)
    BY <1>6, <1>9 DEF GoodEntries
  <2>2. /\ IsFiniteSet(Stored(T) \ {old})
        /\ Cardinality(Stored(T) \ {old}) = Cardinality(Stored(T)) - 1
    BY <2>1, FS_RemoveElement
  <2>3. new \notin Stored(T) \ {old}
    BY <1>6, <1>10, <1>a
  <2>4. Cardinality((Stored(T) \ {old}) \cup {new}) = n - 1 + 1
    BY <1>9, <2>2, <2>3, FS_AddElement
  <2> QED
    BY <1>0, <2>4
<1>13. GoodEntries(Stored(U))
  BY <1>8, <1>9, WithEntryGood
<1> QED
  BY <1>4, <1>8, <1>11, <1>12, <1>13 DEF GoodTable, U, Changed

(* ... a new key raises it by one ... *)
LEMMA InsertedGood ==
  ASSUME NEW T, GoodTable(T), NEW k \in Keys, NEW obj \in Objects,
         Matches(T, k) = {}
  PROVE  /\ GoodTable(Inserted(T, k, obj))
         /\ Inserted(T, k, obj).size = T.size
         /\ Stored(Inserted(T, k, obj)) = WithEntry(Stored(T), k, obj)
<1> DEFINE j   == Index(T, k)
           new == [key |-> k, obj |-> obj]
           B   == T.buckets[j] \cup {new}
           U   == Inserted(T, k, obj)
           n   == T.elements + 1
<1>0. T \in TablesOf(T.size) /\ T.elements \in Nat /\ j \in 0..(T.size - 1)
  BY IndexInRange DEF GoodTable, TablesOf
<1>1. U = WithBucket(T, j, B, n)
  BY DEF Inserted, WithBucket
<1>a. new \in Entry /\ new.key = k /\ T.buckets[j] \subseteq Entry
  BY <1>0 DEF Entry, TablesOf
<1>2. B \in SUBSET Entry /\ n \in Nat
  BY <1>0, <1>a
<1>3. \A e \in B : Index(T, e.key) = j
  BY <1>0, <1>a DEF GoodTable
<1>b. B = T.buckets[j] \cup {new}
  OBVIOUS
<1>c. n = T.elements + 1
  OBVIOUS
<1> HIDE DEF B, U, n, new, j
<1>e. Changed(T, WithBucket(T, j, B, n), j, B, n)
  BY <1>0, <1>2, <1>3, BucketChanged
<1>4. Changed(T, U, j, B, n)
  BY <1>1, <1>e
<1>f. U.size = T.size /\ Stored(U) = (Stored(T) \ T.buckets[j]) \cup B
  BY <1>4 DEF Changed
<1>5. {e \in Stored(T) : e.key = k} = {}
  BY MatchesInStored
<1>6. T.buckets[j] \subseteq Stored(T)
  BY <1>0 DEF Stored
<1>7. Stored(U) = Stored(T) \cup {new}
  BY <1>f, <1>6, <1>b
<1>8. Stored(U) = WithEntry(Stored(T), k, obj)
  BY <1>5, <1>7 DEF WithEntry, new
<1>9. GoodEntries(Stored(T)) /\ T.elements = Cardinality(Stored(T))
  BY DEF GoodTable
<1>10. Cardinality(Stored(U)) = n
  <2>1. IsFiniteSet(Stored(T)) /\ new \notin Stored(T)
    BY <1>5, <1>9, <1>a DEF GoodEntries
  <2>2. Cardinality(Stored(T) \cup {new}) = Cardinality(Stored(T)) + 1
    BY <2>1, FS_AddElement
  <2> QED
    BY <1>7, <1>9, <1>c, <2>2
<1>11. GoodEntries(Stored(U))
  BY <1>8, <1>9, WithEntryGood
<1> QED
  BY <1>4, <1>8, <1>10, <1>11 DEF GoodTable, U, Changed

(* ... and removing a key lowers it by one, or leaves all as it was. *)
LEMMA RemovedGood ==
  ASSUME NEW T, GoodTable(T), NEW k \in Keys
  PROVE  /\ GoodTable(Removed(T, k))
         /\ Stored(Removed(T, k)) = {e \in Stored(T) : e.key # k}
<1> DEFINE j == Index(T, k)
           B == T.buckets[j] \ Matches(T, k)
           U == Removed(T, k)
           n == T.elements - 1
<1>0. T \in TablesOf(T.size) /\ T.elements \in Nat /\ j \in 0..(T.size - 1)
  BY IndexInRange DEF GoodTable, TablesOf
<1>1. Matches(T, k) = {e \in Stored(T) : e.key = k}
  BY MatchesInStored
<1>2. CASE Matches(T, k) = {}
  BY <1>1, <1>2 DEF Removed
<1>3. CASE Matches(T, k) # {}
  <2>1. PICK old \in Matches(T, k) : TRUE
    BY <1>3
  <2>2. GoodEntries(Stored(T)) /\ T.elements = Cardinality(Stored(T))
    BY DEF GoodTable
  <2>3. Matches(T, k) = {old} /\ old \in Stored(T)
    BY <1>1, <2>1, <2>2 DEF GoodEntries
  <2>4. /\ IsFiniteSet(Stored(T) \ {old})
        /\ Cardinality(Stored(T) \ {old}) = n
    BY <2>2, <2>3, FS_RemoveElement DEF GoodEntries
  <2>5. n \in Nat
    BY <2>4, FS_CardinalityType
  <2>6. U = WithBucket(T, j, B, n)
    BY <1>3 DEF Removed, WithBucket
  <2>7. B \in SUBSET Entry
    BY <1>0 DEF TablesOf
  <2>8. \A e \in B : Index(T, e.key) = j
    BY <1>0 DEF GoodTable
  <2>a. B = T.buckets[j] \ Matches(T, k)
    OBVIOUS
  <2> HIDE DEF B, U, n, j
  <2>b. Changed(T, WithBucket(T, j, B, n), j, B, n)
    BY <1>0, <2>5, <2>7, <2>8, BucketChanged
  <2>9. Changed(T, U, j, B, n)
    BY <2>6, <2>b
  <2>c. Stored(U) = (Stored(T) \ T.buckets[j]) \cup B
    BY <2>9 DEF Changed
  <2>10. T.buckets[j] \subseteq Stored(T)
    BY <1>0 DEF Stored
  <2>11. Stored(U) = Stored(T) \ {old}
    <3>1. old \in T.buckets[j]
      BY <2>1 DEF Matches, j
    <3> QED
      BY <2>3, <2>c, <2>10, <2>a, <3>1
  <2>12. Stored(U) = {e \in Stored(T) : e.key # k}
    BY <1>1, <2>3, <2>11
  <2>13. GoodEntries(Stored(U))
    BY <2>2, <2>4, <2>11 DEF GoodEntries
  <2> QED
    BY <1>0, <2>4, <2>9, <2>11, <2>12, <2>13 DEF GoodTable, U, Changed
<1> QED
  BY <1>2, <1>3

(* A resize moves the entries to a larger table and loses none. *)
LEMMA ResizedGood ==
  ASSUME NEW T, T.size \in Nat \ {0}, NEW E, GoodEntries(E)
  PROVE  GoodTable(Resized(T, E)) /\ Stored(Resized(T, E)) = E
<1>1. Cardinality(E) \in Nat
  BY FS_CardinalityType DEF GoodEntries
<1>2. NewSize(T, Cardinality(E)) \in Nat \ {0}
  BY <1>1, NewSizeType
<1> QED
  BY <1>2, FilledGood DEF Resized

(* put() keeps a table good and leaves its entry in it. *)
LEMMA PutGood ==
  ASSUME NEW T, GoodTable(T), NEW k \in Keys, NEW obj \in Objects
  PROVE  /\ GoodTable(PutInto(T, k, obj))
         /\ Stored(PutInto(T, k, obj)) = WithEntry(Stored(T), k, obj)
<1>1. CASE Matches(T, k) # {}
  BY <1>1, ReplacedGood DEF PutInto
<1>2. CASE Matches(T, k) = {} /\ T.elements >= T.threshold
  <2>1. GoodEntries(WithEntry(Stored(T), k, obj)) /\ T.size \in Nat \ {0}
    BY WithEntryGood DEF GoodTable
  <2> QED
    BY <1>2, <2>1, InsertedGood, ResizedGood DEF PutInto
<1>3. CASE Matches(T, k) = {} /\ ~(T.elements >= T.threshold)
  BY <1>3, InsertedGood DEF PutInto
<1> QED
  BY <1>1, <1>2, <1>3
-----------------------------------------------------------------------------
(* A table may hold nothing. *)
LEMMA EmptyGood == GoodEntries({})
BY FS_EmptySet DEF GoodEntries

(* clear() leaves a good table that holds nothing. *)
LEMMA ClearedGood ==
  ASSUME NEW T, GoodTable(T)
  PROVE  GoodTable(Cleared(T)) /\ Stored(Cleared(T)) = {}
<1>1. T \in TablesOf(T.size) /\ T.size \in Nat \ {0}
  BY DEF GoodTable
<1>2. Cleared(T) = Filled(T.size, {})
  <2> DEFINE none == [i \in 0..(T.size - 1) |-> {}]
             rec  == [size |-> T.size, elements |-> 0,
                      threshold |-> ThresholdOf(T.size), buckets |-> none]
  <2>1. DOMAIN T.buckets = 0..(T.size - 1) /\ T.threshold = ThresholdOf(T.size)
    BY <1>1 DEF TablesOf
  <2>2. Cleared(T) = [T EXCEPT !.buckets = none, !.elements = 0]
    BY <2>1 DEF Cleared
  <2>3. Cleared(T) = rec
    <3> HIDE DEF none
    <3> QED
      BY <1>1, <2>1, <2>2 DEF TablesOf
  <2>4. none = [i \in 0..(T.size - 1) |-> {e \in {} : Hash[e.key] % T.size = i}]
    OBVIOUS
  <2>5. Cardinality({}) = 0
    BY FS_EmptySet
  <2>6. Filled(T.size, {}) = rec
    <3> HIDE DEF none
    <3> QED
      BY <2>4, <2>5 DEF Filled
  <2> QED
    BY <2>3, <2>6
<1> QED
  BY <1>1, <1>2, EmptyGood, FilledGood

(* operator= leaves a good table with the entries of the other. *)
LEMMA AssignedGood ==
  ASSUME NEW T, T.size \in Nat \ {0}, NEW E, GoodEntries(E)
  PROVE  GoodTable(Assigned(T, E)) /\ Stored(Assigned(T, E)) = E
BY FilledGood, ResizedGood DEF Assigned

(* Every table of the program is good: this is inductive. *)
Inv == DOMAIN table = Tables /\ \A t \in Tables : GoodTable(table[t])

(* Every table starts good. *)
LEMMA InitInv == Init => Inv
<1> SUFFICES ASSUME Init PROVE Inv
  OBVIOUS
<1>1. GeqPrime(SizeArg) \in Nat \ {0}
  BY GeqPrimeType
<1>2. NewTable = Filled(GeqPrime(SizeArg), {})
  <2>1. Cardinality({}) = 0
    BY FS_EmptySet
  <2> QED
    BY <2>1 DEF NewTable, Filled
<1> QED
  BY <1>1, <1>2, EmptyGood, FilledGood DEF Init, Inv

(* A call changes one table, into a good one. *)
LEMMA OneTable ==
  ASSUME Inv, NEW t \in Tables, NEW U, GoodTable(U),
         table' = [table EXCEPT ![t] = U]
  PROVE  Inv'
BY DEF Inv, GoodTable

(* Every call of the program leaves all tables good. *)
LEMMA NextInv == Inv /\ [Next]_vars => Inv'
<1> SUFFICES ASSUME Inv, [Next]_vars PROVE Inv'
  OBVIOUS
<1>1. \A t \in Tables : GoodTable(table[t])
  BY DEF Inv
<1>2. ASSUME NEW t \in Tables, NEW k \in Keys, NEW obj \in Objects, Put(t, k, obj)
      PROVE  Inv'
  <2>1. GoodTable(PutInto(table[t], k, obj))
    BY <1>1, PutGood
  <2>2. table' = [table EXCEPT ![t] = PutInto(table[t], k, obj)]
    BY <1>2 DEF Put
  <2> QED
    BY <2>1, <2>2, OneTable
<1>3. ASSUME NEW t \in Tables, NEW k \in Keys, Get(t, k)
      PROVE  Inv'
  BY <1>3 DEF Get, Inv
<1>4. ASSUME NEW t \in Tables, NEW k \in Keys, Remove(t, k)
      PROVE  Inv'
  <2>1. GoodTable(Removed(table[t], k))
    BY <1>1, RemovedGood
  <2>2. table' = [table EXCEPT ![t] = Removed(table[t], k)]
    BY <1>4 DEF Remove
  <2> QED
    BY <2>1, <2>2, OneTable
<1>5. ASSUME NEW t \in Tables, Clear(t)
      PROVE  Inv'
  <2>1. GoodTable(Cleared(table[t]))
    BY <1>1, ClearedGood
  <2>2. table' = [table EXCEPT ![t] = Cleared(table[t])]
    BY <1>5 DEF Clear
  <2> QED
    BY <2>1, <2>2, OneTable
<1>6. ASSUME NEW t \in Tables, NEW from \in Tables, Assign(t, from)
      PROVE  Inv'
  <2>1. GoodEntries(Stored(table[from])) /\ table[t].size \in Nat \ {0}
    BY <1>1 DEF GoodTable
  <2>2. GoodTable(Assigned(table[t], Stored(table[from])))
    BY <2>1, AssignedGood
  <2>3. table' = [table EXCEPT ![t] = Assigned(table[t], Stored(table[from]))]
    BY <1>6 DEF Assign
  <2> QED
    BY <2>2, <2>3, OneTable
<1>7. ASSUME NEW t \in Tables, NEW from \in Tables, Copy(t, from)
      PROVE  Inv'
  <2> DEFINE New == Filled(GeqPrime(table[from].size), {})
  <2>1. GoodEntries(Stored(table[from])) /\ table[from].size \in Nat
    BY <1>1 DEF GoodTable
  <2>2. New.size \in Nat \ {0}
    BY <2>1, GeqPrimeType DEF Filled
  <2>3. table' = [table EXCEPT ![t] = Assigned(New, Stored(table[from]))]
    BY <1>7 DEF Copy
  <2> HIDE DEF New
  <2>4. GoodTable(Assigned(New, Stored(table[from])))
    BY <2>1, <2>2, AssignedGood
  <2> QED
    BY <2>3, <2>4, OneTable
<1>8. CASE UNCHANGED vars
  BY <1>8 DEF vars, Inv
<1> QED
  BY <1>2, <1>3, <1>4, <1>5, <1>6, <1>7, <1>8 DEF Next

(* So they always are. *)
LEMMA Invariance == Spec => []Inv
BY InitInv, NextInv, PTL DEF Spec

(* The members of every table have their types, after any number of calls. *)
THEOREM TypeCorrect == Spec => []TypeOK
<1>1. Inv => TypeOK
  BY DEF Inv, GoodTable, TypeOK
<1> QED
  BY <1>1, Invariance, PTL

(* An entry is always in the bucket a later call searches for its key, and *)
(* no key has two entries.                                                 *)
THEOREM EntriesPlaced == Spec => []Placed
<1>1. Inv => Placed
  BY DEF Inv, GoodTable, GoodEntries, Placed
<1> QED
  BY <1>1, Invariance, PTL

(* getNumElements() is the number of entries. *)
THEOREM EntriesCounted == Spec => []Counted
<1>1. Inv => Counted
  BY DEF Inv, GoodTable, Counted
<1> QED
  BY <1>1, Invariance, PTL
-----------------------------------------------------------------------------
(* Division rounds down, so that a larger table has no smaller threshold. *)
LEMMA ThresholdMonotone ==
  ASSUME NEW r \in Nat, NEW s \in Nat, r =< s
  PROVE  ThresholdOf(r) =< ThresholdOf(s)
<1>1. ASSUME NEW a \in Nat, NEW b \in Nat, a + 1 =< b
      PROVE  LoadDen * a + LoadDen =< LoadDen * b
  <2>1. LoadDen * (a + 1) =< LoadDen * b
    BY <1>1, Z3
  <2> QED
    BY <2>1
<1>2. ASSUME NEW n \in Nat
      PROVE  \E q \in Nat : q = n \div LoadDen /\ LoadDen * q =< n /\ n < LoadDen * q + LoadDen
  BY Z3
<1>3. r * LoadNum \in Nat /\ s * LoadNum \in Nat /\ r * LoadNum =< s * LoadNum
  BY Z3
<1>4. PICK a \in Nat : /\ a = ThresholdOf(r)
                       /\ LoadDen * a =< r * LoadNum /\ r * LoadNum < LoadDen * a + LoadDen
  BY <1>2, <1>3 DEF ThresholdOf
<1>5. PICK b \in Nat : /\ b = ThresholdOf(s)
                       /\ LoadDen * b =< s * LoadNum /\ s * LoadNum < LoadDen * b + LoadDen
  BY <1>2, <1>3 DEF ThresholdOf
<1>6. ~(b + 1 =< a)
  BY <1>1, <1>3, <1>4, <1>5
<1> QED
  BY <1>4, <1>5, <1>6

(* One of the sizes of the table of primes is enough for what a table has. *)
Fits(T) == \E p \in PrimeTable : T.elements =< ThresholdOf(p)

Bounded(T) == T.elements =< T.threshold

(* A table that is too small for its entries moves to a size that is not,  *)
(* if there is one.                                                        *)
LEMMA ResizedBounded ==
  ASSUME NEW T, T.size \in Nat \ {0}, NEW E, GoodEntries(E),
         Cardinality(E) > ThresholdOf(T.size), Fits(Resized(T, E))
  PROVE  Bounded(Resized(T, E))
<1> DEFINE count == Cardinality(E)
           size  == NewSize(T, count)
<1>1. count \in Nat
  BY FS_CardinalityType DEF GoodEntries
<1>2. Resized(T, E).elements = count /\ Resized(T, E).threshold = ThresholdOf(size)
  BY DEF Resized, Filled
<1>3. PICK p \in PrimeTable : count =< ThresholdOf(p)
  BY <1>2 DEF Fits
<1>4. p \in Nat /\ p > T.size
  <2>1. p \in Nat
    BY PrimesAreSizes
  <2>2. ThresholdOf(p) \in Nat /\ ThresholdOf(T.size) \in Nat
    BY <2>1, ThresholdType
  <2>3. ~(p =< T.size)
    BY <1>1, <1>3, <2>1, <2>2, ThresholdMonotone
  <2> QED
    BY <2>1, <2>3
<1>5. Roomy(T, count) \in SUBSET Nat /\ p \in Roomy(T, count)
  BY <1>3, <1>4, PrimesAreSizes DEF Roomy
<1>6. size \in Roomy(T, count)
  BY <1>5, LeastIsLeast DEF NewSize
<1>7. count =< ThresholdOf(size)
  BY <1>6 DEF Roomy
<1> QED
  BY <1>2, <1>7 DEF Bounded

(* put() adds an entry below the threshold, or moves to a larger table. *)
LEMMA PutBounded ==
  ASSUME NEW T, GoodTable(T), Bounded(T), NEW k \in Keys, NEW obj \in Objects,
         Fits(PutInto(T, k, obj))
  PROVE  Bounded(PutInto(T, k, obj))
<1>1. /\ T \in TablesOf(T.size) /\ T.size \in Nat \ {0}
      /\ T.elements \in Nat /\ T.threshold = ThresholdOf(T.size) /\ T.threshold \in Nat
  <2>1. T \in TablesOf(T.size) /\ T.size \in Nat \ {0}
    BY DEF GoodTable
  <2>2. T.elements \in Nat /\ T.threshold = ThresholdOf(T.size)
    BY <2>1 DEF TablesOf
  <2> QED
    BY <2>1, <2>2, ThresholdType
<1>2. CASE Matches(T, k) # {}
  <2>1. /\ Replaced(T, k, obj).elements = T.elements
        /\ Replaced(T, k, obj).threshold = T.threshold
    BY <1>1 DEF Replaced, TablesOf
  <2> QED
    BY <1>2, <2>1 DEF PutInto, Bounded
<1> DEFINE U == Inserted(T, k, obj)
<1>3. U.elements = T.elements + 1 /\ U.threshold = T.threshold
  BY <1>1 DEF Inserted, TablesOf
<1>4. CASE Matches(T, k) = {} /\ T.elements >= T.threshold
  <2>1. GoodTable(U)
    BY <1>4, InsertedGood
  <2>2. GoodEntries(Stored(U)) /\ Cardinality(Stored(U)) = T.elements + 1
    BY <1>3, <2>1 DEF GoodTable
  <2>3. PutInto(T, k, obj) = Resized(T, Stored(U))
    BY <1>4 DEF PutInto
  <2> HIDE DEF U
  <2>4. Cardinality(Stored(U)) > ThresholdOf(T.size)
    BY <1>1, <1>4, <2>2
  <2> QED
    BY <1>1, <2>2, <2>3, <2>4, ResizedBounded
<1>5. CASE Matches(T, k) = {} /\ ~(T.elements >= T.threshold)
  BY <1>1, <1>3, <1>5 DEF PutInto, Bounded
<1> QED
  BY <1>2, <1>4, <1>5

(* operator= puts entries into a table that was made or cleared for them. *)
LEMMA AssignedBounded ==
  ASSUME NEW T, T.size \in Nat \ {0}, T.threshold = ThresholdOf(T.size),
         NEW E, GoodEntries(E), Fits(Assigned(T, E))
  PROVE  Bounded(Assigned(T, E))
<1>1. Cardinality(E) \in Nat /\ ThresholdOf(T.size) \in Nat
  BY FS_CardinalityType, ThresholdType DEF GoodEntries
<1>2. CASE Cardinality(E) =< T.threshold
  BY <1>2 DEF Assigned, Filled, Bounded
<1>3. CASE ~(Cardinality(E) =< T.threshold)
  BY <1>1, <1>3, ResizedBounded DEF Assigned
<1> QED
  BY <1>2, <1>3

(* What is said of the one table a call changes is so of all.              *)
LEMMA BoundedOne ==
  ASSUME DOMAIN table = Tables, LoadBounded, NEW t \in Tables, NEW U,
         table' = [table EXCEPT ![t] = U],
         \A u \in Tables : Fits(table[u])', Fits(U) => Bounded(U)
  PROVE  LoadBounded'
<1>1. table'[t] = U /\ \A u \in Tables \ {t} : table'[u] = table[u]
  OBVIOUS
<1>2. Bounded(U)
  <2>1. Fits(table'[t])
    BY DEF Fits
  <2> QED
    BY <1>1, <2>1
<1> QED
  BY <1>1, <1>2 DEF LoadBounded, Bounded

(* No table is left fuller than its load factor allows, by any call, as    *)
(* long as a size of the table of primes is enough for the entries.        *)
THEOREM LoadsBounded ==
  Spec /\ [](\A t \in Tables : Fits(table[t])) => []LoadBounded
<1> DEFINE AllFit == \A t \in Tables : Fits(table[t])
<1>1. Init => LoadBounded
  <2> SUFFICES ASSUME Init PROVE LoadBounded
    OBVIOUS
  <2>1. NewTable.elements = 0 /\ NewTable.threshold \in Nat
    BY GeqPrimeType, ThresholdType DEF NewTable
  <2> QED
    BY <2>1 DEF Init, LoadBounded
<1>2. Inv /\ AllFit' /\ LoadBounded /\ [Next]_vars => LoadBounded'
  <2> SUFFICES ASSUME Inv, AllFit', LoadBounded, [Next]_vars PROVE LoadBounded'
    OBVIOUS
  <2>1. DOMAIN table = Tables /\ \A t \in Tables : GoodTable(table[t]) /\ Bounded(table[t])
    BY DEF Inv, LoadBounded, Bounded
  <2>2. \A u \in Tables : Fits(table[u])'
    OBVIOUS
  <2>3. ASSUME NEW t \in Tables
        PROVE  /\ table[t].size \in Nat \ {0} /\ table[t] \in TablesOf(table[t].size)
               /\ table[t].threshold = ThresholdOf(table[t].size)
               /\ table[t].elements \in Nat /\ table[t].threshold \in Nat
    <3>1. table[t].size \in Nat \ {0} /\ table[t] \in TablesOf(table[t].size)
      BY <2>1 DEF GoodTable
    <3>2. table[t].threshold = ThresholdOf(table[t].size) /\ table[t].elements \in Nat
      BY <3>1 DEF TablesOf
    <3> QED
      BY <3>1, <3>2, ThresholdType
  <2> HIDE DEF AllFit
  <2>4. ASSUME NEW t \in Tables, NEW k \in Keys, NEW obj \in Objects, Put(t, k, obj)
        PROVE  LoadBounded'
    <3>1. table' = [table EXCEPT ![t] = PutInto(table[t], k, obj)]
      BY <2>4 DEF Put
    <3>2. Fits(PutInto(table[t], k, obj)) => Bounded(PutInto(table[t], k, obj))
      BY <2>1, PutBounded
    <3> QED
      BY <2>1, <2>2, <3>1, <3>2, BoundedOne
  <2>5. ASSUME NEW t \in Tables, NEW k \in Keys, Remove(t, k)
        PROVE  LoadBounded'
    <3>1. table' = [table EXCEPT ![t] = Removed(table[t], k)]
      BY <2>5 DEF Remove
    <3>2. /\ Removed(table[t], k).threshold = table[t].threshold
          /\ Removed(table[t], k).elements \in {table[t].elements, table[t].elements - 1}
      BY <2>3 DEF Removed, TablesOf
    <3>3. Bounded(Removed(table[t], k))
      BY <2>1, <2>3, <3>2 DEF Bounded
    <3> QED
      BY <2>1, <2>2, <3>1, <3>3, BoundedOne
  <2>6. ASSUME NEW t \in Tables, Clear(t)
        PROVE  LoadBounded'
    <3>1. table' = [table EXCEPT ![t] = Cleared(table[t])]
      BY <2>6 DEF Clear
    <3>2. Cleared(table[t]).threshold = table[t].threshold /\ Cleared(table[t]).elements = 0
      BY <2>3 DEF Cleared, TablesOf
    <3>3. Bounded(Cleared(table[t]))
      BY <2>3, <3>2 DEF Bounded
    <3> QED
      BY <2>1, <2>2, <3>1, <3>3, BoundedOne
  <2>7. ASSUME NEW t \in Tables, NEW from \in Tables, Assign(t, from)
        PROVE  LoadBounded'
    <3>1. table' = [table EXCEPT ![t] = Assigned(table[t], Stored(table[from]))]
      BY <2>7 DEF Assign
    <3>2. GoodEntries(Stored(table[from]))
      BY <2>1 DEF GoodTable
    <3>3. Fits(Assigned(table[t], Stored(table[from])))
            => Bounded(Assigned(table[t], Stored(table[from])))
      BY <2>3, <3>2, AssignedBounded
    <3> QED
      BY <2>1, <2>2, <3>1, <3>3, BoundedOne
  <2>8. ASSUME NEW t \in Tables, NEW from \in Tables, Copy(t, from)
        PROVE  LoadBounded'
    <3> DEFINE New == Filled(GeqPrime(table[from].size), {})
    <3>1. New.size \in Nat \ {0} /\ New.threshold = ThresholdOf(New.size)
      BY <2>3, GeqPrimeType DEF Filled
    <3>2. table' = [table EXCEPT ![t] = Assigned(New, Stored(table[from]))]
      BY <2>8 DEF Copy
    <3>3. GoodEntries(Stored(table[from]))
      BY <2>1 DEF GoodTable
    <3> HIDE DEF New
    <3>4. Fits(Assigned(New, Stored(table[from]))) => Bounded(Assigned(New, Stored(table[from])))
      BY <3>1, <3>3, AssignedBounded
    <3> QED
      BY <2>1, <2>2, <3>2, <3>4, BoundedOne
  <2>9. CASE table' = table
    BY <2>9 DEF LoadBounded
  <2> QED
    BY <2>4, <2>5, <2>6, <2>7, <2>8, <2>9 DEF Next, vars, Get
<1> QED
  BY <1>1, <1>2, Invariance, PTL DEF Spec
-----------------------------------------------------------------------------
(* What is stored under a key, by the entries alone. *)
LEMMA DictAt ==
  ASSUME NEW T, GoodTable(T), NEW k \in Keys
  PROVE  /\ (\A e \in Stored(T) : e.key # k) => DictOf(T)[k] = NoObject
         /\ \A e \in Stored(T) : e.key = k => /\ DictOf(T)[k] = e.obj
                                             /\ e.obj \in Objects
<1>1. Matches(T, k) = {e \in Stored(T) : e.key = k}
  BY MatchesInStored
<1>2. GoodEntries(Stored(T))
  BY DEF GoodTable
<1>3. ASSUME NEW e \in Stored(T), e.key = k
      PROVE  DictOf(T)[k] = e.obj /\ e.obj \in Objects
  <2>1. Matches(T, k) = {e}
    BY <1>1, <1>2, <1>3 DEF GoodEntries
  <2>2. (CHOOSE f \in Matches(T, k) : TRUE) = e
    BY <2>1
  <2>3. e \in Entry
    BY <1>2 DEF GoodEntries
  <2>4. e.obj \in Objects
    BY <2>3 DEF Entry
  <2> QED
    BY <2>1, <2>2, <2>4 DEF DictOf
<1>4. ASSUME \A e \in Stored(T) : e.key # k
      PROVE  DictOf(T)[k] = NoObject
  <2>1. Matches(T, k) = {}
    BY <1>1, <1>4
  <2> QED
    BY <2>1 DEF DictOf
<1> QED
  BY <1>3, <1>4

(* The dictionary distinguishes stored keys from others. *)
LEMMA DictHas ==
  ASSUME NEW T, GoodTable(T), NEW k \in Keys
  PROVE  Matches(T, k) = {} <=> DictOf(T)[k] = NoObject
<1>1. Matches(T, k) = {e \in Stored(T) : e.key = k}
  BY MatchesInStored
<1>2. CASE Matches(T, k) = {}
  BY <1>2 DEF DictOf
<1>3. CASE Matches(T, k) # {}
  BY <1>1, <1>3, DictAt
<1> QED
  BY <1>2, <1>3

(* put() changes the dictionary at one key. *)
LEMMA PutDict ==
  ASSUME NEW T, GoodTable(T), NEW k \in Keys, NEW obj \in Objects
  PROVE  DictOf(PutInto(T, k, obj)) = [DictOf(T) EXCEPT ![k] = obj]
<1> DEFINE U == PutInto(T, k, obj)
           new == [key |-> k, obj |-> obj]
<1>1. GoodTable(U) /\ Stored(U) = {e \in Stored(T) : e.key # k} \cup {new}
  BY PutGood DEF WithEntry
<1>2. new.key = k /\ new.obj = obj
  OBVIOUS
<1> HIDE DEF U, new
<1>3. DictOf(U)[k] = obj
  BY <1>1, <1>2, DictAt
<1>4. ASSUME NEW q \in Keys, q # k
      PROVE  DictOf(U)[q] = DictOf(T)[q]
  <2>1. CASE \A e \in Stored(T) : e.key # q
    <3>1. \A e \in Stored(U) : e.key # q
      BY <1>1, <1>2, <1>4, <2>1
    <3> QED
      BY <1>1, <2>1, <3>1, DictAt
  <2>2. CASE \E e \in Stored(T) : e.key = q
    <3>1. PICK e \in Stored(T) : e.key = q
      BY <2>2
    <3>2. e \in Stored(U)
      BY <1>1, <1>4, <3>1
    <3>3. DictOf(T)[q] = e.obj
      BY <3>1, DictAt
    <3>4. DictOf(U)[q] = e.obj
      BY <1>1, <3>1, <3>2, DictAt
    <3> QED
      BY <3>3, <3>4
  <2> QED
    BY <2>1, <2>2
<1>5. /\ DictOf(U) = [q \in Keys |-> DictOf(U)[q]]
      /\ DictOf(T) = [q \in Keys |-> DictOf(T)[q]]
  BY DEF DictOf
<1> QED
  BY <1>3, <1>4, <1>5 DEF U

(* remove() takes one key out of the dictionary. *)
LEMMA RemoveDict ==
  ASSUME NEW T, GoodTable(T), NEW k \in Keys
  PROVE  DictOf(Removed(T, k)) = [DictOf(T) EXCEPT ![k] = NoObject]
<1> DEFINE U == Removed(T, k)
<1>1. GoodTable(U) /\ Stored(U) = {e \in Stored(T) : e.key # k}
  BY RemovedGood
<1> HIDE DEF U
<1>2. DictOf(U)[k] = NoObject
  BY <1>1, DictAt
<1>3. ASSUME NEW q \in Keys, q # k
      PROVE  DictOf(U)[q] = DictOf(T)[q]
  <2>1. CASE \A e \in Stored(T) : e.key # q
    <3>1. \A e \in Stored(U) : e.key # q
      BY <1>1, <2>1
    <3> QED
      BY <1>1, <2>1, <3>1, DictAt
  <2>2. CASE \E e \in Stored(T) : e.key = q
    <3>1. PICK e \in Stored(T) : e.key = q
      BY <2>2
    <3>2. e \in Stored(U)
      BY <1>1, <1>3, <3>1
    <3>3. DictOf(T)[q] = e.obj
      BY <3>1, DictAt
    <3>4. DictOf(U)[q] = e.obj
      BY <1>1, <3>1, <3>2, DictAt
    <3> QED
      BY <3>3, <3>4
  <2> QED
    BY <2>1, <2>2
<1>4. /\ DictOf(U) = [q \in Keys |-> DictOf(U)[q]]
      /\ DictOf(T) = [q \in Keys |-> DictOf(T)[q]]
  BY DEF DictOf
<1> QED
  BY <1>2, <1>3, <1>4 DEF U

(* Tables with the same entries are the same dictionary, whatever their    *)
(* sizes: this is why a resize does not show.                              *)
LEMMA SameDict ==
  ASSUME NEW T, GoodTable(T), NEW U, GoodTable(U), Stored(T) = Stored(U)
  PROVE  DictOf(T) = DictOf(U)
<1>1. ASSUME NEW k \in Keys
      PROVE  DictOf(T)[k] = DictOf(U)[k]
  <2>1. CASE \A e \in Stored(T) : e.key # k
    BY <2>1, DictAt
  <2>2. CASE \E e \in Stored(T) : e.key = k
    <3>1. PICK e \in Stored(T) : e.key = k
      BY <2>2
    <3>2. DictOf(T)[k] = e.obj
      BY <3>1, DictAt
    <3>3. DictOf(U)[k] = e.obj
      BY <3>1, DictAt
    <3> QED
      BY <3>2, <3>3
  <2> QED
    BY <2>1, <2>2
<1>2. /\ DictOf(U) = [q \in Keys |-> DictOf(U)[q]]
      /\ DictOf(T) = [q \in Keys |-> DictOf(T)[q]]
  BY DEF DictOf
<1> QED
  BY <1>1, <1>2

(* A table without entries is the empty dictionary. *)
LEMMA EmptyDict ==
  ASSUME NEW T, GoodTable(T), Stored(T) = {}
  PROVE  DictOf(T) = Dictionary!Empty
<1>1. \A k \in Keys : DictOf(T)[k] = NoObject
  BY DictAt
<1>2. DictOf(T) = [q \in Keys |-> DictOf(T)[q]]
  BY DEF DictOf
<1> QED
  BY <1>1, <1>2 DEF Dictionary!Empty
-----------------------------------------------------------------------------
dict == [t \in Tables |-> DictOf(table[t])]

(* The new tables are empty dictionaries. *)
LEMMA DictInit == Init => Dictionary!Init
<1> SUFFICES ASSUME Init PROVE Dictionary!Init
  OBVIOUS
<1>1. GeqPrime(SizeArg) \in Nat \ {0}
  BY GeqPrimeType
<1>2. NewTable = Filled(GeqPrime(SizeArg), {})
  <2>1. Cardinality({}) = 0
    BY FS_EmptySet
  <2> QED
    BY <2>1 DEF NewTable, Filled
<1>3. GoodTable(NewTable) /\ Stored(NewTable) = {}
  BY <1>1, <1>2, EmptyGood, FilledGood
<1>4. DictOf(NewTable) = Dictionary!Empty
  BY <1>3, EmptyDict
<1>5. \A t \in Tables : table[t] = NewTable
  BY DEF Init
<1>6. dict = [t \in Tables |-> Dictionary!Empty]
  BY <1>4, <1>5 DEF dict
<1> QED
  BY <1>6 DEF Dictionary!Init, Init, dict

(* A call that changes one table changes one dictionary. *)
LEMMA OneDict ==
  ASSUME Inv, NEW t \in Tables, NEW U, table' = [table EXCEPT ![t] = U]
  PROVE  dict' = [dict EXCEPT ![t] = DictOf(U)]
<1>1. \A u \in Tables : table'[u] = IF u = t THEN U ELSE table[u]
  BY DEF Inv
<1>2. dict' = [u \in Tables |-> DictOf(table'[u])]
  BY DEF dict
<1>3. dict = [u \in Tables |-> dict[u]] /\ \A u \in Tables : dict[u] = DictOf(table[u])
  BY DEF dict
<1>4. dict' = [u \in Tables |-> IF u = t THEN DictOf(U) ELSE dict[u]]
  <2>1. \A u \in Tables : DictOf(table'[u]) = IF u = t THEN DictOf(U) ELSE dict[u]
    BY <1>1, <1>3
  <2> QED
    BY <1>2, <2>1
<1> QED
  BY <1>3, <1>4

(* Every call is a call of the dictionaries that answers the same. *)
LEMMA DictNext == Inv /\ [Next]_vars => [Dictionary!Next]_(Dictionary!vars)
<1> SUFFICES ASSUME Inv, [Next]_vars PROVE [Dictionary!Next]_(Dictionary!vars)
  OBVIOUS
<1>1. \A t \in Tables : GoodTable(table[t]) /\ dict[t] = DictOf(table[t])
  BY DEF Inv, dict
<1>2. ASSUME NEW t \in Tables, NEW k \in Keys, NEW obj \in Objects, Put(t, k, obj)
      PROVE  Dictionary!Put(t, k, obj)
  <2>1. table' = [table EXCEPT ![t] = PutInto(table[t], k, obj)]
    BY <1>2 DEF Put
  <2>2. dict' = [dict EXCEPT ![t] = DictOf(PutInto(table[t], k, obj))]
    BY <2>1, OneDict
  <2>3. dict' = [dict EXCEPT ![t] = [dict[t] EXCEPT ![k] = obj]]
    <3>1. DictOf(PutInto(table[t], k, obj)) = [DictOf(table[t]) EXCEPT ![k] = obj]
      BY <1>1, PutDict
    <3> QED
      BY <1>1, <2>2, <3>1
  <2>4. Matches(table[t], k) = {} <=> dict[t][k] = NoObject
    BY <1>1, DictHas
  <2>5. returned' = (Matches(table[t], k) = {})
    BY <1>2 DEF Put
  <2>6. returned' = (dict[t][k] = NoObject)
    BY <2>4, <2>5
  <2> QED
    BY <2>3, <2>6 DEF Dictionary!Put, dict
<1>3. ASSUME NEW t \in Tables, NEW k \in Keys, Get(t, k)
      PROVE  Dictionary!Get(t, k)
  <2>1. Matches(table[t], k) = {} <=> dict[t][k] = NoObject
    BY <1>1, DictHas
  <2>2. Matches(table[t], k) # {} =>
          (CHOOSE e \in Matches(table[t], k) : TRUE).obj = dict[t][k]
    BY <1>1 DEF DictOf
  <2>3. returned' = IF dict[t][k] = NoObject THEN FALSE ELSE dict[t][k]
    BY <1>3, <2>1, <2>2 DEF Get
  <2>4. dict' = dict
    BY <1>3 DEF Get, dict
  <2> QED
    BY <2>3, <2>4 DEF Dictionary!Get, dict
<1>4. ASSUME NEW t \in Tables, NEW k \in Keys, Remove(t, k)
      PROVE  Dictionary!Remove(t, k)
  <2>1. table' = [table EXCEPT ![t] = Removed(table[t], k)]
    BY <1>4 DEF Remove
  <2>2. dict' = [dict EXCEPT ![t] = DictOf(Removed(table[t], k))]
    BY <2>1, OneDict
  <2>3. dict' = [dict EXCEPT ![t] = [dict[t] EXCEPT ![k] = NoObject]]
    BY <1>1, <2>2, RemoveDict
  <2>4. Matches(table[t], k) = {} <=> dict[t][k] = NoObject
    BY <1>1, DictHas
  <2>5. returned' = (Matches(table[t], k) # {})
    BY <1>4 DEF Remove
  <2>6. returned' = (dict[t][k] # NoObject)
    BY <2>4, <2>5
  <2> QED
    BY <2>3, <2>6 DEF Dictionary!Remove, dict
<1>5. ASSUME NEW t \in Tables, Clear(t)
      PROVE  Dictionary!Clear(t)
  <2>1. table' = [table EXCEPT ![t] = Cleared(table[t])]
    BY <1>5 DEF Clear
  <2>2. dict' = [dict EXCEPT ![t] = DictOf(Cleared(table[t]))]
    BY <2>1, OneDict
  <2>3. DictOf(Cleared(table[t])) = Dictionary!Empty
    BY <1>1, ClearedGood, EmptyDict
  <2> QED
    BY <1>5, <2>2, <2>3 DEF Clear, Dictionary!Clear, dict
<1>6. ASSUME NEW t \in Tables, NEW from \in Tables, Assign(t, from)
      PROVE  Dictionary!Assign(t, from)
  <2> DEFINE U == Assigned(table[t], Stored(table[from]))
  <2>1. table' = [table EXCEPT ![t] = U]
    BY <1>6 DEF Assign
  <2>2. GoodEntries(Stored(table[from])) /\ table[t].size \in Nat \ {0}
    BY <1>1 DEF GoodTable
  <2>3. GoodTable(U) /\ Stored(U) = Stored(table[from])
    BY <2>2, AssignedGood
  <2> HIDE DEF U
  <2>4. dict' = [dict EXCEPT ![t] = DictOf(U)]
    BY <2>1, OneDict
  <2>5. DictOf(U) = dict[from]
    BY <1>1, <2>3, SameDict
  <2> QED
    BY <1>6, <2>4, <2>5 DEF Assign, Dictionary!Assign, dict
<1>7. ASSUME NEW t \in Tables, NEW from \in Tables, Copy(t, from)
      PROVE  Dictionary!Assign(t, from)
  <2> DEFINE New == Filled(GeqPrime(table[from].size), {})
             U   == Assigned(New, Stored(table[from]))
  <2>1. table' = [table EXCEPT ![t] = U]
    BY <1>7 DEF Copy
  <2>2. GoodEntries(Stored(table[from])) /\ table[from].size \in Nat
    BY <1>1 DEF GoodTable
  <2>3. New.size \in Nat \ {0}
    BY <2>2, GeqPrimeType DEF Filled
  <2> HIDE DEF New
  <2>4. GoodTable(U) /\ Stored(U) = Stored(table[from])
    BY <2>2, <2>3, AssignedGood
  <2> HIDE DEF U
  <2>5. dict' = [dict EXCEPT ![t] = DictOf(U)]
    BY <2>1, OneDict
  <2>6. DictOf(U) = dict[from]
    BY <1>1, <2>4, SameDict
  <2> QED
    BY <1>7, <2>5, <2>6 DEF Copy, Dictionary!Assign, dict
<1>8. CASE UNCHANGED vars
  BY <1>8 DEF vars, Dictionary!vars
<1> QED
  BY <1>2, <1>3, <1>4, <1>5, <1>6, <1>7, <1>8 DEF Next, Dictionary!Next

(* The tables are dictionaries: whatever the load, the hash function and   *)
(* the resizes, every call does to the entries, and returns, what the      *)
(* dictionary would.                                                       *)
THEOREM TablesAreDictionaries == Spec => Implements
<1>1. Spec => Dictionary!Init /\ [][Dictionary!Next]_(Dictionary!vars)
  BY DictInit, DictNext, Invariance, PTL DEF Spec
<1> QED
  BY <1>1 DEF Implements, Dictionary!Spec
=============================================================================

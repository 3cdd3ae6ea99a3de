---------------------------- MODULE SmHashChains ----------------------------
(***************************************************************************)
(* SmHash (misc/SmHash.h) with its chains: a bucket is the sequence of its *)
(* entries, put() adds at the head, and resize() puts the entries one by   *)
(* one, which may call resize() again.  It implements SmHash, where that   *)
(* recursion is a formula for the final size.                              *)
(***************************************************************************)
EXTENDS Integers, SequencesExt

CONSTANTS Tables, Keys, Objects, NoObject, Hash, SizeArg, LoadNum, LoadDen

VARIABLES table, returned

vars == <<table, returned>>

BucketSets(T) == [T EXCEPT !.buckets = [i \in DOMAIN @ |-> ToSet(@[i])]]

Sets == INSTANCE SmHash WITH table <- [t \in Tables |-> BucketSets(table[t])]

EmptyTable(s) ==
  [size |-> s, elements |-> 0, threshold |-> Sets!ThresholdOf(s),
   buckets |-> [i \in 0..(s - 1) |-> <<>>]]

Init == /\ table = [t \in Tables |-> EmptyTable(Sets!GeqPrime(SizeArg))]
        /\ returned = FALSE

Index(T, k) == Hash[k] % T.size

(* Mutant: only the head of the chain is looked at. *)
Position_Bug(T, k) ==
  LET chain == T.buckets[Index(T, k)]
  IN  IF chain # <<>> /\ Head(chain).key = k THEN 1 ELSE 0

(* Where the chain of k holds k, 0 if nowhere. *)
Position(T, k) == SelectInSeq(T.buckets[Index(T, k)], LAMBDA e : e.key = k)

(* The order apply() visits a table in: bucket by bucket, head first. *)
Visited(T) == FlattenSeq([i \in 1..T.size |-> T.buckets[i - 1]])

RECURSIVE Grown_Bug(_, _), Grown(_, _), PutInto(_, _)

(* put *)
PutInto(T, e) ==
  LET i == Index(T, e.key)
      p == Position(T, e.key)
      Pushed == [T EXCEPT !.buckets[i] = <<e>> \o @, !.elements = @ + 1]
  IN  IF p # 0 THEN [T EXCEPT !.buckets[i][p] = e]
      ELSE IF T.elements >= T.threshold
             THEN Grown(Pushed, Sets!GeqPrime(T.size + 1))
             ELSE Pushed

(* Mutant: the element that made the table grow is left behind. *)
Grown_Bug(T, newsize) ==
  IF T.size >= newsize THEN T
  ELSE FoldLeft(PutInto, EmptyTable(newsize), Tail(Visited(T)))

(* resize: all mappings are put into the new, empty buckets. *)
Grown(T, newsize) ==
  IF T.size >= newsize THEN T
  ELSE FoldLeft(PutInto, EmptyTable(newsize), Visited(T))

Put(t, k, obj) ==
  /\ table' = [table EXCEPT ![t] = PutInto(@, [key |-> k, obj |-> obj])]
  /\ returned' = (Position(table[t], k) = 0)

Get(t, k) ==
  LET T == table[t]
      p == Position(T, k)
  IN  /\ returned' = IF p = 0 THEN FALSE ELSE T.buckets[Index(T, k)][p].obj
      /\ UNCHANGED table

(* remove unlinks the first entry found. *)
Removed(T, k) ==
  IF Position(T, k) = 0 THEN T
  ELSE [T EXCEPT !.buckets[Index(T, k)] = RemoveAt(@, Position(T, k)),
                 !.elements = @ - 1]

RemoveKey(t, k) ==
  /\ table' = [table EXCEPT ![t] = Removed(@, k)]
  /\ returned' = (Position(table[t], k) # 0)

Cleared(T) == EmptyTable(T.size)

Clear(t) == /\ table' = [table EXCEPT ![t] = Cleared(@)]
            /\ UNCHANGED returned

(* operator= and copy_data *)
Assign(t, from) ==
  /\ t # from
  /\ table' = [table EXCEPT
       ![t] = FoldLeft(PutInto, Cleared(@), Visited(table[from]))]
  /\ UNCHANGED returned

(* the copy constructor *)
Copy(t, from) ==
  /\ t # from
  /\ table' = [table EXCEPT
       ![t] = FoldLeft(PutInto, EmptyTable(Sets!GeqPrime(table[from].size)),
                       Visited(table[from]))]
  /\ UNCHANGED returned

Next == \E t \in Tables :
          \/ \E k \in Keys, obj \in Objects : Put(t, k, obj)
          \/ \E k \in Keys : Get(t, k) \/ RemoveKey(t, k)
          \/ Clear(t)
          \/ \E from \in Tables : Assign(t, from) \/ Copy(t, from)

Spec == Init /\ [][Next]_vars
-----------------------------------------------------------------------------
(* The chains, their recursive growth included, implement the table of     *)
(* sets: the same sizes, counts, buckets and return values after any calls.*)
Implements == Sets!Spec

(* makeKeyList() visits every key once. *)
VisitedOnce ==
  \A t \in Tables : LET v == Visited(table[t])
                    IN  \A i, j \in DOMAIN v : v[i].key = v[j].key => i = j
=============================================================================

------------------------------- MODULE SmHash -------------------------------
(***************************************************************************)
(* The hash table SmHash<Type, Key> (misc/SmHash.h).  A table has size     *)
(* buckets, counts its elements, and moves to a larger size when a new     *)
(* entry finds the threshold reached.                                      *)
(*                                                                         *)
(* A bucket is the set of its entries: the order of a chain shows only in  *)
(* the order in which apply() visits it.  SmHashChains keeps the order,    *)
(* and the put() that resize() calls back, and implements this module.     *)
(***************************************************************************)
EXTENDS Integers, FiniteSets

CONSTANTS
  Tables,            \* the hash tables of the program
  Keys, Objects,
  NoObject,          \* stands for "no entry" in the abstract dictionary
  Hash,              \* Hash[k]: what hashfunc answers for k
  SizeArg,           \* constructor argument sizearg
  LoadNum, LoadDen   \* constructor argument loadfactorarg, a fraction

ASSUME HashAssumption    == Hash \in [Keys -> Nat]
ASSUME SizeAssumption    == SizeArg \in Nat
ASSUME LoadAssumption    == LoadNum \in Nat \ {0} /\ LoadDen \in Nat \ {0}
ASSUME ObjectAssumption  == NoObject \notin Objects

VARIABLES
  table,    \* table[t]: the members size, elements, threshold, buckets
  returned  \* what the last call returned

vars == <<table, returned>>

(* smhash_prime_table, but for its last six entries: no table gets there,  *)
(* and TLC's integers would not reach their thresholds.                    *)
PrimeTable ==
  {2, 5, 11, 17, 37, 67, 131, 257, 521, 1031, 2053, 4099, 8209, 16411, 32771,
   65537, 131101, 262147, 524309, 1048583, 2097169, 4194319, 8388617,
   16777259, 33554467, 67108879}

Least(S) == CHOOSE n \in S : \A m \in S : n =< m

(* smhash_geq_prime_number *)
GeqPrime(n) ==
  LET Fit == {p \in PrimeTable : p >= n}
  IN  IF Fit = {} THEN n ELSE Least(Fit)

ThresholdOf(size) == (size * LoadNum) \div LoadDen

Entry == [key : Keys, obj : Objects]

(* commonConstructor *)
NewTable ==
  LET s == GeqPrime(SizeArg)
  IN  [size |-> s, elements |-> 0, threshold |-> ThresholdOf(s),
       buckets |-> [i \in 0..(s - 1) |-> {}]]

Init == /\ table = [t \in Tables |-> NewTable]
        /\ returned = FALSE

Index(T, k) == Hash[k] % T.size

(* The entry the chain of k is searched for. *)
Matches(T, k) == {e \in T.buckets[Index(T, k)] : e.key = k}

Stored(T) == UNION {T.buckets[i] : i \in 0..(T.size - 1)}

(* resize: the size a full table moves to.  While the entries are put one  *)
(* by one into the new buckets, put() may find the new threshold reached   *)
(* as well and resize once more; it ends at the first size that holds all. *)
Roomy(T, count) == {p \in PrimeTable : p > T.size /\ count =< ThresholdOf(p)}
NewSize(T, count) ==
  IF Roomy(T, count) = {} THEN T.size + 1 ELSE Least(Roomy(T, count))

(* The table of a given size that holds some entries. *)
Filled(s, entries) ==
  [size |-> s, elements |-> Cardinality(entries), threshold |-> ThresholdOf(s),
   buckets |-> [i \in 0..(s - 1) |-> {e \in entries : Hash[e.key] % s = i}]]

(* Mutant: the entries keep the bucket numbers they had. *)
Resized_Bug(T, entries) ==
  LET s == NewSize(T, Cardinality(entries))
  IN  [Filled(s, entries) EXCEPT !.buckets = [i \in 0..(s - 1) |->
         {e \in entries : Hash[e.key] % T.size = i}]]

Resized(T, entries) == Filled(NewSize(T, Cardinality(entries)), entries)

Replaced(T, k, obj) ==
  [T EXCEPT !.buckets[Index(T, k)] = (@ \ Matches(T, k)) \cup {[key |-> k, obj |-> obj]}]

Inserted(T, k, obj) ==
  [T EXCEPT !.buckets[Index(T, k)] = @ \cup {[key |-> k, obj |-> obj]},
            !.elements = @ + 1]

(* Mutant: the table grows one element too late. *)
PutInto_Bug(T, k, obj) ==
  IF Matches(T, k) # {} THEN Replaced(T, k, obj)
  ELSE IF T.elements > T.threshold
         THEN Resized(T, Stored(Inserted(T, k, obj)))
         ELSE Inserted(T, k, obj)

PutInto(T, k, obj) ==
  IF Matches(T, k) # {} THEN Replaced(T, k, obj)
  ELSE IF T.elements >= T.threshold
         THEN Resized(T, Stored(Inserted(T, k, obj)))
         ELSE Inserted(T, k, obj)

(* put *)
Put(t, k, obj) ==
  /\ table' = [table EXCEPT ![t] = PutInto(@, k, obj)]
  /\ returned' = (Matches(table[t], k) = {})

(* get *)
Get(t, k) ==
  /\ returned' = IF Matches(table[t], k) = {} THEN FALSE
                 ELSE (CHOOSE e \in Matches(table[t], k) : TRUE).obj
  /\ UNCHANGED table

(* Mutant: the count stays when an entry goes. *)
Removed_Bug(T, k) ==
  [T EXCEPT !.buckets[Index(T, k)] = @ \ Matches(T, k)]

Removed(T, k) ==
  IF Matches(T, k) = {} THEN T
  ELSE [T EXCEPT !.buckets[Index(T, k)] = @ \ Matches(T, k),
                 !.elements = @ - 1]

(* remove *)
Remove(t, k) ==
  /\ table' = [table EXCEPT ![t] = Removed(@, k)]
  /\ returned' = (Matches(table[t], k) # {})

Cleared(T) == [T EXCEPT !.buckets = [i \in DOMAIN @ |-> {}], !.elements = 0]

(* clear: the table keeps its size. *)
Clear(t) == /\ table' = [table EXCEPT ![t] = Cleared(@)]
            /\ UNCHANGED returned

(* Mutant: operator= does not clear the table it assigns to. *)
Assigned_Bug(T, entries) ==
  Filled(T.size, {e \in Stored(T) : \A f \in entries : f.key # e.key} \cup entries)

(* operator= clears the table and puts what apply() visits in the other. *)
Assigned(T, entries) ==
  IF Cardinality(entries) =< T.threshold
    THEN Filled(T.size, entries)
    ELSE Resized(T, entries)

(* operator= between two tables.  A table assigned to itself would be      *)
(* cleared before it is read; no caller does that.                         *)
Assign(t, from) ==
  /\ t # from
  /\ table' = [table EXCEPT ![t] = Assigned(@, Stored(table[from]))]
  /\ UNCHANGED returned

(* The copy constructor makes t anew with the size of the other. *)
Copy(t, from) ==
  /\ t # from
  /\ table' = [table EXCEPT
       ![t] = Assigned(Filled(GeqPrime(table[from].size), {}), Stored(table[from]))]
  /\ UNCHANGED returned

Next == \E t \in Tables :
          \/ \E k \in Keys, obj \in Objects : Put(t, k, obj)
          \/ \E k \in Keys : Get(t, k) \/ Remove(t, k)
          \/ Clear(t)
          \/ \E from \in Tables : Assign(t, from) \/ Copy(t, from)

Spec == Init /\ [][Next]_vars
-----------------------------------------------------------------------------
(* The tables of a given size. *)
TablesOf(s) ==
  [size : {s}, elements : Nat, threshold : {ThresholdOf(s)},
   buckets : [0..(s - 1) -> SUBSET Entry]]

TypeOK ==
  /\ DOMAIN table = Tables
  /\ \A t \in Tables : /\ table[t].size \in Nat \ {0}
                       /\ table[t] \in TablesOf(table[t].size)

(* An entry is in the bucket a later get() or remove() searches, after any *)
(* number of resizes, and no key has two entries in a table.               *)
Placed ==
  \A t \in Tables :
    /\ \A i \in 0..(table[t].size - 1) :
         \A e \in table[t].buckets[i] : Index(table[t], e.key) = i
    /\ \A e, f \in Stored(table[t]) : e.key = f.key => e = f

(* getNumElements() counts the entries, through replacing puts, failed     *)
(* removes, and the counting from zero that resize() does.                 *)
Counted == \A t \in Tables : table[t].elements = Cardinality(Stored(table[t]))

(* No table is left fuller than its load factor allows. *)
LoadBounded == \A t \in Tables : table[t].elements =< table[t].threshold

(* A table, read as a dictionary. *)
DictOf(T) ==
  [k \in Keys |-> IF Matches(T, k) = {} THEN NoObject
                  ELSE (CHOOSE e \in Matches(T, k) : TRUE).obj]

(* The tables implement dictionaries: every call changes only what the     *)
(* abstract call changes, and returns what it returns.                     *)
Dictionary == INSTANCE KeyValueMap WITH dict <- [t \in Tables |-> DictOf(table[t])]
Implements == Dictionary!Spec
=============================================================================
